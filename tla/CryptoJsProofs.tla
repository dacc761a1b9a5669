--------------------------- MODULE CryptoJsProofs ---------------------------
(***************************************************************************)
(* Every mode of operation can be undone, block by block; hashes, HMACs    *)
(* and derived keys are functions of the whole message, of the password    *)
(* and of the salt, for every size of a byte and of a word, every block    *)
(* cipher that can be undone and every hash whose rounds give a word.      *)
(***************************************************************************)
EXTENDS CryptoJs, SequenceTheorems, WellFoundedInduction, TLAPS

\* A block XORed twice is what it was, and XORing stays within the blocks.
LEMMA XorTwice ==
    ASSUME NEW a \in BlockOf, NEW b \in BlockOf
    PROVE  xorBlock(a, b) \in BlockOf /\ xorBlock(xorBlock(a, b), b) = a
<1>1. \A i \in 1 .. BlockBytes : Xor(a[i], b[i]) \in Byte /\ Xor(Xor(a[i], b[i]), b[i]) = a[i]
      BY ByteAssumption DEF BlockOf
<1>2. xorBlock(a, b) \in BlockOf
      BY <1>1 DEF xorBlock, BlockOf
<1>3. xorBlock(xorBlock(a, b), b) = [i \in 1 .. BlockBytes |-> a[i]]
      BY <1>1 DEF xorBlock
<1>4. a = [i \in 1 .. BlockBytes |-> a[i]]
      BY DEF BlockOf
<1> QED BY <1>2, <1>3, <1>4

\* Counting on from a byte gives a byte.
LEMMA BaseIsPositive == Base \in Nat \ {0}
<1>1. \A m, n \in Nat \ {0} : m * n \in Nat \ {0}
      OBVIOUS
<1>2. Quarter \in Nat \ {0}
      BY SizeAssumption
<1>3. Quarter * Quarter \in Nat \ {0} /\ (Quarter * Quarter) * Quarter \in Nat \ {0}
      BY <1>1, <1>2
<1> QED BY <1>1, <1>2, <1>3 DEF Base

\* A byte counted up is a byte again.
LEMMA NextByte ==
    ASSUME NEW b \in Byte
    PROVE  (b + 1) % Base \in Byte
<1>1. Base \in Nat /\ Base > 0 /\ b + 1 \in Nat
      BY BaseIsPositive DEF Byte
<1>2. ASSUME NEW d \in Nat, d > 0, NEW n \in Nat
      PROVE  n % d \in 0 .. d - 1
      BY <1>2
<1> HIDE DEF Base
<1> QED BY <1>1, <1>2 DEF Byte

\* A block is two words, and a word has a byte at least.
LEMMA BlockSize == WordBytes \in Nat \ {0} /\ BlockBytes = WordBytes + WordBytes
  BY SizeAssumption DEF BlockBytes

\* The registers the code counts with are blocks again.
LEMMA CtrIsBlock ==
    ASSUME NEW r \in BlockOf
    PROVE  CtrNext(r) \in BlockOf
<1>1. \A i \in 1 .. BlockBytes : r[i] \in Byte /\ (r[i] + 1) % Base \in Byte
      BY NextByte DEF BlockOf
<1> QED BY <1>1 DEF CtrNext, BlockOf

\* incWord of a word is a word of bytes.
LEMMA WordCounts ==
    ASSUME NEW w \in [1 .. WordBytes -> Byte]
    PROVE  incWord(w) \in [1 .. WordBytes -> Byte]
<1>1. \A i \in 1 .. WordBytes : w[i] \in Byte /\ (w[i] + 1) % Base \in Byte
      BY NextByte
<1> QED BY <1>1 DEF incWord

\* Gladman's counter of a block is a block of bytes.
LEMMA GladmanIsBlock ==
    ASSUME NEW r \in BlockOf
    PROVE  incCounter(r) \in BlockOf
<1> DEFINE first  == incWord(Word(r, 1))
           second == IF first = Zeros(WordBytes) THEN incWord(Word(r, 2)) ELSE Word(r, 2)
<1>1. Word(r, 1) \in [1 .. WordBytes -> Byte]
      BY BlockSize DEF Word, BlockOf
<1>2. Word(r, 2) \in [1 .. WordBytes -> Byte]
      BY BlockSize DEF Word, BlockOf
<1>3. first \in [1 .. WordBytes -> Byte] /\ second \in [1 .. WordBytes -> Byte]
      BY <1>1, <1>2, WordCounts
<1>4. incCounter(r) = [i \in 1 .. BlockBytes |-> IF i <= WordBytes THEN first[i]
                          ELSE IF i <= 2 * WordBytes THEN second[i - WordBytes] ELSE r[i]]
      BY DEF incCounter
<1> HIDE DEF first, second
<1>5. ASSUME NEW i \in 1 .. BlockBytes
      PROVE  (IF i <= WordBytes THEN first[i]
              ELSE IF i <= 2 * WordBytes THEN second[i - WordBytes] ELSE r[i]) \in Byte
      BY <1>3, BlockSize DEF BlockOf
<1> QED BY <1>4, <1>5 DEF BlockOf

\* Every byte is two hexadecimal digits.
LEMMA TwoDigits ==
    ASSUME NEW b \in Byte
    PROVE  (b \div HexDigit) * HexDigit + (b % HexDigit) = b
<1>1. ASSUME NEW d \in Nat, d > 0, NEW n \in Nat
      PROVE  (n \div d) * d + (n % d) = n
      BY <1>1
<1>2. \A m, n \in Nat \ {0} : m * n \in Nat /\ m * n > 0
      OBVIOUS
<1>3. HexDigit \in Nat /\ HexDigit > 0
      BY <1>2, SizeAssumption DEF HexDigit
<1>4. b \in Nat
      BY BaseIsPositive DEF Byte
<1> HIDE DEF HexDigit
<1> QED BY <1>1, <1>3, <1>4

\* What is written as hexadecimal digits and read again is the same bytes, with
\* nothing left behind them (enc.Hex.stringify and parse).
THEOREM HexRoundTrip ==
    ASSUME NEW w, w.sigBytes \in Nat, \A i \in 1 .. w.sigBytes : ByteAt(w.words, i) \in Byte
    PROVE  HexParse(HexStringify(w)) = clamp(w)
<1> DEFINE n == w.sigBytes
           s == HexStringify(w)
<1>1. Len(s) = 2 * n /\ DOMAIN s = 1 .. 2 * n
      BY DEF HexStringify
<1>2. Len(s) \div 2 = n
      BY <1>1
<1>3. ASSUME NEW i \in 1 .. n
      PROVE  s[2 * i - 1] * HexDigit + s[2 * i] = ByteAt(w.words, i)
  <2>1. 2 * i - 1 \in 1 .. 2 * n /\ 2 * i \in 1 .. 2 * n
        OBVIOUS
  <2>2. (2 * i - 1 + 1) \div 2 = i /\ (2 * i - 1) % 2 = 1 /\ (2 * i + 1) \div 2 = i /\ (2 * i) % 2 = 0
        OBVIOUS
  <2>3. s[2 * i - 1] = ByteAt(w.words, i) \div HexDigit
        BY <2>1, <2>2 DEF HexStringify
  <2>4. s[2 * i] = ByteAt(w.words, i) % HexDigit
        BY <2>1, <2>2 DEF HexStringify
  <2> QED BY <2>3, <2>4, TwoDigits
<1>4. HexParse(s) = Create([i \in 1 .. n |-> s[2 * i - 1] * HexDigit + s[2 * i]])
      BY <1>2 DEF HexParse
<1> HIDE DEF s
<1>5. HexParse(s) = Create([i \in 1 .. n |-> ByteAt(w.words, i)])
      BY <1>3, <1>4
<1> QED BY <1>5 DEF clamp, Bytes, s

\* what is encrypted with a key comes back
Undoes(key) == \A a \in BlockOf : encryptBlock(key, a) \in BlockOf /\ decryptBlock(key, encryptBlock(key, a)) = a

\* A block comes back with a key that undoes what it does.
LEMMA BlockUndone ==
    ASSUME NEW mode \in Modes, NEW key, Undoes(key), NEW r \in BlockOf, NEW b \in BlockOf
    PROVE  LET e == Encrypt(mode, key, r, b)
               d == Decrypt(mode, key, r, e.block)
           IN  /\ e.block \in BlockOf /\ e.state \in BlockOf
               /\ d.block = b /\ d.state = e.state
<1> DEFINE e == Encrypt(mode, key, r, b)
           d == Decrypt(mode, key, r, e.block)
<1> SUFFICES e.block \in BlockOf /\ e.state \in BlockOf /\ d.block = b /\ d.state = e.state
    OBVIOUS
<1>0. \A a \in BlockOf : encryptBlock(key, a) \in BlockOf /\ decryptBlock(key, encryptBlock(key, a)) = a
  BY DEF Undoes
<1>1. CASE mode = "ECB"
  <2>1. e = Step(r, encryptBlock(key, b)) /\ d = Step(r, decryptBlock(key, e.block))
        BY <1>1 DEF Encrypt, Decrypt, EcbEncrypt, EcbDecrypt
  <2> QED BY <2>1, <1>0 DEF Step
<1>2. CASE mode = "CBC"
  <2> DEFINE c == encryptBlock(key, xorBlock(b, r))
  <2>1. e = Step(c, c) /\ d = Step(e.block, xorBlock(decryptBlock(key, e.block), r))
        BY <1>2 DEF Encrypt, Decrypt, CbcEncrypt, CbcDecrypt
  <2>2. c \in BlockOf /\ decryptBlock(key, c) = xorBlock(b, r)
        BY XorTwice, <1>0
  <2>3. e.block = c /\ e.state = c /\ d.state = c /\ d.block = xorBlock(xorBlock(b, r), r)
        BY <2>1, <2>2 DEF Step
  <2> QED BY <2>2, <2>3, XorTwice
<1>3. CASE mode = "CFB"
  <2> DEFINE k == encryptBlock(key, r)
             c == xorBlock(b, k)
  <2>1. e = Step(c, c) /\ d = Step(e.block, xorBlock(e.block, k))
        BY <1>3 DEF Encrypt, Decrypt, CfbEncrypt, CfbDecrypt
  <2>2. k \in BlockOf /\ c \in BlockOf /\ xorBlock(c, k) = b
        BY XorTwice, <1>0
  <2> QED BY <2>1, <2>2 DEF Step
\* The others XOR with a keystream that does not depend on the block.
<1>4. ASSUME NEW s \in BlockOf, NEW k \in BlockOf,
             e = Step(s, xorBlock(b, k)), d = Step(s, xorBlock(e.block, k))
      PROVE  e.block \in BlockOf /\ e.state \in BlockOf /\ d.block = b /\ d.state = e.state
      BY <1>4, XorTwice DEF Step
<1>5. CASE mode = "OFB"
  <2> DEFINE k == encryptBlock(key, r)
  <2>1. e = Step(k, xorBlock(b, k)) /\ d = Step(k, xorBlock(e.block, k))
        BY <1>5 DEF Encrypt, Decrypt, OfbCrypt
  <2>2. k \in BlockOf
        BY <1>0
  <2> QED BY <2>1, <2>2, <1>4
<1>6. CASE mode = "CTR"
  <2> DEFINE k == encryptBlock(key, r)
  <2>1. e = Step(CtrNext(r), xorBlock(b, k)) /\ d = Step(CtrNext(r), xorBlock(e.block, k))
        BY <1>6 DEF Encrypt, Decrypt, CtrCrypt
  <2>2. k \in BlockOf /\ CtrNext(r) \in BlockOf
        BY <1>0, CtrIsBlock
  <2> QED BY <2>1, <2>2, <1>4
<1>7. CASE mode = "CTRGladman"
  <2> DEFINE n == incCounter(r)
             k == encryptBlock(key, n)
  <2>1. e = Step(n, xorBlock(b, k)) /\ d = Step(n, xorBlock(e.block, k))
        BY <1>7 DEF Encrypt, Decrypt, GladmanCrypt
  <2>2. k \in BlockOf /\ n \in BlockOf
        BY <1>0, GladmanIsBlock
  <2> QED BY <2>1, <2>2, <1>4
<1> QED BY <1>1, <1>2, <1>3, <1>5, <1>6, <1>7 DEF Modes

\* A block that was encrypted comes back when it is decrypted with the register
\* the encryptor had, and both registers are the same afterwards: a decryptor
\* that started with the iv of the encryptor stays in step with it, in every
\* mode (processBlock of the encryptors and decryptors).
THEOREM BlockRoundTrip ==
    ASSUME NEW mode \in Modes, NEW key \in Keys, NEW r \in BlockOf, NEW b \in BlockOf
    PROVE  LET e == Encrypt(mode, key, r, b)
               d == Decrypt(mode, key, r, e.block)
           IN  /\ e.block \in BlockOf /\ e.state \in BlockOf
               /\ d.block = b /\ d.state = e.state
<1>1. Undoes(key)
  BY CipherAssumption DEF Undoes
<1> QED BY <1>1, BlockUndone

-----------------------------------------------------------------------------
\* Sequences of bytes, runs of a hash, and what a hasher has absorbed.

\* the order of the numbers, as a relation
Less == {ss \in Nat \X Nat : ss[1] < ss[2]}

\* The numbers are well-founded: what induction rests on.
LEMMA LessIsWellFounded == IsWellFoundedOn(Less, Nat)
<1>1. OpToRel(<, Nat) = Less
  BY DEF OpToRel, Less
<1> QED  BY NatLessThanWellFounded DEF OpToRel, Less

\* Induction, of a set of numbers.
LEMMA SetInduction ==
    ASSUME NEW S, 0 \in S, \A n \in Nat : n \in S => n + 1 \in S
    PROVE  Nat \subseteq S
<1> DEFINE T == Nat \ S
<1> SUFFICES ASSUME T # {} PROVE FALSE
  OBVIOUS
<1>3. PICK x \in T : \A y \in T : ~(<<y, x>> \in Less)
  <2> HIDE DEF T
  <2>1. T \subseteq Nat BY DEF T
  <2> QED BY <2>1, LessIsWellFounded, WFMin
<1>4. x # 0 /\ x \in Nat
  OBVIOUS
<1>5. x - 1 \in T
  <2>1. (x - 1) + 1 = x /\ x - 1 \in Nat
    BY <1>4
  <2> QED BY <2>1
<1>6. <<x - 1, x>> \in Less
  BY <1>4 DEF Less
<1> QED BY <1>3, <1>5, <1>6

\* the states before and after each of n blocks
Run(f, n, h, bs) == f = [k \in 0 .. n |-> IF k = 0 THEN h ELSE compress(f[k - 1], bs[k])]

\* Two runs over the same blocks agree.
LEMMA RunsAgree ==
    ASSUME NEW f, NEW g, NEW m \in Nat, NEW n \in Nat, NEW h, NEW bs, NEW cs, NEW l \in Nat, l <= m, l <= n,
           Run(f, m, h, bs), Run(g, n, h, cs), \A k \in 1 .. l : bs[k] = cs[k]
    PROVE  \A k \in 0 .. l : f[k] = g[k]
<1> DEFINE S == {k \in Nat : k <= l => f[k] = g[k]}
<1>1. 0 \in S
  BY DEF Run
<1>2. ASSUME NEW k \in Nat, k \in S PROVE k + 1 \in S
  <2> SUFFICES ASSUME k + 1 <= l PROVE f[k + 1] = g[k + 1]
    OBVIOUS
  <2>1. f[k] = g[k] /\ bs[k + 1] = cs[k + 1]
    BY <1>2
  <2>2. k + 1 \in 0 .. m /\ k + 1 # 0 /\ (k + 1) - 1 = k /\ k + 1 \in 0 .. n
    OBVIOUS
  <2>3. f[k + 1] = compress(f[k], bs[k + 1])
    BY <2>2 DEF Run
  <2>4. g[k + 1] = compress(g[k], cs[k + 1])
    BY <2>2 DEF Run
  <2> QED BY <2>1, <2>3, <2>4
<1>3. Nat \subseteq S
  <2> HIDE DEF S
  <2> QED BY <1>1, <1>2, SetInduction
<1> QED BY <1>3

\* There is a run over any blocks.
LEMMA RunExists ==
    ASSUME NEW h, NEW bs, NEW n \in Nat
    PROVE  \E f : Run(f, n, h, bs)
<1> DEFINE S == {k \in Nat : \E f : Run(f, k, h, bs)}
<1>1. 0 \in S
  <2>1. Run([k \in 0 .. 0 |-> h], 0, h, bs)
    BY DEF Run
  <2> QED BY <2>1
<1>2. ASSUME NEW k \in Nat, k \in S PROVE k + 1 \in S
  <2>1. PICK f : Run(f, k, h, bs)
    BY <1>2
  <2> DEFINE g == [j \in 0 .. k + 1 |-> IF j = k + 1 THEN compress(f[k], bs[k + 1]) ELSE f[j]]
  <2>2. ASSUME NEW j \in 0 .. k + 1
        PROVE  g[j] = IF j = 0 THEN h ELSE compress(g[j - 1], bs[j])
    <3>1. CASE j = 0
      BY <2>1, <3>1 DEF Run
    <3>2. CASE j = k + 1
      <4>1. j - 1 = k /\ k \in 0 .. k + 1 /\ k # k + 1 /\ g[k] = f[k]
        BY <3>2
      <4> QED BY <3>2, <4>1
    <3>3. CASE j # 0 /\ j # k + 1
      <4>1. j \in 0 .. k /\ j - 1 \in 0 .. k /\ j - 1 # k + 1
        BY <3>3
      <4>2. f[j] = compress(f[j - 1], bs[j])
        BY <2>1, <3>3, <4>1 DEF Run
      <4> QED BY <3>3, <4>1, <4>2
    <3> QED BY <3>1, <3>2, <3>3
  <2>3. Run(g, k + 1, h, bs)
    BY <2>2 DEF Run
  <2> QED BY <2>3
<1>3. Nat \subseteq S
  <2> HIDE DEF S
  <2> QED BY <1>1, <1>2, SetInduction
<1> QED BY <1>3

\* compressAll is the end of every such run.
LEMMA CompressAll ==
    ASSUME NEW h, NEW bs, Len(bs) \in Nat, NEW cs, NEW n \in Nat, Len(bs) <= n, NEW f, Run(f, n, h, cs),
           \A k \in 1 .. Len(bs) : bs[k] = cs[k]
    PROVE  compressAll(h, bs) = f[Len(bs)]
<1> DEFINE after == CHOOSE a : Run(a, Len(bs), h, bs)
<1>1. Run(after, Len(bs), h, bs)
  BY RunExists
<1>2. compressAll(h, bs) = after[Len(bs)]
  BY DEF compressAll, Run
<1> HIDE DEF after
<1>3. after[Len(bs)] = f[Len(bs)]
  BY <1>1, RunsAgree
<1> QED BY <1>2, <1>3

\* Multiplying: it distributes, and it is monotone.
LEMMA Times ==
    ASSUME NEW a \in Nat, NEW b \in Nat, NEW d \in Nat
    PROVE  /\ a * d \in Nat /\ (a + b) * d = a * d + b * d
           /\ a <= b => a * d <= b * d
<1>1. a * d \in Nat /\ b * d \in Nat /\ (a + b) * d = a * d + b * d
  OBVIOUS
<1>2. ASSUME a <= b PROVE a * d <= b * d
  <2>1. PICK c \in Nat : b = a + c
    <3>1. b - a \in Nat /\ b = a + (b - a)
      BY <1>2
    <3> QED BY <3>1
  <2>2. c * d \in Nat /\ (a + c) * d = a * d + c * d
    OBVIOUS
  <2> QED BY <2>1, <2>2, <1>1
<1> QED BY <1>1, <1>2

\* A number is the quotient times the divisor and a rest.
LEMMA DivMod ==
    ASSUME NEW n \in Nat, NEW d \in Nat, d > 0
    PROVE  /\ n \div d \in Nat /\ n % d \in 0 .. d - 1
           /\ (n \div d) * d + (n % d) = n
  OBVIOUS

\* The quotient and the rest are the only ones.
LEMMA DivIs ==
    ASSUME NEW q \in Nat, NEW r \in Nat, NEW d \in Nat, r < d
    PROVE  (q * d + r) \div d = q /\ (q * d + r) % d = r
<1> DEFINE n == q * d + r
           p == n \div d
           m == n % d
<1>1. n \in Nat /\ q * d \in Nat
  BY Times
<1>2. p \in Nat /\ m \in 0 .. d - 1 /\ p * d + m = n
  BY <1>1, DivMod
<1> HIDE DEF p, m
<1>3. ASSUME p < q PROVE FALSE
  <2>1. p + 1 <= q /\ p + 1 \in Nat
    BY <1>2, <1>3
  <2>2. (p + 1) * d <= q * d /\ (p + 1) * d = p * d + d /\ p * d \in Nat
    BY <2>1, <1>2, Times
  <2> QED BY <2>2, <1>1, <1>2
<1>4. ASSUME q < p PROVE FALSE
  <2>1. q + 1 <= p /\ q + 1 \in Nat
    BY <1>2, <1>4
  <2>2. (q + 1) * d <= p * d /\ (q + 1) * d = q * d + d /\ p * d \in Nat
    BY <2>1, <1>2, Times
  <2> QED BY <2>2, <1>1, <1>2
<1>5. p = q
  BY <1>2, <1>3, <1>4
<1>6. p = q /\ m = r
  BY <1>1, <1>2, <1>5
<1> QED BY <1>6 DEF p, m

\* A hash block is three words, the count takes two.
LEMMA Sizes3 == /\ WordBytes \in Nat \ {0} /\ HashBytes \in Nat \ {0} /\ LenBytes \in Nat
                /\ HashBytes = 3 * WordBytes /\ LenBytes = 2 * WordBytes
  BY SizeAssumption DEF HashBytes, LenBytes

-----------------------------------------------------------------------------
\* n blocks of s, from the q-th on
Blocks(s, q, n) == [k \in 1 .. n |-> Block(s, q + k - 1, HashBytes)]

\* As many blocks as were asked for.
LEMMA BlocksLen == ASSUME NEW s, NEW q \in Nat, NEW n \in Nat PROVE Len(Blocks(s, q, n)) = n
  BY DEF Blocks

\* Going on with the next blocks is compressing all of them at once.
LEMMA ChainOn ==
    ASSUME NEW h, NEW s, NEW q \in Nat, NEW n \in Nat
    PROVE  compressAll(compressAll(h, Blocks(s, 0, q)), Blocks(s, q, n)) = compressAll(h, Blocks(s, 0, q + n))
<1>1. PICK f : Run(f, q + n, h, Blocks(s, 0, q + n))
  BY RunExists
<1>2. compressAll(h, Blocks(s, 0, q + n)) = f[q + n]
  BY <1>1, BlocksLen, CompressAll
<1>3. compressAll(h, Blocks(s, 0, q)) = f[q]
  <2>1. \A k \in 1 .. q : Blocks(s, 0, q)[k] = Blocks(s, 0, q + n)[k]
    BY DEF Blocks
  <2> QED BY <2>1, <1>1, BlocksLen, CompressAll
<1> DEFINE g == [k \in 0 .. n |-> f[q + k]]
<1>4. Run(g, n, f[q], Blocks(s, q, n))
  <2>1. ASSUME NEW k \in 0 .. n
        PROVE  g[k] = IF k = 0 THEN f[q] ELSE compress(g[k - 1], Blocks(s, q, n)[k])
    <3>1. CASE k = 0
      BY <3>1
    <3>2. CASE k # 0
      <4>1. q + k \in 0 .. q + n /\ q + k # 0 /\ k - 1 \in 0 .. n /\ q + k - 1 = q + (k - 1)
        BY <3>2
      <4>2. f[q + k] = compress(f[q + k - 1], Blocks(s, 0, q + n)[q + k])
        BY <1>1, <4>1 DEF Run
      <4>3. /\ Blocks(s, 0, q + n)[q + k] = Block(s, q + k - 1, HashBytes)
            /\ Blocks(s, q, n)[k] = Block(s, q + k - 1, HashBytes)
        BY <3>2, <4>1 DEF Blocks
      <4> QED BY <3>2, <4>1, <4>2, <4>3
    <3> QED BY <3>1, <3>2
  <2> QED BY <2>1 DEF Run
<1> HIDE DEF g
<1>5. compressAll(f[q], Blocks(s, q, n)) = g[n]
  BY <1>4, BlocksLen, CompressAll
<1>6. g[n] = f[q + n]
  BY DEF g
<1> QED BY <1>2, <1>3, <1>5, <1>6

\* Blocks with the same bytes, wherever they lie, are the same blocks.
LEMMA SameBlocks ==
    ASSUME NEW s, NEW t, NEW q \in Nat, NEW r \in Nat, NEW n \in Nat,
           \A i \in 1 .. n * HashBytes : ByteAt(s, q * HashBytes + i) = ByteAt(t, r * HashBytes + i)
    PROVE  Blocks(s, q, n) = Blocks(t, r, n)
<1>1. ASSUME NEW k \in 1 .. n, NEW i \in 1 .. HashBytes
      PROVE  ByteAt(s, (q + k - 1) * HashBytes + i) = ByteAt(t, (r + k - 1) * HashBytes + i)
  <2> DEFINE j == (k - 1) * HashBytes + i
  <2>1. /\ k - 1 \in Nat /\ q + k - 1 = q + (k - 1)
        /\ r + k - 1 = r + (k - 1) /\ k = (k - 1) + 1 /\ k \in Nat /\ k <= n
    OBVIOUS
  <2>2. /\ (k - 1) * HashBytes \in Nat /\ k * HashBytes = (k - 1) * HashBytes + HashBytes
        /\ k * HashBytes <= n * HashBytes
        /\ n * HashBytes \in Nat
    BY <2>1, Sizes3, Times
  <2>3. j \in 1 .. n * HashBytes
    BY <2>2, Sizes3
  <2>4. (q + k - 1) * HashBytes = q * HashBytes + (k - 1) * HashBytes
    BY <2>1, Sizes3, Times
  <2>5. (r + k - 1) * HashBytes = r * HashBytes + (k - 1) * HashBytes
    BY <2>1, Sizes3, Times
  <2>6. (q + k - 1) * HashBytes + i = q * HashBytes + j /\ (r + k - 1) * HashBytes + i = r * HashBytes + j
    BY <2>2, <2>4, <2>5, Times, Sizes3
  <2> HIDE DEF j
  <2> QED BY <2>3, <2>6
<1>2. \A k \in 1 .. n : Block(s, q + k - 1, HashBytes) = Block(t, r + k - 1, HashBytes)
  BY <1>1 DEF Block
<1> QED BY <1>2 DEF Blocks

-----------------------------------------------------------------------------
\* The word array w holds the bytes p and nothing behind them.
Rep(w, p) == /\ w.sigBytes = Len(p) /\ w.words \in Seq(Byte) /\ Len(p) <= Len(w.words)
             /\ \A i \in Nat \ {0} : ByteAt(w.words, i) = ByteAt(p, i)

\* Zero is a byte.
LEMMA ByteZero == 0 \in Byte
  BY BaseIsPositive DEF Byte

\* Zeros are bytes, and as many as were asked for.
LEMMA ZerosSeq == ASSUME NEW n \in Nat PROVE Zeros(n) \in Seq(Byte) /\ Len(Zeros(n)) = n
  BY ByteZero DEF Zeros

\* Rounding up to whole words adds, and leaves whole words alone.
LEMMA UpFacts == ASSUME NEW n \in Nat
                 PROVE  Up(n) - n \in Nat /\ (n % WordBytes = 0 => Up(n) = n)
<1> DEFINE m == n + WordBytes - 1
           q == m \div WordBytes
<1>1. m \in Nat /\ WordBytes \in Nat /\ WordBytes > 0 /\ Up(n) = q * WordBytes
  BY Sizes3 DEF Up
<1>2. q \in Nat /\ m % WordBytes \in 0 .. WordBytes - 1 /\ q * WordBytes + (m % WordBytes) = m
  BY <1>1, DivMod
<1>3. q * WordBytes \in Nat
  BY <1>1, <1>2, Times
<1>4. Up(n) - n \in Nat
  BY <1>1, <1>2, <1>3
<1>5. ASSUME n % WordBytes = 0 PROVE Up(n) = n
  <2> DEFINE d == n \div WordBytes
  <2>1. d \in Nat /\ d * WordBytes + (n % WordBytes) = n
    BY <1>1, DivMod
  <2>2. d * WordBytes = n
    BY <2>1, <1>5, <1>1, Times
  <2> HIDE DEF d
  <2>3. m = d * WordBytes + (WordBytes - 1) /\ WordBytes - 1 \in Nat /\ WordBytes - 1 < WordBytes
    BY <2>1, <2>2, <1>1
  <2>4. m \div WordBytes = d
    BY <2>1, <2>3, <1>1, DivIs
  <2> QED BY <2>2, <2>4, <1>1
<1> QED BY <1>4, <1>5

\* What stands where in two sequences, one after the other.
LEMMA ByteOfTwo ==
    ASSUME NEW p \in Seq(Byte), NEW t \in Seq(Byte), NEW i \in Nat \ {0}
    PROVE  /\ i <= Len(p) => ByteAt(p \o t, i) = ByteAt(p, i)
           /\ i > Len(p) => ByteAt(p \o t, i) = ByteAt(t, i - Len(p)) /\ ByteAt(p, i) = 0
<1>1. p \o t \in Seq(Byte) /\ Len(p \o t) = Len(p) + Len(t) /\ Len(p) \in Nat /\ Len(t) \in Nat
  OBVIOUS
<1>2. DOMAIN (p \o t) = 1 .. Len(p) + Len(t) /\ DOMAIN p = 1 .. Len(p) /\ DOMAIN t = 1 .. Len(t)
  BY <1>1
<1>3. ASSUME i <= Len(p) PROVE ByteAt(p \o t, i) = ByteAt(p, i)
  <2>1. i \in 1 .. Len(p) /\ i \in 1 .. Len(p) + Len(t)
    BY <1>1, <1>3
  <2>2. (p \o t)[i] = p[i]
    BY <2>1
  <2> QED BY <2>1, <2>2, <1>2 DEF ByteAt
<1>4. ASSUME i > Len(p) PROVE ByteAt(p \o t, i) = ByteAt(t, i - Len(p)) /\ ByteAt(p, i) = 0
  <2>1. i \notin 1 .. Len(p) /\ i - Len(p) \in Nat /\ i - Len(p) > 0
    BY <1>1, <1>4
  <2>2. CASE i <= Len(p) + Len(t)
    <3>1. i \in 1 .. Len(p) + Len(t) /\ i - Len(p) \in 1 .. Len(t)
      BY <2>1, <2>2, <1>1
    <3>2. (p \o t)[i] = t[i - Len(p)]
      BY <3>1, <1>1, <1>4
    <3> QED BY <2>1, <3>1, <3>2, <1>2 DEF ByteAt
  <2>3. CASE ~(i <= Len(p) + Len(t))
    <3>1. i \notin 1 .. Len(p) + Len(t) /\ i - Len(p) \notin 1 .. Len(t)
      BY <2>1, <2>3, <1>1
    <3> QED BY <2>1, <3>1, <1>2 DEF ByteAt
  <2> QED BY <2>2, <2>3
<1> QED BY <1>3, <1>4

\* What is read of a sequence of bytes, or behind it, is a byte.
LEMMA ByteInByte == ASSUME NEW p \in Seq(Byte), NEW i PROVE ByteAt(p, i) \in Byte
  BY ByteZero DEF ByteAt

\* Zeros read as zero, also behind them.
LEMMA ByteOfZeros == ASSUME NEW n \in Nat, NEW i PROVE ByteAt(Zeros(n), i) = 0
  BY DEF ByteAt, Zeros

\* Bytes put into words are those bytes.
LEMMA CreateRep == ASSUME NEW p \in Seq(Byte) PROVE Rep(Create(p), p)
<1> DEFINE z == Zeros(Up(Len(p)) - Len(p))
<1>1. z \in Seq(Byte) /\ Len(p) \in Nat
  BY UpFacts, ZerosSeq
<1>2. \A i : ByteAt(z, i) = 0
  BY UpFacts, ByteOfZeros
<1> HIDE DEF z
<1>3. p \o z \in Seq(Byte)
  BY <1>1
<1>4. \A i \in Nat \ {0} : ByteAt(p \o z, i) = ByteAt(p, i)
  BY <1>1, <1>2, ByteOfTwo
<1>5. Create(p) = [words |-> p \o z, sigBytes |-> Len(p)]
  BY DEF Create, z
<1> QED BY <1>1, <1>3, <1>4, <1>5 DEF Rep

\* The bytes of a word array that represents p are p.
LEMMA RepBytes == ASSUME NEW w, NEW p \in Seq(Byte), Rep(w, p) PROVE Bytes(w) = p
<1>1. \A i \in 1 .. Len(p) : ByteAt(w.words, i) = p[i]
  BY DEF Rep, ByteAt
<1>2. Bytes(w) = [i \in 1 .. Len(p) |-> p[i]]
  BY <1>1 DEF Bytes, Rep
<1> QED BY <1>2

\* Sequences that read the same give concatenations that read the same.
LEMMA SameRep ==
    ASSUME NEW s \in Seq(Byte), NEW t \in Seq(Byte), NEW p \in Seq(Byte), NEW u \in Seq(Byte),
           Len(t) = Len(s),
           \A i \in Nat \ {0} : ByteAt(t, i) = ByteAt(s, i),
           \A i \in Nat \ {0} : ByteAt(u, i) = ByteAt(p, i),
           NEW i \in Nat \ {0}
    PROVE  ByteAt(t \o u, i) = ByteAt(s \o p, i)
<1>1. Len(s) \in Nat
  OBVIOUS
<1>2. CASE i <= Len(s)
  BY <1>2, ByteOfTwo
<1>3. CASE i > Len(s)
  <2>1. i - Len(s) \in Nat \ {0}
    BY <1>1, <1>3
  <2> QED BY <1>3, <2>1, ByteOfTwo
<1> QED BY <1>1, <1>2, <1>3

\* concat of what holds two sequences holds both, one after the other.
LEMMA ConcatRep ==
    ASSUME NEW a, NEW b, NEW s \in Seq(Byte), NEW p \in Seq(Byte), Rep(a, s), Rep(b, p)
    PROVE  Rep(concat(a, b), s \o p)
<1>1. Bytes(a) = s /\ Bytes(b) = p /\ Len(s) \in Nat /\ Len(p) \in Nat
  BY RepBytes
<1>2. CASE a.sigBytes % WordBytes = 0
  <2>1. Up(Len(s)) - Len(s) = 0
    BY <1>2, UpFacts, <1>1 DEF Rep
  <2>2. Zeros(0) = << >>
    BY DEF Zeros
  <2>3. s \o << >> = s
    OBVIOUS
  <2>4. clamp(a).words = s
    BY <1>1, <2>1, <2>2, <2>3 DEF clamp, Create
  <2>5. concat(a, b) = [words |-> s \o b.words, sigBytes |-> Len(s) + Len(p)]
    BY <1>2, <2>4 DEF concat, Rep
  <2>6. s \o b.words \in Seq(Byte) /\ Len(s \o p) = Len(s) + Len(p)
    BY DEF Rep
  <2>7. \A i \in Nat \ {0} : ByteAt(s \o b.words, i) = ByteAt(s \o p, i)
    BY SameRep DEF Rep
  <2> QED BY <2>5, <2>6, <2>7 DEF Rep
<1>3. CASE a.sigBytes % WordBytes # 0
  <2>1. concat(a, b) = Create(s \o p) /\ s \o p \in Seq(Byte)
    BY <1>1, <1>3 DEF concat
  <2> QED BY <2>1, CreateRep
<1> QED BY <1>2, <1>3

\* What is left behind the first m bytes reads like the sequence from there on.
LEMMA FromByte ==
    ASSUME NEW w \in Seq(Byte), NEW m \in Nat, m <= Len(w)
    PROVE  LET t == SubSeq(w, m + 1, Len(w))
           IN  /\ t \in Seq(Byte) /\ Len(t) = Len(w) - m
               /\ \A i \in Nat \ {0} : ByteAt(t, i) = ByteAt(w, m + i)
<1> DEFINE t == SubSeq(w, m + 1, Len(w))
<1>1. Len(w) \in Nat /\ DOMAIN w = 1 .. Len(w) /\ m + 1 \in Int /\ \A i \in m + 1 .. Len(w) : w[i] \in Byte
  OBVIOUS
<1>2. t \in Seq(Byte) /\ Len(t) = Len(w) - m
  <2>1. t \in Seq(Byte) /\ Len(t) = IF m + 1 <= Len(w) THEN Len(w) - (m + 1) + 1 ELSE 0
    BY <1>1, SubSeqProperties
  <2> DEFINE l == Len(w)
             k == Len(t)
  <2>2. k = (IF m + 1 <= l THEN l - (m + 1) + 1 ELSE 0) /\ l \in Nat /\ m <= l
    BY <1>1, <2>1
  <2> HIDE DEF t, l, k
  <2>3. k = l - m
    BY <2>2
  <2> QED BY <2>1, <2>3 DEF k, l
<1>3. \A i \in 1 .. Len(w) - m : t[i] = w[m + i]
  <2>1. \A i \in 1 .. Len(w) - (m + 1) + 1 : t[i] = w[(m + 1) + i - 1]
    BY <1>1, SubSeqProperties
  <2>2. Len(w) - (m + 1) + 1 = Len(w) - m /\ \A i \in 1 .. Len(w) - m : (m + 1) + i - 1 = m + i
    BY <1>1
  <2> HIDE DEF t
  <2> QED BY <2>1, <2>2
<1> HIDE DEF t
<1>4. DOMAIN t = 1 .. Len(w) - m
  BY <1>2
<1>5. ASSUME NEW i \in Nat \ {0} PROVE ByteAt(t, i) = ByteAt(w, m + i)
  <2>1. i \in 1 .. Len(w) - m <=> m + i \in 1 .. Len(w)
    BY <1>1
  <2> QED BY <1>1, <1>3, <1>4, <2>1 DEF ByteAt
<1> QED BY <1>2, <1>5 DEF t

\* The word array w holds what s has behind its first m bytes, and nothing else.
Holds(w, s, m) ==
    /\ m \in Nat /\ m <= Len(s) /\ w.sigBytes = Len(s) - m
    /\ w.words \in Seq(Byte) /\ w.sigBytes <= Len(w.words)
    /\ \A i \in Nat \ {0} : ByteAt(w.words, i) = ByteAt(s, m + i)

\* A word array with the whole message holds it from the beginning.
LEMMA RepHolds == ASSUME NEW w, NEW s \in Seq(Byte), Rep(w, s) PROVE Holds(w, s, 0)
<1>1. \A i \in Nat \ {0} : 0 + i = i
  OBVIOUS
<1> QED BY <1>1 DEF Rep, Holds

\* With more data behind it, it holds the same bytes and those.
LEMMA ConcatHolds ==
    ASSUME NEW a, NEW b, NEW s \in Seq(Byte), NEW p \in Seq(Byte), NEW m, Holds(a, s, m), Rep(b, p)
    PROVE  Holds(concat(a, b), s \o p, m)
<1> DEFINE t == SubSeq(s, m + 1, Len(s))
<1>1. m \in Nat /\ m <= Len(s) /\ Len(s) \in Nat /\ Len(p) \in Nat
  BY DEF Holds
<1>2. t \in Seq(Byte) /\ Len(t) = Len(s) - m /\ \A i \in Nat \ {0} : ByteAt(t, i) = ByteAt(s, m + i)
  BY <1>1, FromByte
<1> HIDE DEF t
<1>3. Rep(a, t)
  BY <1>1, <1>2 DEF Holds, Rep
<1>4. Rep(concat(a, b), t \o p)
  BY <1>2, <1>3, ConcatRep
<1>5. Len(t \o p) = Len(s \o p) - m /\ Len(s \o p) = Len(s) + Len(p)
  <2>1. Len(t \o p) = Len(t) + Len(p) /\ Len(s \o p) = Len(s) + Len(p)
    BY <1>2
  <2> QED BY <1>1, <1>2, <2>1
<1>6. ASSUME NEW i \in Nat \ {0} PROVE ByteAt(t \o p, i) = ByteAt(s \o p, m + i)
  <2>1. m + i \in Nat \ {0} /\ (i <= Len(t) <=> m + i <= Len(s)) /\ (m + i) - Len(s) = i - Len(t)
        /\ (i > Len(t) <=> m + i > Len(s)) /\ (i <= Len(t) \/ i > Len(t))
    BY <1>1, <1>2
  <2>2. CASE i <= Len(t)
    BY <1>2, <2>1, <2>2, ByteOfTwo
  <2>3. CASE i > Len(t)
    BY <1>2, <2>1, <2>3, ByteOfTwo
  <2> QED BY <2>1, <2>2, <2>3
<1> QED BY <1>1, <1>4, <1>5, <1>6 DEF Rep, Holds

\* _process takes the next whole blocks and leaves what follows them.
LEMMA TakenHolds ==
    ASSUME NEW d, NEW s \in Seq(Byte), NEW q \in Nat, Holds(d, s, q * HashBytes)
    PROVE  LET n == d.sigBytes \div HashBytes
               t == Taken(d, HashBytes, 0, FALSE)
           IN  /\ n \in Nat /\ t.blocks = Blocks(s, q, n)
               /\ Holds(t.rest, s, (q + n) * HashBytes) /\ t.rest.sigBytes < HashBytes
               /\ Len(s) \div HashBytes = q + n
<1> DEFINE n == d.sigBytes \div HashBytes
           t == Taken(d, HashBytes, 0, FALSE)
           m == q * HashBytes
           l == n * HashBytes
           r == d.sigBytes % HashBytes
<1>1. d.sigBytes \in Nat /\ HashBytes \in Nat /\ HashBytes > 0 /\ m \in Nat /\ Len(s) \in Nat
      /\ d.sigBytes = Len(s) - m /\ Len(d.words) \in Nat /\ d.sigBytes <= Len(d.words)
  <2>1. HashBytes \in Nat /\ HashBytes > 0 /\ m \in Nat /\ Len(s) \in Nat
    BY Sizes3, Times
  <2>2. m <= Len(s) /\ d.sigBytes = Len(s) - m /\ d.words \in Seq(Byte) /\ d.sigBytes <= Len(d.words)
    BY DEF Holds
  <2> HIDE DEF m
  <2> QED BY <2>1, <2>2
<1>2. n \in Nat /\ r \in 0 .. HashBytes - 1 /\ l + r = d.sigBytes
  BY <1>1, DivMod
<1>3. l \in Nat /\ (q + n) * HashBytes = m + l
  BY <1>1, <1>2, Times
<1>4. t = [blocks |-> [k \in 1 .. n |-> Block(d.words, k - 1, HashBytes)], sigBytes |-> l,
           rest |-> [words |-> SubSeq(d.words, l + 1, Len(d.words)), sigBytes |-> d.sigBytes - l]]
  <2> HIDE DEF n
  <2>1. BlocksReady(d, HashBytes, 0, FALSE) = n
    BY <1>2 DEF BlocksReady, n
  <2>2. Least(l, d.sigBytes) = l
    BY <1>1, <1>2, <1>3 DEF Least
  <2> QED BY <2>1, <2>2 DEF Taken
<1> HIDE DEF n, t, m, l, r
<1>5. t.blocks = Blocks(s, q, n)
  <2>1. \A i \in 1 .. n * HashBytes : ByteAt(d.words, 0 * HashBytes + i) = ByteAt(s, q * HashBytes + i)
    BY <1>1 DEF Holds
  <2>2. Blocks(d.words, 0, n) = Blocks(s, q, n)
    BY <1>2, <2>1, SameBlocks
  <2>3. \A k \in 1 .. n : 0 + k - 1 = k - 1
    BY <1>2
  <2> QED BY <1>4, <2>2, <2>3 DEF Blocks
<1>6. Holds(t.rest, s, m + l)
  <2> DEFINE u == SubSeq(d.words, l + 1, Len(d.words))
  <2>1. l <= Len(d.words) /\ d.words \in Seq(Byte)
    <3>1. d.words \in Seq(Byte)
      BY DEF Holds
    <3> QED BY <3>1, <1>1, <1>2, <1>3
  <2>2. /\ u \in Seq(Byte) /\ Len(u) = Len(d.words) - l
        /\ \A i \in Nat \ {0} : ByteAt(u, i) = ByteAt(d.words, l + i)
    BY <2>1, <1>3, FromByte
  <2>3. \A i \in Nat \ {0} : l + i \in Nat \ {0} /\ m + (l + i) = (m + l) + i
    BY <1>1, <1>3
  <2>4. \A i \in Nat \ {0} : ByteAt(u, i) = ByteAt(s, (m + l) + i)
    BY <2>2, <2>3 DEF Holds, m
  <2>5. t.rest.words = u /\ t.rest.sigBytes = d.sigBytes - l
    BY <1>4
  <2> HIDE DEF u
  <2>6. /\ m + l \in Nat /\ m + l <= Len(s)
        /\ d.sigBytes - l = Len(s) - (m + l) /\ d.sigBytes - l <= Len(d.words) - l
    BY <1>1, <1>2, <1>3
  <2> QED BY <2>2, <2>4, <2>5, <2>6 DEF Holds
<1>7. t.rest.sigBytes < HashBytes
  BY <1>1, <1>2, <1>3, <1>4
<1>8. Len(s) \div HashBytes = q + n
  <2>1. Len(s) = (q + n) * HashBytes + r /\ r \in Nat /\ r < HashBytes /\ q + n \in Nat
    BY <1>1, <1>2, <1>3
  <2> QED BY <1>1, <2>1, DivIs
<1>9. Holds(t.rest, s, (q + n) * HashBytes)
  BY <1>3, <1>6
<1> QED BY <1>2, <1>5, <1>7, <1>8, <1>9 DEF n, t

\* o has the three fields of a hasher
Hasher(o) == o \in [data : {o.data}, n : {o.n}, hash : {o.hash}]

\* What a hasher is when it has taken the bytes s.
Absorbed(o, s) ==
    LET q == Len(s) \div HashBytes
    IN  /\ Hasher(o) /\ o.n = Len(s)
        /\ Holds(o.data, s, q * HashBytes) /\ o.data.sigBytes < HashBytes
        /\ o.hash = compressAll(Start, Blocks(s, 0, q))

\* A new hasher has absorbed nothing.
LEMMA NewAbsorbed == Absorbed(NewHash, << >>)
<1>1. Len(<< >>) = 0 /\ << >> \in Seq(Byte) /\ HashBytes \in Nat /\ HashBytes > 0
  BY Sizes3
<1>2. 0 \div HashBytes = 0 /\ 0 * HashBytes = 0
  <2>1. 0 * HashBytes + 0 = 0 /\ 0 * HashBytes = 0
    BY <1>1
  <2> QED BY <1>1, <2>1, DivIs
<1>3. Holds(Create(<< >>), << >>, 0)
  BY <1>1, CreateRep, RepHolds
<1>4. compressAll(Start, Blocks(<< >>, 0, 0)) = Start
  <2>1. PICK f : Run(f, 0, Start, Blocks(<< >>, 0, 0))
    BY RunExists
  <2>2. compressAll(Start, Blocks(<< >>, 0, 0)) = f[0]
    BY <2>1, BlocksLen, CompressAll
  <2> QED BY <2>1, <2>2 DEF Run
<1>5. Hasher(NewHash) /\ NewHash.data = Create(<< >>) /\ NewHash.n = 0 /\ NewHash.hash = Start
  <2> DEFINE c == Create(<< >>)
  <2> HIDE DEF c
  <2> QED BY DEF NewHash, Hasher, c
<1>6. NewHash.data.sigBytes < HashBytes
  BY <1>1, <1>3, <1>5 DEF Holds
<1> QED BY <1>1, <1>2, <1>3, <1>4, <1>5, <1>6 DEF Absorbed

\* update: a hasher that has taken s has taken s and p afterwards.
LEMMA UpdateAbsorbs ==
    ASSUME NEW o, NEW w, NEW s \in Seq(Byte), NEW p \in Seq(Byte), Absorbed(o, s), Rep(w, p)
    PROVE  Absorbed(update(o, w), s \o p)
<1> DEFINE q == Len(s) \div HashBytes
           a == append(o, w)
           t == Taken(a.data, HashBytes, 0, FALSE)
           n == a.data.sigBytes \div HashBytes
           S == s \o p
<1>1. S \in Seq(Byte) /\ Len(S) = Len(s) + Len(p) /\ Len(s) \in Nat /\ q \in Nat
  <2>1. HashBytes \in Nat /\ HashBytes > 0 /\ Len(s) \in Nat
    BY Sizes3
  <2>2. q \in Nat
    BY <2>1, DivMod
  <2> QED BY <2>1, <2>2
<1>2. /\ Hasher(o) /\ o.n = Len(s)
      /\ Holds(o.data, s, q * HashBytes) /\ o.hash = compressAll(Start, Blocks(s, 0, q))
  BY DEF Absorbed
<1>3. Hasher(a) /\ a.data = concat(o.data, w) /\ a.n = Len(S) /\ a.hash = o.hash
  <2>1. o.n + w.sigBytes = Len(S)
    BY <1>1, <1>2 DEF Rep
  <2> DEFINE e == concat(o.data, w)
             m == o.n + w.sigBytes
  <2>2. a = [o EXCEPT !.data = e, !.n = m]
    BY DEF append
  <2> HIDE DEF S, a, e, m
  <2>3. Hasher(a) /\ a.data = e /\ a.n = m /\ a.hash = o.hash
    <3>1. Hasher(o)
      BY <1>2
    <3> QED BY ONLY <2>2, <3>1 DEF Hasher
  <2> QED BY <2>1, <2>3 DEF e, m
<1> HIDE DEF q, a
<1>4. Holds(a.data, S, q * HashBytes)
  BY <1>2, <1>3, ConcatHolds
<1> HIDE DEF S
<1>5. /\ n \in Nat /\ t.blocks = Blocks(S, q, n) /\ Holds(t.rest, S, (q + n) * HashBytes)
      /\ t.rest.sigBytes < HashBytes /\ Len(S) \div HashBytes = q + n
  BY <1>1, <1>4, TakenHolds
<1> HIDE DEF n, t
<1> DEFINE u == update(o, w)
<1>6. Hasher(u) /\ u.data = t.rest /\ u.n = Len(S) /\ u.hash = compressAll(o.hash, t.blocks)
  <2>1. u = [a EXCEPT !.data = t.rest, !.hash = compressAll(a.hash, t.blocks)]
    BY DEF update, a, t
  <2> DEFINE e == t.rest
             m == compressAll(a.hash, t.blocks)
  <2>2. u = [a EXCEPT !.data = e, !.hash = m]
    BY <2>1
  <2> HIDE DEF u, e, m
  <2>3. Hasher(u) /\ u.data = e /\ u.n = a.n /\ u.hash = m
    <3>1. Hasher(a)
      BY <1>3
    <3> QED BY ONLY <2>2, <3>1 DEF Hasher
  <2> QED BY <2>3, <1>3 DEF e, m
<1> HIDE DEF u
<1>7. Blocks(s, 0, q) = Blocks(S, 0, q)
  <2>1. q * HashBytes <= Len(s) /\ q * HashBytes \in Nat
    BY <1>2 DEF Holds
  <2>2. ASSUME NEW i \in 1 .. q * HashBytes PROVE ByteAt(s, 0 * HashBytes + i) = ByteAt(S, 0 * HashBytes + i)
    <3>1. 0 * HashBytes + i = i /\ i \in Nat \ {0} /\ i <= Len(s)
      BY <2>1, <1>1, Sizes3
    <3>2. ByteAt(s, i) = ByteAt(S, i)
      BY <3>1, ByteOfTwo DEF S
    <3> QED BY <3>1, <3>2
  <2> QED BY <1>1, <2>2, SameBlocks
<1>8. compressAll(o.hash, t.blocks) = compressAll(Start, Blocks(S, 0, q + n))
  BY <1>1, <1>2, <1>5, <1>7, ChainOn
<1>9. Hasher(u) /\ u.data = t.rest /\ u.n = Len(S) /\ u.hash = compressAll(Start, Blocks(S, 0, q + n))
  BY <1>6, <1>8
<1>10. Absorbed(u, S)
  BY <1>5, <1>9 DEF Absorbed
<1> QED BY <1>10 DEF u, S

\* A whole number of blocks is the digest of what is padded.
LEMMA DigestChain ==
    ASSUME NEW s, NEW n \in Nat, Len(Message(s)) \div HashBytes = n
    PROVE  Digest(s) = compressAll(Start, Blocks(Message(s), 0, n))
<1> DEFINE m == Message(s)
           bs == Blocks(m, 0, n)
           h == CHOOSE a : Run(a, n, Start, bs)
<1>1. \A a : a = [k \in 0 .. n |-> IF k = 0 THEN Start ELSE compress(a[k - 1], Block(m, k - 1, HashBytes))]
             <=> Run(a, n, Start, bs)
  <2> TAKE a
  <2>1. \A k \in 0 .. n : k # 0 => bs[k] = Block(m, k - 1, HashBytes)
    BY DEF Blocks
  <2> HIDE DEF m, bs
  <2>2. [k \in 0 .. n |-> IF k = 0 THEN Start ELSE compress(a[k - 1], Block(m, k - 1, HashBytes))]
        = [k \in 0 .. n |-> IF k = 0 THEN Start ELSE compress(a[k - 1], bs[k])]
    BY <2>1
  <2> QED BY <2>2 DEF Run
<1>2. Digest(s) = h[n]
  BY <1>1 DEF Digest
<1>3. Run(h, n, Start, bs)
  BY RunExists
<1> QED BY <1>2, <1>3, BlocksLen, CompressAll

-----------------------------------------------------------------------------
\* Finalization: the message is closed with one bit and its length.

\* Two sequences of bytes are one, as long as both.
LEMMA TwoLong ==
    ASSUME NEW p \in Seq(Byte), NEW t \in Seq(Byte)
    PROVE  p \o t \in Seq(Byte) /\ Len(p \o t) = Len(p) + Len(t)
  OBVIOUS

\* The byte with the one bit that closes a message.
LEMMA HalfIsByte == Base \div 2 \in Byte
<1> DEFINE h == Base \div 2
<1>1. Base \in Nat /\ Base > 0
  BY BaseIsPositive
<1>2. h \in Nat /\ Base % 2 \in 0 .. 1 /\ h * 2 + (Base % 2) = Base
  <2> HIDE DEF h
  <2> QED BY <1>1, DivMod DEF h
<1>3. h \in 0 .. Base - 1
  <2>1. h * 2 = h + h
    BY <1>2
  <2> HIDE DEF h
  <2>2. \A b, r \in Nat : b > 0 /\ h + h + r = b => h <= b - 1
    BY <1>2
  <2> QED BY <1>1, <1>2, <2>1, <2>2
<1> QED BY <1>3 DEF Byte

\* The count that ends a message is bytes, two words of them.
LEMMA CountIsBytes == ASSUME NEW n \in Nat PROVE Count(n) \in Seq(Byte) /\ Len(Count(n)) = LenBytes
<1> DEFINE a == (n \div Base) % Base
           b == n % Base
<1>1. Base \in Nat /\ Base > 0
  BY BaseIsPositive
<1>2. a \in Byte /\ b \in Byte
  <2>1. n \div Base \in Nat /\ b \in 0 .. Base - 1
    BY <1>1, DivMod
  <2>2. a \in 0 .. Base - 1
    BY <1>1, <2>1, DivMod
  <2> QED BY <2>1, <2>2 DEF Byte
<1> HIDE DEF a, b
<1>3. LenBytes - 2 \in Nat
  BY Sizes3
<1>4. Zeros(LenBytes - 2) \in Seq(Byte) /\ Len(Zeros(LenBytes - 2)) = LenBytes - 2
  BY <1>3, ZerosSeq
<1>5. <<a, b>> \in Seq(Byte) /\ Len(<<a, b>>) = 2
  BY <1>2
<1> DEFINE z == Zeros(LenBytes - 2)
           d == <<a, b>>
<1> HIDE DEF z, d
<1>6. z \o d \in Seq(Byte) /\ Len(z \o d) = (LenBytes - 2) + 2
  BY <1>4, <1>5, TwoLong DEF z, d
<1>7. (LenBytes - 2) + 2 = LenBytes
  BY Sizes3
<1>8. Count(n) = z \o d
  BY DEF Count, z, d, a, b
<1> QED BY <1>6, <1>7, <1>8

\* How many zeros make whole blocks is unique.
LEMMA FillIs ==
    ASSUME NEW s \in Seq(Byte), NEW f \in 0 .. HashBytes - 1, NEW m \in Nat,
           Len(s) + 1 + f + LenBytes = m * HashBytes
    PROVE  Message(s) = s \o <<Base \div 2>> \o Zeros(f) \o Count(Len(s))
<1> DEFINE P(z) == (Len(s) + 1 + z + LenBytes) % HashBytes = 0
           g == CHOOSE z \in 0 .. HashBytes - 1 : P(z)
           n == Len(s)
<1>1. n \in Nat /\ HashBytes \in Nat /\ HashBytes > 0 /\ LenBytes \in Nat /\ f \in Nat
  BY Sizes3
<1>2. P(f)
  <2>1. m * HashBytes \in Nat /\ m * HashBytes + 0 = m * HashBytes
    BY <1>1, Times
  <2>2. (m * HashBytes + 0) % HashBytes = 0
    BY <1>1, DivIs
  <2> QED BY <2>1, <2>2
<1>3. ASSUME NEW z \in 0 .. HashBytes - 1, P(z) PROVE z = f
  <2> DEFINE k == (n + 1 + z + LenBytes) \div HashBytes
  <2>1. n + 1 + z + LenBytes \in Nat
    BY <1>1
  <2>2. k \in Nat /\ k * HashBytes + ((n + 1 + z + LenBytes) % HashBytes) = n + 1 + z + LenBytes
    BY <1>1, <2>1, DivMod
  <2>3. k * HashBytes = n + 1 + z + LenBytes /\ k * HashBytes \in Nat
    BY <2>2, <1>3, <1>1, Times
  <2> HIDE DEF k
  <2>4. m * HashBytes \in Nat /\ m * HashBytes = n + 1 + f + LenBytes
    BY <1>1, Times
  <2>5. ASSUME k < m PROVE FALSE
    <3>1. k + 1 <= m /\ k + 1 \in Nat
      BY <2>2, <2>5
    <3>2. (k + 1) * HashBytes <= m * HashBytes /\ (k + 1) * HashBytes = k * HashBytes + HashBytes
      BY <3>1, <2>2, <1>1, Times
    <3> HIDE DEF n
    <3> QED BY <3>2, <2>3, <2>4, <1>1
  <2>6. ASSUME m < k PROVE FALSE
    <3>1. m + 1 <= k /\ m + 1 \in Nat
      BY <2>2, <2>6
    <3>2. (m + 1) * HashBytes <= k * HashBytes /\ (m + 1) * HashBytes = m * HashBytes + HashBytes
      BY <3>1, <2>2, <1>1, Times
    <3> HIDE DEF n
    <3> QED BY <3>2, <2>3, <2>4, <1>1
  <2>7. k = m
    BY <2>2, <2>5, <2>6
  <2> HIDE DEF n
  <2> QED BY <2>3, <2>4, <2>7, <1>1
<1>4. g = f
  <2> HIDE DEF P
  <2> QED BY <1>2, <1>3
<1>5. Message(s) = s \o <<Base \div 2>> \o Zeros(g) \o Count(Len(s))
  BY DEF Message
<1> HIDE DEF g
<1> QED BY <1>4, <1>5

\* The closed message, byte by byte: the message, one bit, zeros, the count.
LEMMA MessageBytes ==
    ASSUME NEW s \in Seq(Byte), NEW f \in 0 .. HashBytes - 1, NEW m \in Nat,
           Len(s) + 1 + f + LenBytes = m * HashBytes
    PROVE  /\ Message(s) \in Seq(Byte) /\ Len(Message(s)) = m * HashBytes
           /\ \A j \in Nat \ {0} :
                 /\ j <= Len(s) => ByteAt(Message(s), j) = ByteAt(s, j)
                 /\ j = Len(s) + 1 => ByteAt(Message(s), j) = Base \div 2
                 /\ j > Len(s) + 1 /\ j <= Len(s) + 1 + f => ByteAt(Message(s), j) = 0
                 /\ j > Len(s) + 1 + f /\ j <= m * HashBytes
                       => ByteAt(Message(s), j) = Count(Len(s))[j - (Len(s) + 1 + f)]
<1> DEFINE n == Len(s)
           h == Base \div 2
           a == s \o <<h>>
           b == a \o Zeros(f)
           c == b \o Count(n)
           l == m * HashBytes
<1>1. n \in Nat /\ LenBytes \in Nat /\ f \in Nat /\ l \in Nat /\ n + 1 + f + LenBytes = l
  BY Sizes3, Times
<1>2. Message(s) = c
  BY FillIs
<1>3. h \in Byte /\ <<h>> \in Seq(Byte) /\ Len(<<h>>) = 1 /\ <<h>>[1] = h
  <2> HIDE DEF h
  <2>1. h \in Byte
    BY HalfIsByte DEF h
  <2> QED BY <2>1
<1>4. Zeros(f) \in Seq(Byte) /\ Len(Zeros(f)) = f /\ Count(n) \in Seq(Byte) /\ Len(Count(n)) = LenBytes
  BY <1>1, ZerosSeq, CountIsBytes
<1> HIDE DEF n, h
<1>5. a \in Seq(Byte) /\ Len(a) = n + 1
  BY <1>3 DEF n
<1> HIDE DEF a
<1>6. b \in Seq(Byte) /\ Len(b) = n + 1 + f
  <2> DEFINE z == Zeros(f)
  <2> HIDE DEF z
  <2>1. z \in Seq(Byte) /\ Len(z) = f
    BY <1>4 DEF z
  <2>2. a \o z \in Seq(Byte) /\ Len(a \o z) = Len(a) + Len(z)
    BY <2>1, <1>5, TwoLong
  <2> QED BY <2>1, <2>2, <1>5 DEF b, z
<1> HIDE DEF b
<1>7. c \in Seq(Byte) /\ Len(c) = n + 1 + f + LenBytes
  <2> DEFINE z == Count(n)
  <2> HIDE DEF z
  <2>1. z \in Seq(Byte) /\ Len(z) = LenBytes
    BY <1>4 DEF z
  <2>2. b \o z \in Seq(Byte) /\ Len(b \o z) = Len(b) + Len(z)
    BY <2>1, <1>6, TwoLong
  <2> QED BY <2>1, <2>2, <1>6 DEF c, z
<1> HIDE DEF c, l
<1>8. ASSUME NEW j \in Nat \ {0}
      PROVE  /\ j <= n => ByteAt(c, j) = ByteAt(s, j)
             /\ j = n + 1 => ByteAt(c, j) = h
             /\ j > n + 1 /\ j <= n + 1 + f => ByteAt(c, j) = 0
             /\ j > n + 1 + f /\ j <= l => ByteAt(c, j) = Count(n)[j - (n + 1 + f)]
  <2>1. j <= n + 1 + f => ByteAt(c, j) = ByteAt(b, j)
    BY <1>4, <1>6, ByteOfTwo DEF c
  <2>2. j <= n + 1 => ByteAt(b, j) = ByteAt(a, j)
    BY <1>4, <1>5, ByteOfTwo DEF b
  <2>3. j <= n => ByteAt(a, j) = ByteAt(s, j)
    BY <1>3, ByteOfTwo DEF a, n
  <2>4. j <= n => ByteAt(c, j) = ByteAt(s, j)
    BY <2>1, <2>2, <2>3, <1>1
  <2>5. j = n + 1 => ByteAt(c, j) = h
    <3> SUFFICES ASSUME j = n + 1 PROVE ByteAt(c, j) = h
      OBVIOUS
    <3>1. j - n = 1 /\ j > n /\ j <= n + 1 + f
      BY <1>1
    <3>2. ByteAt(a, j) = ByteAt(<<h>>, j - n)
      BY <1>3, <3>1, ByteOfTwo DEF a, n
    <3>3. ByteAt(<<h>>, 1) = h
      BY <1>3 DEF ByteAt
    <3> QED BY <2>1, <2>2, <3>1, <3>2, <3>3
  <2>6. j > n + 1 /\ j <= n + 1 + f => ByteAt(c, j) = 0
    <3> SUFFICES ASSUME j > n + 1, j <= n + 1 + f PROVE ByteAt(c, j) = 0
      OBVIOUS
    <3> DEFINE z == Zeros(f)
    <3> HIDE DEF z
    <3>3. z \in Seq(Byte)
      BY <1>4 DEF z
    <3>2. ByteAt(a \o z, j) = ByteAt(z, j - Len(a))
      BY <1>5, <3>3, <1>1, ByteOfTwo
    <3>1. ByteAt(b, j) = ByteAt(Zeros(f), j - (n + 1))
      BY <3>2, <1>5 DEF b, z
    <3> QED BY <2>1, <3>1, <1>1, ByteOfZeros
  <2>7. j > n + 1 + f /\ j <= l => ByteAt(c, j) = Count(n)[j - (n + 1 + f)]
    <3> SUFFICES ASSUME j > n + 1 + f, j <= l PROVE ByteAt(c, j) = Count(n)[j - (n + 1 + f)]
      OBVIOUS
    <3> DEFINE z == Count(n)
    <3> HIDE DEF z
    <3>4. z \in Seq(Byte)
      BY <1>4 DEF z
    <3>5. ByteAt(b \o z, j) = ByteAt(z, j - Len(b))
      BY <1>6, <3>4, <1>1, ByteOfTwo
    <3>1. ByteAt(c, j) = ByteAt(Count(n), j - (n + 1 + f))
      BY <3>5, <1>6 DEF c, z
    <3>2. j - (n + 1 + f) \in 1 .. LenBytes
      BY <1>1
    <3>3. DOMAIN Count(n) = 1 .. LenBytes
      BY <1>4, <1>1
    <3> QED BY <3>1, <3>2, <3>3 DEF ByteAt
  <2> QED BY <2>4, <2>5, <2>6, <2>7
<1>9. c \in Seq(Byte) /\ Len(c) = l
  BY <1>1, <1>7
<1> QED BY <1>2, <1>8, <1>9 DEF n, h, l

\* What closes the data is the end of the padded message.
LEMMA ClosedIsMessage ==
    ASSUME NEW o, NEW s \in Seq(Byte), NEW q \in Nat, o.n = Len(s), Holds(o.data, s, q * HashBytes)
    PROVE  \E z \in Nat :
              /\ Closed(o) \in Seq(Byte) /\ Len(Closed(o)) = z * HashBytes
              /\ Blocks(Closed(o), 0, z) = Blocks(Message(s), q, z)
              /\ Len(Message(s)) \div HashBytes = q + z
<1> DEFINE g == o.data.sigBytes
           z == (g + LenBytes) \div HashBytes + 1
           l == z * HashBytes
           k == q * HashBytes
           f == l - LenBytes - g - 1
           n == Len(s)
           M == Message(s)
           C == Closed(o)
<1>1. /\ HashBytes \in Nat /\ HashBytes > 0 /\ LenBytes \in Nat /\ k \in Nat /\ n \in Nat
      /\ g \in Nat /\ n = k + g
  <2>1. HashBytes \in Nat /\ HashBytes > 0 /\ LenBytes \in Nat /\ k \in Nat /\ n \in Nat
    BY Sizes3, Times
  <2>2. k <= n /\ g = n - k
    BY DEF Holds
  <2> HIDE DEF k, n, g
  <2> QED BY <2>1, <2>2
<1>2. \A i \in Nat \ {0} : ByteAt(o.data.words, i) = ByteAt(s, k + i)
  BY DEF Holds
<1>3. /\ z \in Nat /\ l \in Nat /\ l > g + LenBytes /\ l <= g + LenBytes + HashBytes
      /\ (q + z) * HashBytes = k + l
  <2> DEFINE y == (g + LenBytes) \div HashBytes
             r == (g + LenBytes) % HashBytes
  <2>1. y \in Nat /\ r \in 0 .. HashBytes - 1 /\ y * HashBytes + r = g + LenBytes
    <3> HIDE DEF g
    <3> QED BY <1>1, DivMod
  <2> HIDE DEF y, r
  <2>2. z = y + 1
    BY DEF y
  <2>3. l = y * HashBytes + HashBytes /\ y * HashBytes \in Nat
    BY <2>1, <2>2, <1>1, Times
  <2>4. (q + z) * HashBytes = k + l
    <3>1. z \in Nat
      BY <2>1, <2>2
    <3> HIDE DEF z
    <3> QED BY <3>1, <1>1, Times
  <2> HIDE DEF l, g, k
  <2> QED BY <2>1, <2>2, <2>3, <2>4, <1>1
<1>4. f \in 0 .. HashBytes - 1 /\ n + 1 + f + LenBytes = (q + z) * HashBytes
  <2> HIDE DEF g, l, n, k, z
  <2> QED BY <1>1, <1>3
<1>5. q + z \in Nat
  BY <1>3
<1>6. C = [i \in 1 .. l |-> IF i > l - LenBytes THEN Count(n)[i - l + LenBytes]
                            ELSE IF i = g + 1 THEN Or(ByteAt(o.data.words, i), Base \div 2)
                            ELSE ByteAt(o.data.words, i)]
  BY DEF Closed
<1> HIDE DEF g, z, l, k, f, n, M, C
<1>7. /\ M \in Seq(Byte) /\ Len(M) = (q + z) * HashBytes
      /\ \A j \in Nat \ {0} :
            /\ j <= n => ByteAt(M, j) = ByteAt(s, j)
            /\ j = n + 1 => ByteAt(M, j) = Base \div 2
            /\ j > n + 1 /\ j <= n + 1 + f => ByteAt(M, j) = 0
            /\ j > n + 1 + f /\ j <= (q + z) * HashBytes => ByteAt(M, j) = Count(n)[j - (n + 1 + f)]
  BY <1>4, <1>5, MessageBytes DEF n, M
<1>8. \A j \in Nat \ {0} : j > n => ByteAt(s, j) = 0
  BY <1>1, ByteOfTwo DEF n
<1>9. ASSUME NEW i \in 1 .. l PROVE C[i] = ByteAt(M, k + i)
  <2>1. k + i \in Nat \ {0} /\ i \in Nat \ {0} /\ k + i <= (q + z) * HashBytes
    BY <1>1, <1>3
  <2>2. CASE i <= g
    <3>1. ~(i > l - LenBytes) /\ i # g + 1 /\ k + i <= n
      BY <2>2, <1>1, <1>3
    <3>2. C[i] = ByteAt(o.data.words, i)
      BY <3>1, <1>6
    <3> QED BY <3>1, <3>2, <2>1, <1>2, <1>7
  <2>3. CASE i = g + 1
    <3>1. ~(i > l - LenBytes) /\ k + i = n + 1 /\ k + i > n
      BY <2>3, <1>1, <1>3
    <3>2. C[i] = Or(ByteAt(o.data.words, i), Base \div 2)
      BY <3>1, <2>3, <1>6
    <3>3. ByteAt(o.data.words, i) = 0
      BY <3>1, <2>1, <1>2, <1>8
    <3>4. Or(0, Base \div 2) = Base \div 2
      BY HalfIsByte, OrAssumption
    <3>5. C[i] = Base \div 2
      BY <3>2, <3>3, <3>4
    <3>6. ByteAt(M, k + i) = Base \div 2
      BY <3>1, <2>1, <1>7
    <3> QED BY <3>5, <3>6
  <2>4. CASE i > g + 1 /\ ~(i > l - LenBytes)
    <3>1. k + i > n + 1 /\ k + i <= n + 1 + f /\ k + i > n /\ i # g + 1
      BY <2>4, <1>1, <1>3, <1>4
    <3>2. C[i] = ByteAt(o.data.words, i)
      BY <3>1, <2>4, <1>6
    <3>3. ByteAt(o.data.words, i) = 0
      BY <3>1, <2>1, <1>2, <1>8
    <3> QED BY <3>1, <3>2, <3>3, <2>1, <1>7
  <2>5. CASE i > l - LenBytes
    <3>1. k + i > n + 1 + f /\ (k + i) - (n + 1 + f) = i - l + LenBytes
      BY <2>5, <1>1, <1>3, <1>4
    <3>2. C[i] = Count(n)[i - l + LenBytes]
      BY <2>5, <1>6
    <3> QED BY <3>1, <3>2, <2>1, <1>7
  <2> QED BY <2>2, <2>3, <2>4, <2>5, <1>1, <1>3
<1>10. C \in Seq(Byte) /\ Len(C) = l
  <2>1. \A i \in 1 .. l : C[i] \in Byte
    BY <1>9, <1>7, ByteInByte
  <2>2. C \in [1 .. l -> Byte]
    BY <2>1, <1>6
  <2> QED BY <2>2, <1>3
<1>11. Blocks(C, 0, z) = Blocks(M, q, z)
  <2>1. ASSUME NEW i \in 1 .. z * HashBytes PROVE ByteAt(C, 0 * HashBytes + i) = ByteAt(M, q * HashBytes + i)
    <3>1. i \in 1 .. l /\ 0 * HashBytes + i = i
      BY <1>1 DEF l
    <3>2. DOMAIN C = 1 .. l
      BY <1>10, <1>3
    <3> QED BY <3>1, <3>2, <1>9 DEF ByteAt, k
  <2> QED BY <2>1, <1>3, SameBlocks
<1>12. Len(M) \div HashBytes = q + z
  <2>1. (q + z) * HashBytes + 0 = (q + z) * HashBytes
    BY <1>5, <1>1, Times
  <2>2. ((q + z) * HashBytes + 0) \div HashBytes = q + z
    BY <1>5, <1>1, DivIs
  <2> QED BY <2>1, <2>2, <1>7
<1> QED BY <1>3, <1>10, <1>11, <1>12 DEF C, M, l

\* A padded message is whole blocks, and the message is its beginning.
LEMMA MessageIsBlocks ==
    ASSUME NEW s \in Seq(Byte)
    PROVE  /\ Message(s) \in Seq(Byte) /\ Len(Message(s)) \div HashBytes \in Nat
           /\ \A i \in Nat \ {0} : i <= Len(s) => ByteAt(Message(s), i) = ByteAt(s, i)
<1> DEFINE n == Len(s)
           m == (n + LenBytes) \div HashBytes + 1
           f == m * HashBytes - LenBytes - n - 1
<1>1. HashBytes \in Nat /\ HashBytes > 0 /\ LenBytes \in Nat /\ n \in Nat
  BY Sizes3
<1>2. m \in Nat /\ f \in 0 .. HashBytes - 1 /\ n + 1 + f + LenBytes = m * HashBytes
  <2> DEFINE y == (n + LenBytes) \div HashBytes
             r == (n + LenBytes) % HashBytes
             l == m * HashBytes
  <2>1. y \in Nat /\ r \in 0 .. HashBytes - 1 /\ y * HashBytes + r = n + LenBytes
    <3> HIDE DEF n
    <3> QED BY <1>1, DivMod
  <2> HIDE DEF y, r
  <2>2. m = y + 1
    BY DEF y
  <2>3. l = y * HashBytes + HashBytes /\ y * HashBytes \in Nat
    BY <2>1, <2>2, <1>1, Times
  <2> HIDE DEF l, n, m
  <2> QED BY <2>1, <2>2, <2>3, <1>1 DEF l
<1> HIDE DEF m, f
<1>3. /\ Message(s) \in Seq(Byte)
      /\ \A i \in Nat \ {0} : i <= Len(s) => ByteAt(Message(s), i) = ByteAt(s, i)
  BY <1>2, MessageBytes DEF n
<1>4. Len(Message(s)) \div HashBytes \in Nat
  BY <1>1, <1>3, DivMod
<1> QED BY <1>3, <1>4

\* A word array of bytes.
IsWords(w) == w.words \in Seq(Byte) /\ w.sigBytes \in Nat

\* What is made of bytes holds them.
LEMMA CreateWords ==
    ASSUME NEW p \in Seq(Byte)
    PROVE  IsWords(Create(p)) /\ Create(p).sigBytes = Len(p)
           /\ \A i \in Nat \ {0} : ByteAt(Create(p).words, i) = ByteAt(p, i)
  BY CreateRep DEF Rep, IsWords

\* What is not taken is a word array, too.
LEMMA RestIsWords ==
    ASSUME NEW w, IsWords(w), NEW size \in Nat \ {0}, NEW back \in {0, 1}, NEW flush \in BOOLEAN
    PROVE  IsWords(Taken(w, size, back, flush).rest)
<1> DEFINE sig == w.sigBytes
           n == BlocksReady(w, size, back, flush)
           m == n * size
           ready == Least(m, sig)
<1>1. sig \in Nat /\ w.words \in Seq(Byte)
  BY DEF IsWords
<1>2. n \in Nat
  <2>1. (sig + size - 1) \div size \in Nat /\ sig \div size \in Nat
    <3>1. sig + size - 1 \in Nat /\ size \in Nat /\ size > 0
      BY <1>1
    <3> HIDE DEF sig
    <3> QED BY ONLY <1>1, <3>1, DivMod
  <2> QED BY <2>1 DEF BlocksReady
<1>3. m \in Nat
  <2> HIDE DEF n
  <2> QED BY <1>2, Times
<1> HIDE DEF n, m
<1>4. ready \in Nat /\ ready <= sig
  BY <1>1, <1>3 DEF Least
<1>5. Taken(w, size, back, flush).rest = [words |-> SubSeq(w.words, m + 1, Len(w.words)), sigBytes |-> sig - ready]
  BY DEF Taken, n, m
<1> HIDE DEF ready
<1>6. SubSeq(w.words, m + 1, Len(w.words)) \in Seq(Byte) /\ sig - ready \in Nat
  BY <1>1, <1>3, <1>4
<1> HIDE DEF sig
<1> QED BY <1>5, <1>6 DEF IsWords

\* finalize: the hash is that of all the bytes taken.
LEMMA FinalizeDigests ==
    ASSUME NEW o, NEW w, NEW s \in Seq(Byte), NEW p \in Seq(Byte), Absorbed(o, s), Rep(w, p)
    PROVE  finalize(o, w).hash = Digest(s \o p) /\ IsWords(finalize(o, w).data)
<1> DEFINE q == Len(s) \div HashBytes
           a == append(o, w)
           C == Closed(a)
           t == Taken(Create(C), HashBytes, 0, FALSE)
           S == s \o p
<1>1. S \in Seq(Byte) /\ Len(S) = Len(s) + Len(p) /\ Len(s) \in Nat /\ q \in Nat
  <2>1. HashBytes \in Nat /\ HashBytes > 0 /\ Len(s) \in Nat
    BY Sizes3
  <2>2. q \in Nat
    BY <2>1, DivMod
  <2> QED BY <2>1, <2>2
<1>2. /\ Hasher(o) /\ o.n = Len(s)
      /\ Holds(o.data, s, q * HashBytes) /\ o.hash = compressAll(Start, Blocks(s, 0, q))
  BY DEF Absorbed
<1>3. Hasher(a) /\ a.data = concat(o.data, w) /\ a.n = Len(S) /\ a.hash = o.hash
  <2>1. o.n + w.sigBytes = Len(S)
    BY <1>1, <1>2 DEF Rep
  <2> DEFINE e == concat(o.data, w)
             m == o.n + w.sigBytes
  <2>2. a = [o EXCEPT !.data = e, !.n = m]
    BY DEF append
  <2> HIDE DEF S, a, e, m
  <2>3. Hasher(a) /\ a.data = e /\ a.n = m /\ a.hash = o.hash
    <3>1. Hasher(o)
      BY <1>2
    <3> QED BY ONLY <2>2, <3>1 DEF Hasher
  <2> QED BY <2>1, <2>3 DEF e, m
<1> HIDE DEF q, a
<1>4. Holds(a.data, S, q * HashBytes)
  BY <1>2, <1>3, ConcatHolds
<1> HIDE DEF S, C
<1>5. PICK z \in Nat : /\ C \in Seq(Byte) /\ Len(C) = z * HashBytes
                       /\ Blocks(C, 0, z) = Blocks(Message(S), q, z)
                       /\ Len(Message(S)) \div HashBytes = q + z
  BY <1>1, <1>3, <1>4, ClosedIsMessage DEF C
<1>6. t.blocks = Blocks(C, 0, z)
  <2> DEFINE c == Create(C)
  <2>1. Rep(c, C) /\ Holds(c, C, 0)
    BY <1>5, CreateRep, RepHolds
  <2>2. c.sigBytes \div HashBytes = z
    <3>1. HashBytes \in Nat /\ HashBytes > 0
      BY Sizes3
    <3>2. c.sigBytes = z * HashBytes + 0
      BY <1>5, <2>1, <3>1, Times DEF Rep
    <3> HIDE DEF c
    <3> QED BY <3>1, <3>2, <1>5, DivIs
  <2> HIDE DEF c
  <2>3. Holds(c, C, 0 * HashBytes)
    <3>1. 0 * HashBytes = 0
      BY Sizes3
    <3> QED BY <3>1, <2>1
  <2>4. Taken(c, HashBytes, 0, FALSE).blocks = Blocks(C, 0, z)
    BY <2>2, <2>3, <1>5, TakenHolds
  <2> QED BY <2>4 DEF c
<1>6a. IsWords(t.rest)
  <2>1. IsWords(Create(C)) /\ HashBytes \in Nat \ {0}
    BY <1>5, CreateWords, Sizes3
  <2> QED BY <2>1, RestIsWords
<1> HIDE DEF t
<1> DEFINE u == finalize(o, w)
<1>7. u.hash = compressAll(o.hash, t.blocks) /\ u.data = t.rest
  <2> DEFINE e == t.rest
             m == compressAll(a.hash, t.blocks)
  <2>1. u = [a EXCEPT !.data = e, !.hash = m]
    BY DEF finalize, a, t, C
  <2> HIDE DEF u, e, m
  <2>2. u.hash = m /\ u.data = e
    <3>1. Hasher(a)
      BY <1>3
    <3> QED BY ONLY <2>1, <3>1 DEF Hasher
  <2> QED BY <2>2, <1>3 DEF m, e
<1> HIDE DEF u
<1> DEFINE M == Message(S)
<1>8. Blocks(s, 0, q) = Blocks(M, 0, q)
  <2>1. q * HashBytes <= Len(s) /\ q * HashBytes \in Nat
    BY <1>2 DEF Holds
  <2>2. ASSUME NEW i \in 1 .. q * HashBytes PROVE ByteAt(s, 0 * HashBytes + i) = ByteAt(M, 0 * HashBytes + i)
    <3>1. 0 * HashBytes + i = i /\ i \in Nat \ {0} /\ i <= Len(s) /\ i <= Len(S)
      BY <2>1, <1>1, Sizes3
    <3>2. ByteAt(s, i) = ByteAt(S, i)
      BY <3>1, ByteOfTwo DEF S
    <3>3. ByteAt(M, i) = ByteAt(S, i)
      BY <3>1, <1>1, MessageIsBlocks
    <3> QED BY <3>1, <3>2, <3>3
  <2> QED BY <1>1, <2>2, SameBlocks
<1> HIDE DEF M
<1>9. u.hash = compressAll(Start, Blocks(M, 0, q + z))
  <2>1. u.hash = compressAll(compressAll(Start, Blocks(M, 0, q)), Blocks(M, q, z))
    BY <1>2, <1>5, <1>6, <1>7, <1>8 DEF M
  <2> QED BY <2>1, <1>1, <1>5, ChainOn
<1>10. Digest(S) = compressAll(Start, Blocks(M, 0, q + z))
  <2>1. q + z \in Nat
    BY <1>1, <1>5
  <2> QED BY <2>1, <1>5, DigestChain DEF M
<1> QED BY <1>6a, <1>7, <1>9, <1>10 DEF u, S

-----------------------------------------------------------------------------
\* HMAC objects.

\* The rounds of a hash turn a state and a block into a state: the one thing the
\* theorems below suppose of compress.
HashWord == [1 .. WordBytes -> Byte]
CompressGivesWords == \A h \in HashWord, b \in [1 .. HashBytes -> Byte] : compress(h, b) \in HashWord

\* A digest is a word of bytes.
LEMMA DigestIsWord ==
    ASSUME CompressGivesWords, NEW s \in Seq(Byte)
    PROVE  Digest(s) \in Seq(Byte) /\ Len(Digest(s)) = WordBytes
<1> DEFINE n == Len(Message(s)) \div HashBytes
           bs == Blocks(Message(s), 0, n)
<1>1. Message(s) \in Seq(Byte) /\ n \in Nat
  BY MessageIsBlocks
<1>2. Digest(s) = compressAll(Start, bs)
  BY <1>1, DigestChain
<1>3. \A k \in 1 .. n : bs[k] \in [1 .. HashBytes -> Byte]
  <2>1. \A k : Block(Message(s), k, HashBytes) \in [1 .. HashBytes -> Byte]
    BY <1>1, ByteInByte DEF Block
  <2> HIDE DEF n
  <2> QED BY <2>1 DEF Blocks
<1>4. PICK f : Run(f, n, Start, bs)
  BY <1>1, RunExists
<1>5. Digest(s) = f[n]
  BY <1>1, <1>2, <1>4, BlocksLen, CompressAll
<1> HIDE DEF n, bs
<1> DEFINE S == {k \in Nat : k <= n => f[k] \in HashWord}
<1>6. 0 \in S
  <2>1. f[0] = Start
    BY <1>1, <1>4 DEF Run
  <2>2. Start \in HashWord
    BY ByteZero, Sizes3 DEF Start, Zeros, HashWord
  <2> QED BY <2>1, <2>2
<1>7. ASSUME NEW k \in Nat, k \in S PROVE k + 1 \in S
  <2> SUFFICES ASSUME k + 1 <= n PROVE f[k + 1] \in HashWord
    OBVIOUS
  <2>1. f[k] \in HashWord /\ bs[k + 1] \in [1 .. HashBytes -> Byte]
    BY <1>1, <1>3, <1>7
  <2>2. f[k + 1] = compress(f[k], bs[k + 1])
    <3>1. k + 1 \in 0 .. n /\ k + 1 # 0 /\ (k + 1) - 1 = k
      BY <1>1
    <3> QED BY <1>4, <3>1 DEF Run
  <2> QED BY <2>1, <2>2 DEF CompressGivesWords
<1>8. Nat \subseteq S
  <2> HIDE DEF S
  <2> QED BY <1>6, <1>7, SetInduction
<1>9. f[n] \in HashWord
  BY <1>1, <1>8
<1>10. \A h \in HashWord : h \in Seq(Byte) /\ Len(h) = WordBytes
  BY Sizes3 DEF HashWord
<1> QED BY <1>5, <1>9, <1>10

-----------------------------------------------------------------------------
MacKey(key)     == IF Len(key) > HashBytes THEN Digest(key) ELSE key
Padded(key, p)  == [i \in 1 .. HashBytes |-> Xor(ByteAt(MacKey(key), i), p)]

\* The key of an HMAC, also one that was hashed, fills a block when it is padded.
LEMMA PaddedIsBytes ==
    ASSUME CompressGivesWords, NEW key \in Seq(Byte), NEW p \in Byte
    PROVE  MacKey(key) \in Seq(Byte) /\ Padded(key, p) \in Seq(Byte)
<1>1. MacKey(key) \in Seq(Byte)
  BY DigestIsWord DEF MacKey
<1>2. \A i \in 1 .. HashBytes : Xor(ByteAt(MacKey(key), i), p) \in Byte
  BY <1>1, ByteInByte, ByteAssumption
<1>3. Padded(key, p) \in [1 .. HashBytes -> Byte]
  BY <1>2 DEF Padded
<1> QED BY <1>1, <1>3, Sizes3

\* The HMAC, as the standard writes it.
LEMMA MacIs == ASSUME NEW key, NEW s
               PROVE  Mac(key, s) = Digest(Padded(key, OPad) \o Digest(Padded(key, IPad) \o s))
  BY DEF Mac, Padded, MacKey

\* A fresh hasher gives the digest.
LEMMA DigestOf ==
    ASSUME NEW w, NEW p \in Seq(Byte), Rep(w, p)
    PROVE  finalize(NewHash, w).hash = Digest(p) /\ IsWords(finalize(NewHash, w).data)
<1>1. << >> \in Seq(Byte) /\ << >> \o p = p
  OBVIOUS
<1> QED BY <1>1, NewAbsorbed, FinalizeDigests

\* A fresh hasher that is updated has absorbed just that.
LEMMA UpdatedOf ==
    ASSUME NEW w, NEW p \in Seq(Byte), Rep(w, p)
    PROVE  Absorbed(update(NewHash, w), p)
<1>1. << >> \in Seq(Byte) /\ << >> \o p = p
  OBVIOUS
<1>2. Absorbed(update(NewHash, w), << >> \o p)
  BY <1>1, NewAbsorbed, UpdateAbsorbs
<1> QED BY <1>1, <1>2

\* The object of an HMAC of this key, with the hasher h.
Hmac(o, key, h) ==
    o \in [hasher : {h}, iKey : {Create(Padded(key, IPad))}, oKey : {Create(Padded(key, OPad))}]

\* An HMAC object that is reset starts with the inner key again.
LEMMA ResetHmac ==
    ASSUME NEW o, NEW key, NEW h, Hmac(o, key, h)
    PROVE  Hmac(hmacReset(o), key, update(NewHash, Create(Padded(key, IPad))))
<1> DEFINE i == Create(Padded(key, IPad))
           k == Create(Padded(key, OPad))
           g == update(NewHash, o.iKey)
           u == hmacReset(o)
<1>1. u = [o EXCEPT !.hasher = g]
  BY DEF hmacReset
<1>2. o \in [hasher : {h}, iKey : {i}, oKey : {k}]
  BY DEF Hmac
<1> HIDE DEF i, k, g, u
<1>3. u \in [hasher : {g}, iKey : {i}, oKey : {k}] /\ o.iKey = i
  BY ONLY <1>1, <1>2
<1> QED BY <1>3 DEF Hmac, i, k, g, u

\* hmacInit gives an HMAC object that has taken the inner key.
LEMMA HmacStarts ==
    ASSUME CompressGivesWords, NEW key \in Seq(Byte)
    PROVE  Hmac(hmacInit(Create(key)), key, update(NewHash, Create(Padded(key, IPad))))
<1> DEFINE c == Create(key)
           x == IF c.sigBytes > HashBytes THEN digest(finalize(NewHash, c)) ELSE c
           o == [hasher |-> NewHash, iKey |-> Create(Padded(key, IPad)), oKey |-> Create(Padded(key, OPad))]
<1>1. Rep(c, key) /\ c.sigBytes = Len(key)
  BY CreateRep DEF Rep
<1>2. Bytes(x) = MacKey(key)
  <2>1. CASE c.sigBytes > HashBytes
    <3>1. x = Create(Digest(key))
      BY <1>1, <2>1, DigestOf DEF digest
    <3>2. Digest(key) \in Seq(Byte)
      BY DigestIsWord
    <3>3. Rep(x, Digest(key))
      BY <3>1, <3>2, CreateRep
    <3>4. Bytes(x) = Digest(key)
      <4> HIDE DEF x
      <4> QED BY <3>2, <3>3, RepBytes
    <3> QED BY <1>1, <2>1, <3>4 DEF MacKey
  <2>2. CASE ~(c.sigBytes > HashBytes)
    <3>1. x = c
      BY <2>2
    <3>2. Bytes(c) = key
      BY <1>1, RepBytes
    <3> QED BY <1>1, <2>2, <3>1, <3>2 DEF MacKey
  <2> QED BY <2>1, <2>2
<1> HIDE DEF c, x
<1>3. hmacInit(c) = hmacReset(o)
  BY <1>2 DEF hmacInit, x, Padded
<1>4. Hmac(o, key, NewHash)
  <2> DEFINE i == Create(Padded(key, IPad))
             k == Create(Padded(key, OPad))
             n == NewHash
  <2> HIDE DEF i, k, n
  <2>1. [hasher |-> n, iKey |-> i, oKey |-> k] \in [hasher : {n}, iKey : {i}, oKey : {k}]
    OBVIOUS
  <2> QED BY <2>1 DEF Hmac, i, k, n
<1> HIDE DEF o
<1> QED BY <1>3, <1>4, ResetHmac DEF c

\* An update goes to the inner hasher and leaves both keys alone.
LEMMA HmacUpdates ==
    ASSUME NEW o, NEW key, NEW h, Hmac(o, key, h), NEW w
    PROVE  Hmac(hmacUpdate(o, w), key, update(h, w)) /\ o.hasher = h
<1> DEFINE i == Create(Padded(key, IPad))
           k == Create(Padded(key, OPad))
           g == update(o.hasher, w)
           u == hmacUpdate(o, w)
<1>1. u = [o EXCEPT !.hasher = g]
  BY DEF hmacUpdate
<1>2. o \in [hasher : {h}, iKey : {i}, oKey : {k}]
  BY DEF Hmac
<1> HIDE DEF i, k, g, u
<1>3. u \in [hasher : {g}, iKey : {i}, oKey : {k}] /\ o.hasher = h
  BY ONLY <1>1, <1>2
<1> QED BY <1>3 DEF Hmac, i, k, g, u

\* An HMAC that has been fed s gives the HMAC of s and what comes last.
LEMMA HmacFinalizes ==
    ASSUME CompressGivesWords, NEW key \in Seq(Byte), NEW o, NEW h, Hmac(o, key, h),
           NEW s \in Seq(Byte), NEW w, NEW p \in Seq(Byte), Absorbed(h, Padded(key, IPad) \o s), Rep(w, p)
    PROVE  \E g : Hmac(hmacFinalize(o, w), key, g) /\ g.hash = Mac(key, s \o p) /\ IsWords(g.data)
<1> DEFINE a == Padded(key, IPad)
           b == Padded(key, OPad)
           i == Create(a)
           k == Create(b)
           d == Digest(a \o (s \o p))
           x == concat(o.oKey, digest(finalize(o.hasher, w)))
           g == finalize(NewHash, x)
           u == hmacFinalize(o, w)
<1>1. u = [o EXCEPT !.hasher = g]
  BY DEF hmacFinalize
<1>2. o \in [hasher : {h}, iKey : {i}, oKey : {k}]
  BY DEF Hmac
<1>3. a \in Seq(Byte) /\ b \in Seq(Byte)
  BY PaddedIsBytes, PadAssumption
<1>4. u \in [hasher : {g}, iKey : {i}, oKey : {k}] /\ o.hasher = h /\ o.oKey = k
  <2> HIDE DEF i, k, g, u
  <2> QED BY ONLY <1>1, <1>2
<1> HIDE DEF u, g, a, b
<1>5. /\ a \o s \in Seq(Byte) /\ s \o p \in Seq(Byte)
      /\ a \o (s \o p) \in Seq(Byte) /\ (a \o s) \o p = a \o (s \o p)
  BY <1>3, ConcatAssociative
<1>6. finalize(h, w).hash = d
  <2>1. finalize(h, w).hash = Digest((a \o s) \o p)
    BY <1>5, FinalizeDigests DEF a
  <2> QED BY <2>1, <1>5
<1>7. d \in Seq(Byte)
  BY <1>5, DigestIsWord
<1> HIDE DEF d
<1>8. Rep(k, b) /\ Rep(Create(d), d)
  BY <1>3, <1>7, CreateRep
<1> HIDE DEF k
<1>9. x = concat(k, Create(d))
  BY <1>4, <1>6 DEF digest
<1> HIDE DEF x
<1>10. Rep(x, b \o d) /\ b \o d \in Seq(Byte)
  BY <1>3, <1>7, <1>8, <1>9, ConcatRep
<1>11. g.hash = Digest(b \o d) /\ IsWords(g.data)
  BY <1>10, DigestOf DEF g
<1>12. Mac(key, s \o p) = Digest(b \o d)
  BY MacIs DEF a, b, d
<1>13. Hmac(u, key, g)
  BY <1>4 DEF Hmac, a, b, k
<1> QED BY <1>11, <1>12, <1>13 DEF u

-----------------------------------------------------------------------------
\* Every hash and every HMAC is that of the whole message.

\* what the hasher has taken before the text
InnerKey(key) == IF key = << >> THEN << >> ELSE Padded(key, IPad)
\* the object with the hasher h
Object(o, key, h) == IF key = << >> THEN o \in [hasher : {h}] ELSE Hmac(o, key, h)

MacInv ==
    /\ job \in Jobs
    /\ stage = "hash" =>
           /\ pos \in 0 .. Len(job.text) /\ Object(mac, job.secret, mac.hasher)
           /\ Absorbed(mac.hasher, InnerKey(job.secret) \o SubSeq(job.text, 1, pos))
    /\ stage = "hashed" =>
           pos = 0 /\ Object(mac, job.secret, mac.hasher) /\ MacIsFunction /\ IsWords(mac.hasher.data)

\* A job has bytes for text and secret.
LEMMA JobFacts == ASSUME NEW j \in Jobs
                  PROVE j.text \in Seq(Byte) /\ j.secret \in Seq(Byte) /\ Len(j.text) \in Nat
<1>1. j.text \in Seq(Byte) /\ j.secret \in Seq(Byte)
  BY JobAssumption DEF Job
<1> QED BY <1>1

\* What goes before the message is bytes.
LEMMA InnerKeyIsBytes == ASSUME CompressGivesWords, NEW key \in Seq(Byte) PROVE InnerKey(key) \in Seq(Byte)
<1>1. CASE key = << >>
  BY <1>1 DEF InnerKey
<1>2. CASE key # << >>
  BY <1>2, PaddedIsBytes, PadAssumption DEF InnerKey
<1> QED BY <1>1, <1>2

\* The next piece follows what has been taken.
LEMMA PieceFollows ==
    ASSUME NEW t \in Seq(Byte), NEW i \in Nat, NEW n \in Nat, i + n <= Len(t)
    PROVE  /\ SubSeq(t, i + 1, i + n) \in Seq(Byte) /\ SubSeq(t, 1, i) \in Seq(Byte)
           /\ SubSeq(t, 1, i) \o SubSeq(t, i + 1, i + n) = SubSeq(t, 1, i + n)
<1>1. Len(t) \in Nat /\ \A k \in 1 .. Len(t) : t[k] \in Byte
  OBVIOUS
<1>2. SubSeq(t, i + 1, i + n) \in Seq(Byte) /\ SubSeq(t, 1, i) \in Seq(Byte)
  <2>1. \A k \in i + 1 .. i + n : t[k] \in Byte
    BY <1>1
  <2>2. \A k \in 1 .. i : t[k] \in Byte
    BY <1>1
  <2> QED BY <2>1, <2>2, SubSeqProperties
<1>3. 1 \in 1 .. Len(t) + 1 /\ i \in 1 - 1 .. Len(t) /\ i + n \in i .. Len(t)
  BY <1>1
<1> QED BY <1>2, <1>3, ConcatAdjacentSubSeq

\* Concatenation is associative.
LEMMA InTurn ==
    ASSUME NEW p \in Seq(Byte), NEW t \in Seq(Byte), NEW u \in Seq(Byte)
    PROVE  (p \o t) \o u = p \o (t \o u)
  BY ConcatAssociative

\* Replacing the hasher of an object replaces just that.
LEMMA ResetObject ==
    ASSUME NEW o, NEW h, NEW g, o \in [hasher : {h}]
    PROVE  [o EXCEPT !.hasher = g] \in [hasher : {g}] /\ o.hasher = h
  OBVIOUS

\* The hasher of an object is the one it was said to have.
LEMMA ObjectHasher == ASSUME NEW o, NEW key, NEW h, Object(o, key, h) PROVE o.hasher = h
<1>1. CASE key = << >>
  BY <1>1 DEF Object
<1>2. CASE key # << >>
  <2>1. Hmac(o, key, h)
    BY <1>2 DEF Object
  <2> QED BY <2>1, HmacUpdates
<1> QED BY <1>1, <1>2

\* An update of an object, hash or HMAC, updates its hasher.
LEMMA ObjectUpdates ==
    ASSUME NEW o, NEW key, NEW h, Object(o, key, h), NEW w
    PROVE  Object(hmacUpdate(o, w), key, update(h, w))
<1>1. o.hasher = h
  BY ObjectHasher
<1>2. CASE key = << >>
  <2> DEFINE g == update(o.hasher, w)
  <2>1. o \in [hasher : {h}] /\ hmacUpdate(o, w) = [o EXCEPT !.hasher = g]
    BY <1>2 DEF Object, hmacUpdate
  <2> HIDE DEF g
  <2>2. hmacUpdate(o, w) \in [hasher : {g}]
    BY <2>1, ResetObject
  <2> QED BY <2>2, <1>1, <1>2 DEF g, Object
<1>3. CASE key # << >>
  BY <1>3, HmacUpdates DEF Object
<1> QED BY <1>2, <1>3

\* A new object, and one that has been reset.
LEMMA NewObject ==
    ASSUME CompressGivesWords, job \in Jobs
    PROVE  \E h : Object(NewMac, job.secret, h) /\ Absorbed(h, InnerKey(job.secret))
<1>1. CASE job.secret = << >>
  <2> DEFINE n == NewHash
  <2> HIDE DEF n
  <2>1. NewMac = [hasher |-> n]
    BY <1>1 DEF NewMac, n
  <2>2. NewMac \in [hasher : {n}]
    BY <2>1
  <2> QED BY <2>2, <1>1, NewAbsorbed DEF Object, InnerKey, n
<1>2. CASE job.secret # << >>
  <2> DEFINE a == Padded(job.secret, IPad)
  <2>1. job.secret \in Seq(Byte) /\ a \in Seq(Byte)
    BY JobFacts, PaddedIsBytes, PadAssumption
  <2>2. Hmac(NewMac, job.secret, update(NewHash, Create(a)))
    BY <2>1, <1>2, HmacStarts DEF NewMac
  <2>3. Absorbed(update(NewHash, Create(a)), a)
    <3> HIDE DEF a
    <3> QED BY <2>1, CreateRep, UpdatedOf
  <2> QED BY <2>2, <2>3, <1>2 DEF Object, InnerKey
<1> QED BY <1>1, <1>2

\* An object that is reset has absorbed what goes before the message only.
LEMMA AgainObject ==
    ASSUME CompressGivesWords, NEW o, NEW key \in Seq(Byte), Object(o, key, o.hasher), NEW u,
           u = IF key = << >> THEN [o EXCEPT !.hasher = NewHash] ELSE hmacReset(o)
    PROVE  \E h : Object(u, key, h) /\ Absorbed(h, InnerKey(key))
<1>1. CASE key = << >>
  <2> DEFINE n == NewHash
  <2> HIDE DEF n
  <2>1. u = [o EXCEPT !.hasher = n] /\ o \in [hasher : {o.hasher}]
    BY <1>1 DEF n, Object
  <2>2. u \in [hasher : {n}]
    BY <2>1, ResetObject
  <2> QED BY <2>2, <1>1, NewAbsorbed DEF Object, InnerKey, n
<1>2. CASE key # << >>
  <2> DEFINE a == Padded(key, IPad)
  <2>1. a \in Seq(Byte)
    BY PaddedIsBytes, PadAssumption
  <2>2. Hmac(u, key, update(NewHash, Create(a)))
    BY <1>2, ResetHmac DEF Object
  <2>3. Absorbed(update(NewHash, Create(a)), a)
    <3> HIDE DEF a
    <3> QED BY <2>1, CreateRep, UpdatedOf
  <2> QED BY <2>2, <2>3, <1>2 DEF Object, InnerKey
<1> QED BY <1>1, <1>2

\* The invariant holds at first.
LEMMA MacInit == ASSUME CompressGivesWords PROVE Init => MacInv
<1> SUFFICES ASSUME Init PROVE MacInv
  OBVIOUS
<1>1. job \in Jobs /\ pos = 0 /\ stage # "hashed" /\ (stage = "hash" => job.use = "hash" /\ mac = NewMac)
  BY JobAssumption DEF Init, Job
<1>2. ASSUME stage = "hash"
      PROVE  /\ pos \in 0 .. Len(job.text) /\ Object(mac, job.secret, mac.hasher)
             /\ Absorbed(mac.hasher, InnerKey(job.secret) \o SubSeq(job.text, 1, pos))
  <2>1. PICK h : Object(mac, job.secret, h) /\ Absorbed(h, InnerKey(job.secret))
    BY <1>1, <1>2, NewObject
  <2>2. mac.hasher = h
    BY <2>1, ObjectHasher
  <2>3. SubSeq(job.text, 1, 0) = << >>
    BY SubSeqEmpty
  <2>4. InnerKey(job.secret) \o << >> = InnerKey(job.secret)
    BY <1>1, JobFacts, InnerKeyIsBytes, ConcatEmptySeq
  <2>5. pos \in 0 .. Len(job.text)
    BY <1>1, JobFacts
  <2>6. Object(mac, job.secret, mac.hasher)
    BY <2>1, <2>2
  <2>7. InnerKey(job.secret) \o SubSeq(job.text, 1, pos) = InnerKey(job.secret)
    BY <1>1, <2>3, <2>4
  <2>8. Absorbed(mac.hasher, InnerKey(job.secret) \o SubSeq(job.text, 1, pos))
    BY <2>1, <2>2, <2>7
  <2> QED BY <2>5, <2>6, <2>8
<1> QED BY <1>1, <1>2 DEF MacInv

\* HashPiece: one piece more has been absorbed.
LEMMA MacPiece ==
    ASSUME CompressGivesWords, MacInv, NEW n \in Sizes, HashPiece(n)
    PROVE  MacInv'
<1> DEFINE t == job.text
           key == job.secret
           F == InnerKey(key)
           p == SubSeq(t, pos + 1, pos + n)
           A == SubSeq(t, 1, pos)
           w == Clean(t, n)
           h == mac.hasher
<1>1. /\ job \in Jobs /\ pos \in 0 .. Len(t) /\ Object(mac, key, h) /\ Absorbed(h, F \o A)
      /\ pos + n <= Len(t) /\ n \in Nat /\ t \in Seq(Byte) /\ key \in Seq(Byte)
      /\ pos \in Nat /\ Len(t) \in Nat
      /\ stage = "hash"
  BY JobFacts, SizesAssumption DEF MacInv, HashPiece
<1>2. mac' = hmacUpdate(mac, w) /\ pos' = pos + n /\ job' = job /\ stage' = "hash"
  BY DEF HashPiece
<1>3. F \in Seq(Byte)
  BY <1>1, InnerKeyIsBytes
<1>4. p \in Seq(Byte) /\ A \in Seq(Byte) /\ A \o p = SubSeq(t, 1, pos + n)
  BY <1>1, PieceFollows
<1>5. w = Create(p)
  BY DEF Clean
<1> HIDE DEF t, key, F, p, A, w, h
<1>6. Rep(w, p)
  BY <1>4, <1>5, CreateRep
<1>7. F \o A \in Seq(Byte) /\ (F \o A) \o p = F \o (A \o p)
  <2>1. F \o A \in Seq(Byte)
    BY <1>3, <1>4, TwoLong
  <2>2. (F \o A) \o p = F \o (A \o p)
    BY <1>3, <1>4, InTurn
  <2> QED BY <2>1, <2>2
<1>8. Absorbed(update(h, w), F \o (A \o p))
  <2>1. Absorbed(update(h, w), (F \o A) \o p)
    BY <1>1, <1>4, <1>6, <1>7, UpdateAbsorbs
  <2> QED BY <2>1, <1>7
<1>9. Object(mac', key, update(h, w)) /\ mac'.hasher = update(h, w)
  BY <1>1, <1>2, ObjectUpdates, ObjectHasher
<1>10. pos' \in 0 .. Len(t)
  BY <1>1, <1>2
<1>11. /\ job' \in Jobs /\ stage' = "hash" /\ pos' \in 0 .. Len(job'.text)
       /\ Object(mac', job'.secret, mac'.hasher)
       /\ Absorbed(mac'.hasher, InnerKey(job'.secret) \o SubSeq(job'.text, 1, pos'))
  BY <1>1, <1>2, <1>4, <1>8, <1>9, <1>10 DEF t, key, F
<1> QED BY <1>11 DEF MacInv

\* HashRest: the rest is absorbed, and the result is that of the whole.
LEMMA MacRest ==
    ASSUME CompressGivesWords, MacInv, HashRest
    PROVE  MacInv'
<1> DEFINE t == job.text
           key == job.secret
           F == InnerKey(key)
           n == Len(t) - pos
           p == SubSeq(t, pos + 1, pos + n)
           A == SubSeq(t, 1, pos)
           w == Clean(t, n)
           h == mac.hasher
<1>1. /\ job \in Jobs /\ pos \in 0 .. Len(t) /\ Object(mac, key, h) /\ Absorbed(h, F \o A)
      /\ t \in Seq(Byte) /\ key \in Seq(Byte) /\ pos \in Nat /\ Len(t) \in Nat
  BY JobFacts DEF MacInv, HashRest
<1>2. /\ mac' = (IF key = << >> THEN [mac EXCEPT !.hasher = finalize(@, w)] ELSE hmacFinalize(mac, w))
      /\ pos' = 0 /\ job' = job /\ stage' = "hashed"
  BY DEF HashRest
<1>3. F \in Seq(Byte)
  BY <1>1, InnerKeyIsBytes
<1>n. n \in Nat /\ pos + n = Len(t)
  BY <1>1
<1>4. p \in Seq(Byte) /\ A \in Seq(Byte) /\ A \o p = t
  <2> HIDE DEF n
  <2>1. p \in Seq(Byte) /\ A \in Seq(Byte) /\ A \o p = SubSeq(t, 1, pos + n)
    BY <1>1, <1>n, PieceFollows
  <2>2. SubSeq(t, 1, Len(t)) = t
    BY <1>1, SubSeqFull
  <2> QED BY <2>1, <2>2, <1>n
<1>5. w = Create(p)
  BY DEF Clean
<1> HIDE DEF t, key, F, n, p, A, w, h
<1>6. Rep(w, p)
  BY <1>4, <1>5, CreateRep
<1>7. CASE key = << >>
  <2>1. F = << >> /\ F \o A = A
    BY <1>7, <1>4, ConcatEmptySeq DEF F, InnerKey
  <2> DEFINE g == finalize(h, w)
  <2>7. Absorbed(h, A)
    BY <1>1, <2>1
  <2>2. g.hash = Digest(A \o p) /\ IsWords(g.data)
    BY <1>4, <1>6, <2>7, FinalizeDigests
  <2>3. mac' = [mac EXCEPT !.hasher = g] /\ mac \in [hasher : {h}]
    BY <1>1, <1>2, <1>7 DEF Object
  <2> HIDE DEF g
  <2>4. mac' \in [hasher : {g}]
    BY <2>3, ResetObject
  <2>5. Object(mac', key, g) /\ mac'.hasher = g
    BY <2>4, <1>7, ObjectHasher DEF Object
  <2>6. mac'.hasher.hash = Digest(t)
    BY <2>2, <2>5, <1>4
  <2> QED BY <1>1, <1>2, <1>7, <2>2, <2>5, <2>6 DEF MacInv, MacIsFunction, key, t, h
<1>8. CASE key # << >>
  <2>1. F = Padded(key, IPad) /\ Hmac(mac, key, h)
    BY <1>1, <1>8 DEF F, InnerKey, Object
  <2>2. PICK g : Hmac(mac', key, g) /\ g.hash = Mac(key, A \o p) /\ IsWords(g.data)
    <3>1. Absorbed(h, Padded(key, IPad) \o A)
      BY <1>1, <2>1
    <3>2. mac' = hmacFinalize(mac, w)
      BY <1>2, <1>8
    <3>3. \E g : Hmac(hmacFinalize(mac, w), key, g) /\ g.hash = Mac(key, A \o p) /\ IsWords(g.data)
      <4>1. A \in Seq(Byte) /\ p \in Seq(Byte) /\ key \in Seq(Byte)
        BY <1>1, <1>4
      <4>2. Hmac(mac, key, h)
        BY <2>1
      <4> QED BY <4>1, <4>2, <1>6, <3>1, HmacFinalizes
    <3> QED BY <3>2, <3>3
  <2>3. Object(mac', key, g) /\ mac'.hasher = g
    BY <2>2, <1>8, ObjectHasher DEF Object
  <2>4. mac'.hasher.hash = Mac(key, t)
    BY <2>2, <2>3, <1>4
  <2> QED BY <1>1, <1>2, <1>8, <2>2, <2>3, <2>4 DEF MacInv, MacIsFunction, key, t
<1> QED BY <1>7, <1>8

\* ResetMac: the object starts over.
LEMMA MacReset ==
    ASSUME CompressGivesWords, MacInv, ResetMac
    PROVE  MacInv'
<1>1. job \in Jobs /\ pos = 0 /\ Object(mac, job.secret, mac.hasher)
  BY DEF MacInv, ResetMac
<1>2. /\ mac' = (IF job.secret = << >> THEN [mac EXCEPT !.hasher = NewHash] ELSE hmacReset(mac))
      /\ pos' = pos /\ job' = job /\ stage' = "hash"
  BY DEF ResetMac
<1>3. job.secret \in Seq(Byte) /\ job.text \in Seq(Byte) /\ Len(job.text) \in Nat
  BY <1>1, JobFacts
<1>4. PICK h : Object(mac', job.secret, h) /\ Absorbed(h, InnerKey(job.secret))
  BY <1>1, <1>2, <1>3, AgainObject
<1>5. mac'.hasher = h
  BY <1>4, ObjectHasher
<1>6. InnerKey(job.secret) \o SubSeq(job.text, 1, 0) = InnerKey(job.secret)
  BY <1>3, InnerKeyIsBytes, ConcatEmptySeq, SubSeqEmpty
<1>7. Absorbed(mac'.hasher, InnerKey(job'.secret) \o SubSeq(job'.text, 1, pos'))
  <2>1. pos' = 0 /\ job' = job
    BY <1>1, <1>2
  <2>2. Absorbed(mac'.hasher, InnerKey(job.secret) \o SubSeq(job.text, 1, 0))
    BY <1>4, <1>5, <1>6
  <2> QED BY <2>1, <2>2
<1>8. Object(mac', job'.secret, mac'.hasher)
  BY <1>2, <1>4, <1>5
<1>9. pos' \in 0 .. Len(job'.text) /\ job' \in Jobs
  BY <1>1, <1>2, <1>3
<1> QED BY <1>2, <1>7, <1>8, <1>9 DEF MacInv

\* Steps of the ciphers and of key derivation leave hashing alone.
LEMMA MacElsewhere ==
    ASSUME MacInv, job' = job, stage' \notin {"hash", "hashed"} \/ UNCHANGED <<stage, pos, mac>>
    PROVE  MacInv'
<1>1. CASE stage' \notin {"hash", "hashed"}
  BY <1>1 DEF MacInv
<1>2. CASE UNCHANGED <<stage, pos, mac>>
  BY <1>2 DEF MacInv, MacIsFunction
<1> QED BY <1>1, <1>2

\* Every step keeps the invariant.
LEMMA MacNext == ASSUME CompressGivesWords, MacInv, [Next]_vars PROVE MacInv'
<1>1. CASE CreateEncryptor \/ EncryptRest \/ CreateDecryptor \/ DecryptRest \/ ResetEncryptor \/ DeriveKey
  <2>1. job' = job /\ stage' \notin {"hash", "hashed"}
    BY <1>1 DEF CreateEncryptor, EncryptRest, CreateDecryptor, DecryptRest, ResetEncryptor, DeriveKey
  <2> QED BY <2>1, MacElsewhere
<1>2. ASSUME NEW n \in Sizes, EncryptPiece(n) \/ DecryptPiece(n) PROVE MacInv'
  <2>1. job' = job /\ stage' \notin {"hash", "hashed"}
    BY <1>2 DEF EncryptPiece, DecryptPiece
  <2> QED BY <2>1, MacElsewhere
<1>3. CASE UNCHANGED vars
  BY <1>3, MacElsewhere DEF vars
<1> QED BY <1>1, <1>2, <1>3, MacPiece, MacRest, MacReset DEF Next

\* However a message is cut up, and also with an object that has been reset, the
\* hash or the HMAC is that of the whole message (hasher.js _process and finalize,
\* hmac.js): for every hash whose rounds give a word.
THEOREM AlwaysMac == ASSUME CompressGivesWords PROVE Spec => []MacIsFunction
<1>1. Init => MacInv
  BY MacInit
<1>2. MacInv /\ [Next]_vars => MacInv'
  BY MacNext
<1>3. MacInv => MacIsFunction
  <2>1. CASE stage = "hashed"
    BY <2>1 DEF MacInv
  <2>2. CASE stage # "hashed"
    BY <2>2 DEF MacIsFunction
  <2> QED BY <2>1, <2>2
<1> QED BY <1>1, <1>2, <1>3, PTL DEF Spec

-----------------------------------------------------------------------------
\* Key derivation: EVP.

\* Three sequences in a row.
LEMMA FlattenThree ==
    ASSUME NEW q, Len(q) = 3
    PROVE  FlattenSeq(q) = (q[1] \o q[2]) \o q[3]
<1> DEFINE Is(f) == f = [i \in 1 .. 3 |-> IF i = 1 THEN q[i] ELSE f[i - 1] \o q[i]]
           f == CHOOSE a : Is(a)
           x == q[1] \o q[2]
           y == x \o q[3]
           g == [i \in 1 .. 3 |-> IF i = 1 THEN q[1] ELSE IF i = 2 THEN x ELSE y]
<1>1. FlattenSeq(q) = f[3]
  BY DEF FlattenSeq
<1>2. Is(g)
  <2>1. ASSUME NEW i \in 1 .. 3 PROVE g[i] = IF i = 1 THEN q[i] ELSE g[i - 1] \o q[i]
    <3>1. i = 1 \/ i = 2 \/ i = 3
      OBVIOUS
    <3>2. g[1] = q[1] /\ g[2] = x /\ g[3] = y /\ 2 - 1 = 1 /\ 3 - 1 = 2
      OBVIOUS
    <3> QED BY <3>1, <3>2
  <2> QED BY <2>1
<1>3. Is(f)
  <2> HIDE DEF Is, g
  <2> QED BY <1>2
<1> HIDE DEF f
<1>4. f[1] = q[1] /\ f[2] = f[1] \o q[2] /\ f[3] = f[2] \o q[3]
  <2>1. \A i \in 1 .. 3 : f[i] = IF i = 1 THEN q[i] ELSE f[i - 1] \o q[i]
    BY <1>3
  <2>2. 1 \in 1 .. 3 /\ 2 \in 1 .. 3 /\ 3 \in 1 .. 3 /\ 2 - 1 = 1 /\ 3 - 1 = 2 /\ 2 # 1 /\ 3 # 1
    OBVIOUS
  <2> HIDE DEF Is, g
  <2> QED BY ONLY <2>1, <2>2
<1> QED BY <1>1, <1>4

\* One part of EvpKDF: a hasher that has absorbed x takes password and salt.
LEMMA EvpPart ==
    ASSUME NEW pw \in Seq(Byte), NEW s \in Seq(Byte), NEW x \in Seq(Byte), NEW h, Absorbed(h, x)
    PROVE  finalize(update(h, Create(pw)), Create(s)).hash = Digest((x \o pw) \o s)
<1>1. Absorbed(update(h, Create(pw)), x \o pw)
  BY CreateRep, UpdateAbsorbs
<1>2. x \o pw \in Seq(Byte)
  OBVIOUS
<1> QED BY <1>1, <1>2, CreateRep, FinalizeDigests

\* Whole words are put into words as they are.
LEMMA WholeWords ==
    ASSUME NEW p \in Seq(Byte), Len(p) % WordBytes = 0
    PROVE  Create(p).words = p
<1>1. Up(Len(p)) - Len(p) = 0 /\ Len(p) \in Nat
  BY UpFacts
<1>2. Zeros(0) = << >> /\ p \o << >> = p
  BY DEF Zeros
<1> QED BY <1>1, <1>2 DEF Create

\* Three words in a row.
LEMMA ThreeWords ==
    ASSUME NEW a \in Seq(Byte), NEW b \in Seq(Byte), NEW c \in Seq(Byte),
           Len(a) = WordBytes, Len(b) = WordBytes, Len(c) = WordBytes
    PROVE  Create((a \o b) \o c).words = (a \o b) \o c
<1> DEFINE p == (a \o b) \o c
<1>1. a \o b \in Seq(Byte) /\ Len(a \o b) = WordBytes + WordBytes
  BY TwoLong
<1>2. p \in Seq(Byte) /\ Len(p) = (WordBytes + WordBytes) + WordBytes
  BY <1>1, TwoLong
<1>3. Len(p) % WordBytes = 0
  <2>1. WordBytes \in Nat /\ WordBytes > 0 /\ (WordBytes + WordBytes) + WordBytes = 3 * WordBytes + 0
    BY Sizes3
  <2>2. (3 * WordBytes + 0) % WordBytes = 0
    BY <2>1, DivIs
  <2> HIDE DEF p
  <2> QED BY <1>2, <2>1, <2>2
<1> HIDE DEF p
<1>4. Create(p).words = p
  BY <1>2, <1>3, WholeWords
<1> QED BY <1>4 DEF p

\* what EvpKDF does for the k-th part
EvpStep(P, T, k, r) ==
    LET hasher == IF k = 1 THEN r.hasher ELSE update(r.hasher, Create(r.block))
        block == finalize(update(hasher, P), T).hash
    IN  [hasher |-> NewHash, block |-> block, key |-> r.key \o block]

\* Three steps, and the digests they take.
EvpChain(P, T, pw, s, e, e1, e2, e3, d1, d2, d3) ==
    /\ P = Create(pw) /\ T = Create(s) /\ e.hasher = NewHash /\ e.key = << >>
    /\ e1 = EvpStep(P, T, 1, e) /\ e2 = EvpStep(P, T, 2, e1) /\ e3 = EvpStep(P, T, 3, e2)
    /\ d1 = Digest((<< >> \o pw) \o s) /\ d2 = Digest((d1 \o pw) \o s) /\ d3 = Digest((d2 \o pw) \o s)

\* Three parts give the three words of the key.
LEMMA EvpSteps ==
    ASSUME CompressGivesWords, NEW pw \in Seq(Byte), NEW s \in Seq(Byte),
           NEW P, NEW T, NEW e, NEW e1, NEW e2, NEW e3, NEW d1, NEW d2, NEW d3,
           EvpChain(P, T, pw, s, e, e1, e2, e3, d1, d2, d3)
    PROVE  Create(e3.key).words = (d1 \o d2) \o d3
<1> USE DEF EvpChain
<1>1. << >> \in Seq(Byte) /\ \A x \in Seq(Byte) : (x \o pw) \o s \in Seq(Byte)
  OBVIOUS
<1>2. d1 \in Seq(Byte) /\ Len(d1) = WordBytes
  BY <1>1, DigestIsWord
<1>3. d2 \in Seq(Byte) /\ Len(d2) = WordBytes
  BY <1>1, <1>2, DigestIsWord
<1>4. d3 \in Seq(Byte) /\ Len(d3) = WordBytes
  BY <1>1, <1>3, DigestIsWord
<1>5. finalize(update(NewHash, P), T).hash = d1
  BY <1>1, NewAbsorbed, EvpPart
<1>6. e1.hasher = NewHash /\ e1.block = d1 /\ e1.key = << >> \o d1
  <2>1. finalize(update(e.hasher, P), T).hash = d1
    BY <1>5
  <2>2. e1 = [hasher |-> NewHash, block |-> d1, key |-> e.key \o d1]
    BY ONLY <2>1, EvpChain(P, T, pw, s, e, e1, e2, e3, d1, d2, d3) DEF EvpStep, EvpChain
  <2> QED BY <2>2
<1>7. \A x \in Seq(Byte) : finalize(update(update(NewHash, Create(x)), P), T).hash = Digest((x \o pw) \o s)
  BY CreateRep, UpdatedOf, EvpPart
<1>8. e2.hasher = NewHash /\ e2.block = d2 /\ e2.key = e1.key \o d2
  <2>1. finalize(update(update(e1.hasher, Create(e1.block)), P), T).hash = d2
    BY <1>2, <1>6, <1>7
  <2>2. 2 # 1
    OBVIOUS
  <2>3. e2 = [hasher |-> NewHash, block |-> d2, key |-> e1.key \o d2]
    BY ONLY <2>1, <2>2, EvpChain(P, T, pw, s, e, e1, e2, e3, d1, d2, d3) DEF EvpStep, EvpChain
  <2> QED BY <2>3
<1>9. e3.key = e2.key \o d3
  <2>1. finalize(update(update(e2.hasher, Create(e2.block)), P), T).hash = d3
    BY <1>3, <1>7, <1>8
  <2>2. 3 # 1
    OBVIOUS
  <2>3. e3 = [hasher |-> NewHash, block |-> d3, key |-> e2.key \o d3]
    BY ONLY <2>1, <2>2, EvpChain(P, T, pw, s, e, e1, e2, e3, d1, d2, d3) DEF EvpStep, EvpChain
  <2> QED BY <2>3
<1>10. << >> \o d1 = d1
  BY <1>2, ConcatEmptySeq
<1>11. e3.key = (d1 \o d2) \o d3
  BY <1>6, <1>8, <1>9, <1>10
<1>12. Create((d1 \o d2) \o d3).words = (d1 \o d2) \o d3
  BY ONLY <1>2, <1>3, <1>4, ThreeWords
<1> QED BY <1>11, <1>12

\* The key of EvpKDF is three digests, each of the one before and the rest.
LEMMA EvpIsFunction ==
    ASSUME CompressGivesWords, NEW pw \in Seq(Byte), NEW s \in Seq(Byte)
    PROVE  EvpKDF(Create(pw), Create(s), KeyWords).words = EvpKey(pw, s)
<1> DEFINE P == Create(pw)
           T == Create(s)
           e == [hasher |-> NewHash, block |-> << >>, key |-> << >>]
           Is(f) == f = [k \in 0 .. 3 |-> IF k = 0 THEN e ELSE EvpStep(P, T, k, f[k - 1])]
           f == CHOOSE a : Is(a)
           e1 == EvpStep(P, T, 1, e)
           e2 == EvpStep(P, T, 2, e1)
           e3 == EvpStep(P, T, 3, e2)
           g == [k \in 0 .. 3 |-> IF k = 0 THEN e ELSE IF k = 1 THEN e1 ELSE IF k = 2 THEN e2 ELSE e3]
           IsD(d) == d = [k \in 0 .. 3 |-> IF k = 0 THEN << >> ELSE Digest((d[k - 1] \o pw) \o s)]
           d == CHOOSE a : IsD(a)
           d1 == Digest((<< >> \o pw) \o s)
           d2 == Digest((d1 \o pw) \o s)
           d3 == Digest((d2 \o pw) \o s)
           c == [k \in 0 .. 3 |-> IF k = 0 THEN << >> ELSE IF k = 1 THEN d1 ELSE IF k = 2 THEN d2 ELSE d3]
<1>1. EvpKDF(P, T, KeyWords) = Create(f[3].key)
  BY DEF EvpKDF, KeyWords, EvpStep
<1>2. f[3] = e3
  <2> HIDE DEF e, P, T
  <2>1. Is(g)
    <3>1. ASSUME NEW k \in 0 .. 3 PROVE g[k] = IF k = 0 THEN e ELSE EvpStep(P, T, k, g[k - 1])
      <4>1. k = 0 \/ k = 1 \/ k = 2 \/ k = 3
        OBVIOUS
      <4> HIDE DEF e1, e2, e3
      <4>2. g[0] = e /\ g[1] = e1 /\ g[2] = e2 /\ g[3] = e3 /\ 1 - 1 = 0 /\ 2 - 1 = 1 /\ 3 - 1 = 2
        OBVIOUS
      <4>3. e1 = EvpStep(P, T, 1, e) /\ e2 = EvpStep(P, T, 2, e1) /\ e3 = EvpStep(P, T, 3, e2)
        BY DEF e1, e2, e3
      <4> HIDE DEF g
      <4> QED BY <4>1, <4>2, <4>3
    <3> HIDE DEF e1, e2, e3
    <3> QED BY <3>1
  <2>2. Is(f)
    <3> HIDE DEF Is, g
    <3> QED BY <2>1
  <2> HIDE DEF f
  <2>3. /\ f[0] = e /\ f[1] = EvpStep(P, T, 1, f[0])
        /\ f[2] = EvpStep(P, T, 2, f[1]) /\ f[3] = EvpStep(P, T, 3, f[2])
    <3> HIDE DEF e1, e2, e3
    <3> QED BY <2>2
  <2> QED BY <2>3
<1>3. d[1] = d1 /\ d[2] = d2 /\ d[3] = d3
  <2>1. IsD(c)
    <3>1. ASSUME NEW k \in 0 .. 3 PROVE c[k] = IF k = 0 THEN << >> ELSE Digest((c[k - 1] \o pw) \o s)
      <4>1. k = 0 \/ k = 1 \/ k = 2 \/ k = 3
        OBVIOUS
      <4> HIDE DEF d1, d2, d3
      <4>2. c[0] = << >> /\ c[1] = d1 /\ c[2] = d2 /\ c[3] = d3 /\ 1 - 1 = 0 /\ 2 - 1 = 1 /\ 3 - 1 = 2
        OBVIOUS
      <4>3. d1 = Digest((<< >> \o pw) \o s) /\ d2 = Digest((d1 \o pw) \o s) /\ d3 = Digest((d2 \o pw) \o s)
        BY DEF d1, d2, d3
      <4> HIDE DEF c
      <4> QED BY <4>1, <4>2, <4>3
    <3> HIDE DEF d1, d2, d3
    <3> QED BY <3>1
  <2>2. IsD(d)
    <3> HIDE DEF IsD, c
    <3> QED BY <2>1
  <2> HIDE DEF d
  <2>3. d[0] = << >> /\ d[1] = Digest((d[0] \o pw) \o s) /\ d[2] = Digest((d[1] \o pw) \o s)
        /\ d[3] = Digest((d[2] \o pw) \o s)
    <3> HIDE DEF d1, d2, d3
    <3>1. \A k \in 0 .. 3 : d[k] = IF k = 0 THEN << >> ELSE Digest((d[k - 1] \o pw) \o s)
      BY <2>2
    <3>2. /\ 0 \in 0 .. 3 /\ 1 \in 0 .. 3 /\ 2 \in 0 .. 3 /\ 3 \in 0 .. 3
          /\ 1 - 1 = 0 /\ 2 - 1 = 1 /\ 3 - 1 = 2 /\ 1 # 0 /\ 2 # 0 /\ 3 # 0
      OBVIOUS
    <3> QED BY ONLY <3>1, <3>2
  <2> QED BY <2>3
<1>4. EvpKey(pw, s) = (d1 \o d2) \o d3
  <2> DEFINE q == [k \in 1 .. 3 |-> d[k]]
  <2>1. EvpKey(pw, s) = FlattenSeq(q)
    BY DEF EvpKey, KeyWords
  <2> HIDE DEF d, d1, d2, d3
  <2>2. Len(q) = 3 /\ q[1] = d1 /\ q[2] = d2 /\ q[3] = d3
    BY <1>3
  <2> HIDE DEF q
  <2> QED BY <2>1, <2>2, FlattenThree
<1> HIDE DEF f, d
<1>5. EvpChain(P, T, pw, s, e, e1, e2, e3, d1, d2, d3)
  BY DEF EvpChain
<1> HIDE DEF P, T, e, e1, e2, e3, d1, d2, d3
<1>6. Create(e3.key).words = (d1 \o d2) \o d3
  BY <1>5, EvpSteps
<1> QED BY <1>1, <1>2, <1>4, <1>6 DEF P, T

-----------------------------------------------------------------------------
\* Key derivation: PBKDF2.

\* PBKDF2: the first HMAC of a word, n of them, and what is done for the k-th word
PbFirst(o, S, k) == hmacFinalize(hmacUpdate(o, S), Create(Zeros(WordBytes - 1) \o <<k>>))
PbIter(first, n) ==
    LET it[j \in 1 .. n] ==
            IF j = 1 THEN [hmac |-> hmacReset(first), last |-> first.hasher.hash, block |-> first.hasher.hash]
            ELSE LET i == it[j - 1]
                     u == hmacFinalize(i.hmac, Create(i.last))
                 IN  [hmac |-> hmacReset(u), last |-> u.hasher.hash,
                      block |-> XorWords(i.block, u.hasher.hash)]
    IN  it[n]
PbStep(r, S, n, k) ==
    LET block == PbIter(PbFirst(r.hmac, S, k), n)
    IN  [hmac |-> block.hmac, key |-> r.key \o block.block]

\* Two iterations, as they are.
LEMMA PbIterTwo ==
    ASSUME NEW a, NEW m1, m1 = a.hasher.hash, NEW u, u = hmacFinalize(hmacReset(a), Create(m1)),
           NEW m2, m2 = u.hasher.hash, NEW b, b = PbIter(a, 2)
    PROVE  b.hmac = hmacReset(u) /\ b.block = XorWords(m1, m2)
<1> DEFINE Next2(i) == LET v == hmacFinalize(i.hmac, Create(i.last))
                       IN  [hmac |-> hmacReset(v), last |-> v.hasher.hash,
                            block |-> XorWords(i.block, v.hasher.hash)]
           x == [hmac |-> hmacReset(a), last |-> m1, block |-> m1]
           y == [hmac |-> hmacReset(u), last |-> m2, block |-> XorWords(m1, m2)]
           Is(f) == f = [j \in 1 .. 2 |-> IF j = 1 THEN x ELSE Next2(f[j - 1])]
           f == CHOOSE it : Is(it)
           g == [j \in 1 .. 2 |-> IF j = 1 THEN x ELSE y]
<1>1. b = f[2]
  BY DEF PbIter
<1>2. Next2(x) = y
  OBVIOUS
<1> HIDE DEF Next2, x, y
<1>3. Is(g)
  <2>1. \A j \in 1 .. 2 : g[j] = IF j = 1 THEN x ELSE Next2(g[j - 1])
    BY <1>2
  <2> QED BY <2>1
<1>4. Is(f)
  <2> HIDE DEF Is, g
  <2> QED BY <1>3
<1> HIDE DEF f
<1>5. f[1] = x /\ f[2] = Next2(f[1])
  <2>1. \A j \in 1 .. 2 : f[j] = IF j = 1 THEN x ELSE Next2(f[j - 1])
    BY <1>4
  <2>2. 1 \in 1 .. 2 /\ 2 \in 1 .. 2 /\ 2 # 1 /\ 2 - 1 = 1
    OBVIOUS
  <2> HIDE DEF Is, g
  <2> QED BY ONLY <2>1, <2>2
<1>6. b = y
  BY <1>1, <1>2, <1>5
<1> QED BY <1>6 DEF y

\* An HMAC that has been reset.
Ready(o, pw) == \E h : Hmac(o, pw, h) /\ Absorbed(h, Padded(pw, IPad))

\* An HMAC that has been reset is ready.
LEMMA ResetReady ==
    ASSUME CompressGivesWords, NEW pw \in Seq(Byte), NEW o, NEW h, Hmac(o, pw, h)
    PROVE  Ready(hmacReset(o), pw)
<1> DEFINE a == Padded(pw, IPad)
<1>1. a \in Seq(Byte)
  BY PaddedIsBytes, PadAssumption
<1> HIDE DEF a
<1>2. Absorbed(update(NewHash, Create(a)), a)
  BY <1>1, CreateRep, UpdatedOf
<1>3. Hmac(hmacReset(o), pw, update(NewHash, Create(a)))
  BY ResetHmac DEF a
<1> QED BY <1>2, <1>3 DEF Ready, a

\* An HMAC is a word of bytes.
LEMMA MacIsWord ==
    ASSUME CompressGivesWords, NEW pw \in Seq(Byte), NEW s \in Seq(Byte)
    PROVE  Mac(pw, s) \in Seq(Byte) /\ Len(Mac(pw, s)) = WordBytes
<1> DEFINE a == Padded(pw, IPad)
           b == Padded(pw, OPad)
<1>1. a \in Seq(Byte) /\ b \in Seq(Byte)
  BY PaddedIsBytes, PadAssumption
<1>2. Mac(pw, s) = Digest(b \o Digest(a \o s))
  BY MacIs
<1> HIDE DEF a, b
<1>3. a \o s \in Seq(Byte)
  BY <1>1, TwoLong
<1>4. Digest(a \o s) \in Seq(Byte)
  BY <1>3, DigestIsWord
<1>5. b \o Digest(a \o s) \in Seq(Byte)
  BY <1>1, <1>4, TwoLong
<1> QED BY <1>2, <1>5, DigestIsWord

\* An HMAC that is ready gives the HMAC of what it is finalized with.
LEMMA ReadyFinalizes ==
    ASSUME CompressGivesWords, NEW pw \in Seq(Byte), NEW o, Ready(o, pw),
           NEW w, NEW p \in Seq(Byte), Rep(w, p)
    PROVE  \E g : Hmac(hmacFinalize(o, w), pw, g) /\ g.hash = Mac(pw, p)
<1> DEFINE a == Padded(pw, IPad)
           e == << >>
<1>1. PICK h : Hmac(o, pw, h) /\ Absorbed(h, a)
  BY DEF Ready
<1>2. a \in Seq(Byte) /\ e \in Seq(Byte)
  <2>1. a \in Seq(Byte)
    BY PaddedIsBytes, PadAssumption
  <2>2. e \in Seq(Byte)
    OBVIOUS
  <2> QED BY <2>1, <2>2
<1>3. e \o p = p
  BY ConcatEmptySeq
<1>4. a \o e = a
  <2> HIDE DEF a
  <2> QED BY <1>2, ConcatEmptySeq
<1> HIDE DEF e
<1>5. Absorbed(h, a \o e)
  BY <1>1, <1>4
<1> HIDE DEF a
<1>6. \E g : Hmac(hmacFinalize(o, w), pw, g) /\ g.hash = Mac(pw, e \o p)
  BY <1>1, <1>2, <1>5, HmacFinalizes DEF a
<1> QED BY <1>3, <1>6

\* An HMAC that is ready, updated and finalized, gives the HMAC of both.
LEMMA ReadyUpdates ==
    ASSUME CompressGivesWords, NEW pw \in Seq(Byte), NEW o, Ready(o, pw), NEW s \in Seq(Byte),
           NEW w, NEW p \in Seq(Byte), Rep(w, p)
    PROVE  \E g : Hmac(hmacFinalize(hmacUpdate(o, Create(s)), w), pw, g) /\ g.hash = Mac(pw, s \o p)
<1> DEFINE a == Padded(pw, IPad)
           v == hmacUpdate(o, Create(s))
<1>1. PICK h : Hmac(o, pw, h) /\ Absorbed(h, a)
  BY DEF Ready
<1>2. a \in Seq(Byte)
  BY PaddedIsBytes, PadAssumption
<1>3. Hmac(v, pw, update(h, Create(s)))
  BY <1>1, HmacUpdates
<1> HIDE DEF v
<1>4. Absorbed(update(h, Create(s)), a \o s)
  <2> HIDE DEF a
  <2> QED BY <1>1, <1>2, CreateRep, UpdateAbsorbs
<1> QED BY <1>3, <1>4, HmacFinalizes DEF v

\* One word of the pw: two HMACs XORed, and the object is as it was.
LEMMA PbBlock ==
    ASSUME CompressGivesWords, NEW pw \in Seq(Byte), NEW s \in Seq(Byte), NEW k \in Byte,
           NEW o, Ready(o, pw), NEW m1, NEW m2,
           m1 = Mac(pw, (s \o Zeros(WordBytes - 1)) \o <<k>>), m2 = Mac(pw, m1),
           NEW b, b = PbIter(PbFirst(o, Create(s), k), 2)
    PROVE  Ready(b.hmac, pw) /\ b.block = XorWords(m1, m2)
<1> DEFINE z == Zeros(WordBytes - 1)
           p == z \o <<k>>
           a == PbFirst(o, Create(s), k)
           u == hmacFinalize(hmacReset(a), Create(m1))
<1>1. z \in Seq(Byte) /\ <<k>> \in Seq(Byte)
  BY Sizes3, ZerosSeq
<1>2. p \in Seq(Byte) /\ s \o p = (s \o z) \o <<k>> /\ s \o p \in Seq(Byte)
  <2> DEFINE q == <<k>>
  <2> HIDE DEF z, q
  <2>1. z \in Seq(Byte) /\ q \in Seq(Byte)
    BY <1>1 DEF q
  <2>2. (s \o z) \o q = s \o (z \o q)
    BY <2>1, InTurn
  <2>3. z \o q \in Seq(Byte)
    BY <2>1, TwoLong
  <2>4. s \o (z \o q) \in Seq(Byte)
    BY <2>3, TwoLong
  <2> QED BY <2>2, <2>3, <2>4 DEF q
<1>3. a = hmacFinalize(hmacUpdate(o, Create(s)), Create(p))
  BY DEF PbFirst
<1>4. m1 = Mac(pw, s \o p)
  BY <1>2
<1> HIDE DEF z, p, a
<1>5. PICK g : Hmac(a, pw, g) /\ g.hash = m1
  <2>1. p \in Seq(Byte) /\ Rep(Create(p), p)
    BY <1>2, CreateRep
  <2> DEFINE w == Create(p)
  <2> HIDE DEF w
  <2>2. \E g : Hmac(hmacFinalize(hmacUpdate(o, Create(s)), w), pw, g) /\ g.hash = Mac(pw, s \o p)
    BY <2>1, ReadyUpdates DEF w
  <2> QED BY <2>2, <1>3, <1>4 DEF w
<1>6. a.hasher.hash = m1
  BY <1>5, HmacUpdates
<1>7. m1 \in Seq(Byte)
  BY <1>2, <1>4, MacIsWord
<1>8. Ready(hmacReset(a), pw)
  BY <1>5, ResetReady
<1>9. PICK f : Hmac(u, pw, f) /\ f.hash = m2
  BY <1>7, <1>8, CreateRep, ReadyFinalizes
<1>10. u = hmacFinalize(hmacReset(a), Create(m1))
  OBVIOUS
<1> HIDE DEF u
<1>11. u.hasher.hash = m2
  BY <1>9, HmacUpdates
<1>12. b = PbIter(a, 2)
  BY DEF a
<1>13. b.hmac = hmacReset(u) /\ b.block = XorWords(m1, m2)
  BY <1>6, <1>10, <1>11, <1>12, PbIterTwo
<1>14. Ready(hmacReset(u), pw)
  BY <1>9, ResetReady
<1> QED BY <1>13, <1>14

\* u follows r, m and n are the two HMACs of the k-th word
PbPart(S, s, pw, k, r, u, m, n) ==
    /\ u = PbStep(r, S, 2, k) /\ S = Create(s)
    /\ m = Mac(pw, (s \o Zeros(WordBytes - 1)) \o <<k>>) /\ n = Mac(pw, m)

\* The indexes of the key's words are bytes.
LEMMA ThreeAreBytes == 1 \in Byte /\ 2 \in Byte /\ 3 \in Byte
<1>1. \A m, n \in Nat : m >= 2 /\ n >= 2 => m * n >= 4 /\ m * n \in Nat
  <2> SUFFICES ASSUME NEW m \in Nat, NEW n \in Nat, m >= 2, n >= 2 PROVE m * n >= 4 /\ m * n \in Nat
    OBVIOUS
  <2>1. 2 * n <= m * n /\ m * n \in Nat
    BY Times
  <2> QED BY <2>1
<1>2. Quarter \in Nat /\ Quarter >= 2
  BY SizeAssumption
<1>3. Quarter * Quarter >= 4 /\ Quarter * Quarter \in Nat
  BY <1>1, <1>2
<1>4. Quarter * Quarter * Quarter >= 4 /\ Quarter * Quarter * Quarter \in Nat
  BY <1>1, <1>2, <1>3
<1>5. Base >= 4 /\ Base \in Nat
  BY <1>1, <1>2, <1>4 DEF Base
<1> HIDE DEF Base
<1> QED BY <1>5 DEF Byte

\* Two words XORed are a word.
LEMMA XorIsBytes ==
    ASSUME NEW a \in Seq(Byte), NEW b \in Seq(Byte), Len(a) = WordBytes, Len(b) = WordBytes
    PROVE  XorWords(a, b) \in Seq(Byte) /\ Len(XorWords(a, b)) = WordBytes
<1>1. DOMAIN a = 1 .. WordBytes /\ DOMAIN b = 1 .. WordBytes /\ WordBytes \in Nat
  BY Sizes3
<1>2. \A i \in 1 .. WordBytes : Xor(a[i], b[i]) \in Byte
  BY <1>1, ByteAssumption
<1>3. XorWords(a, b) \in [1 .. WordBytes -> Byte]
  BY <1>1, <1>2 DEF XorWords
<1> QED BY <1>1, <1>3

\* One word of the key is derived: the HMAC is ready again, the key longer by that word.
LEMMA PbPartIs ==
    ASSUME CompressGivesWords, NEW pw \in Seq(Byte), NEW s \in Seq(Byte), NEW k \in Byte,
           NEW S, NEW r, NEW m, NEW n, NEW u, PbPart(S, s, pw, k, r, u, m, n), NEW o, Ready(o, pw), o = r.hmac
    PROVE  /\ Ready(u.hmac, pw) /\ u.key = r.key \o XorWords(m, n)
           /\ XorWords(m, n) \in Seq(Byte) /\ Len(XorWords(m, n)) = WordBytes
<1> USE DEF PbPart
<1> DEFINE b == PbIter(PbFirst(r.hmac, Create(s), k), 2)
<1>1. u = [hmac |-> b.hmac, key |-> r.key \o b.block]
  BY DEF PbStep
<1>2. Ready(b.hmac, pw) /\ b.block = XorWords(m, n)
  <2>1. b = PbIter(PbFirst(o, Create(s), k), 2) /\ Ready(o, pw)
    OBVIOUS
  <2> HIDE DEF b
  <2> QED BY <2>1, PbBlock
<1> HIDE DEF b
<1>4. u.hmac = b.hmac /\ u.key = r.key \o b.block
  BY ONLY <1>1
<1>3. XorWords(m, n) \in Seq(Byte) /\ Len(XorWords(m, n)) = WordBytes
  <2> DEFINE z == Zeros(WordBytes - 1)
             q == <<k>>
  <2>1. z \in Seq(Byte) /\ q \in Seq(Byte)
    BY Sizes3, ZerosSeq
  <2>2. m = Mac(pw, (s \o z) \o q)
    OBVIOUS
  <2> HIDE DEF z, q
  <2>3. s \o z \in Seq(Byte)
    BY <2>1, TwoLong
  <2>4. (s \o z) \o q \in Seq(Byte)
    BY <2>1, <2>3, TwoLong
  <2>5. m \in Seq(Byte) /\ Len(m) = WordBytes
    BY <2>2, <2>4, MacIsWord
  <2>6. n \in Seq(Byte) /\ Len(n) = WordBytes
    BY <2>5, MacIsWord
  <2> QED BY <2>5, <2>6, XorIsBytes
<1> QED BY ONLY <1>2, <1>3, <1>4

\* a step whose HMAC is ready
PbReady(r, pw) == Ready(r.hmac, pw)

\* After one word the HMAC is ready for the next.
LEMMA PbReadyOn ==
    ASSUME CompressGivesWords, NEW pw \in Seq(Byte), NEW s \in Seq(Byte), NEW k \in Byte,
           NEW S, NEW r, NEW m, NEW n, NEW u, PbPart(S, s, pw, k, r, u, m, n), PbReady(r, pw)
    PROVE  PbReady(u, pw)
  BY PbPartIs DEF PbReady

\* The key grows by the XOR of the two HMACs.
LEMMA PbKeyOn ==
    ASSUME CompressGivesWords, NEW pw \in Seq(Byte), NEW s \in Seq(Byte), NEW k \in Byte,
           NEW S, NEW r, NEW m, NEW n, NEW u, PbPart(S, s, pw, k, r, u, m, n), PbReady(r, pw)
    PROVE  /\ u.key = r.key \o XorWords(m, n)
           /\ XorWords(m, n) \in Seq(Byte) /\ Len(XorWords(m, n)) = WordBytes
  BY PbPartIs DEF PbReady

\* r3 has three words more than r
PbThree(r, r3, x1, x2, x3) ==
    /\ r3.key = ((r.key \o x1) \o x2) \o x3
    /\ Create((x1 \o x2) \o x3).words = (x1 \o x2) \o x3 /\ x1 \in Seq(Byte)

\* Three words, one after the other, with the one HMAC.
LEMMA PbSteps ==
    ASSUME CompressGivesWords, NEW s \in Seq(Byte), NEW pw \in Seq(Byte),
           NEW S, NEW r, NEW r1, NEW r2, NEW r3, NEW m1, NEW m2, NEW m3, NEW n1, NEW n2, NEW n3,
           PbReady(r, pw),
           NEW k1 \in Byte, PbPart(S, s, pw, k1, r, r1, m1, n1),
           NEW k2 \in Byte, PbPart(S, s, pw, k2, r1, r2, m2, n2),
           NEW k3 \in Byte, PbPart(S, s, pw, k3, r2, r3, m3, n3)
    PROVE  PbThree(r, r3, XorWords(m1, n1), XorWords(m2, n2), XorWords(m3, n3))
<1> DEFINE x1 == XorWords(m1, n1)
           x2 == XorWords(m2, n2)
           x3 == XorWords(m3, n3)
<1>1. PbReady(r1, pw)
  BY PbReadyOn
<1>2. PbReady(r2, pw)
  BY <1>1, PbReadyOn
<1>3. r1.key = r.key \o x1 /\ x1 \in Seq(Byte) /\ Len(x1) = WordBytes
  BY PbKeyOn
<1>4. r2.key = r1.key \o x2 /\ x2 \in Seq(Byte) /\ Len(x2) = WordBytes
  BY <1>1, PbKeyOn
<1>5. r3.key = r2.key \o x3 /\ x3 \in Seq(Byte) /\ Len(x3) = WordBytes
  BY <1>2, PbKeyOn
<1> HIDE DEF x1, x2, x3
<1>7. r3.key = ((r.key \o x1) \o x2) \o x3
  BY <1>3, <1>4, <1>5
<1>8. Create((x1 \o x2) \o x3).words = (x1 \o x2) \o x3
  BY ONLY <1>3, <1>4, <1>5, ThreeWords
<1>9. PbThree(r, r3, x1, x2, x3)
  BY <1>3, <1>7, <1>8 DEF PbThree
<1> QED BY <1>9 DEF x1, x2, x3

\* A function of three steps is its steps.
LEMMA PbRun ==
    ASSUME NEW pw, NEW s, NEW r, NEW r1, NEW r2, NEW r3, r = [hmac |-> hmacInit(pw), key |-> << >>],
           r1 = PbStep(r, s, 2, 1), r2 = PbStep(r1, s, 2, 2), r3 = PbStep(r2, s, 2, 3)
    PROVE  PBKDF2(pw, s, KeyWords, Iterations) = Create(r3.key)
<1> DEFINE Is(f) == f = [k \in 0 .. 3 |-> IF k = 0 THEN r ELSE PbStep(f[k - 1], s, 2, k)]
           f == CHOOSE a : Is(a)
           g == [k \in 0 .. 3 |-> IF k = 0 THEN r ELSE IF k = 1 THEN r1 ELSE IF k = 2 THEN r2 ELSE r3]
<1>1. PBKDF2(pw, s, KeyWords, Iterations) = Create(f[3].key)
  BY DEF PBKDF2, KeyWords, Iterations, PbStep, PbIter, PbFirst
<1>2. Is(g)
  <2>1. ASSUME NEW k \in 0 .. 3 PROVE g[k] = IF k = 0 THEN r ELSE PbStep(g[k - 1], s, 2, k)
    <3>1. k = 0 \/ k = 1 \/ k = 2 \/ k = 3
      OBVIOUS
    <3>2. g[0] = r /\ g[1] = r1 /\ g[2] = r2 /\ g[3] = r3 /\ 1 - 1 = 0 /\ 2 - 1 = 1 /\ 3 - 1 = 2
      OBVIOUS
    <3> HIDE DEF g
    <3> QED BY <3>1, <3>2
  <2> QED BY <2>1
<1>3. Is(f)
  <2> HIDE DEF Is, g
  <2> QED BY <1>2
<1> HIDE DEF f
<1>4. f[3] = r3
  <2>1. \A k \in 0 .. 3 : f[k] = IF k = 0 THEN r ELSE PbStep(f[k - 1], s, 2, k)
    BY <1>3
  <2>2. /\ 0 \in 0 .. 3 /\ 1 \in 0 .. 3 /\ 2 \in 0 .. 3 /\ 3 \in 0 .. 3
        /\ 1 - 1 = 0 /\ 2 - 1 = 1 /\ 3 - 1 = 2 /\ 1 # 0 /\ 2 # 0 /\ 3 # 0
    OBVIOUS
  <2> HIDE DEF Is, g
  <2>3. /\ f[0] = r /\ f[1] = PbStep(f[0], s, 2, 1)
        /\ f[2] = PbStep(f[1], s, 2, 2) /\ f[3] = PbStep(f[2], s, 2, 3)
    BY ONLY <2>1, <2>2
  <2> QED BY <2>3
<1> QED BY <1>1, <1>4

\* the HMACs of the first and of the second iteration, for each word
PbRows(pw, s, M, N) ==
    /\ M = [k \in 1 .. 3 |-> Mac(pw, (s \o Zeros(WordBytes - 1)) \o <<k>>)]
    /\ N = [k \in 1 .. 3 |-> Mac(pw, M[k])]

\* What Pbkdf2Key puts in a row.
LEMMA PbReference ==
    ASSUME NEW pw, NEW s, NEW M, NEW N, PbRows(pw, s, M, N)
    PROVE  Pbkdf2Key(pw, s) = (XorWords(M[1], N[1]) \o XorWords(M[2], N[2])) \o XorWords(M[3], N[3])
<1> USE DEF PbRows
<1> DEFINE X(k) == (s \o Zeros(WordBytes - 1)) \o <<k>>
           IsU(f) == f = [j \in 1 .. 2 |-> [k \in 1 .. 3 |-> Mac(pw, IF j = 1 THEN X(k) ELSE f[j - 1][k])]]
           u == CHOOSE f : IsU(f)
           Y(a, b) == [k \in 1 .. 3 |-> XorWords(a[k], b[k])]
           IsT(f) == f = [j \in 1 .. 2 |-> IF j = 1 THEN u[1] ELSE Y(f[j - 1], u[j])]
           t == CHOOSE f : IsT(f)
           gu == [j \in 1 .. 2 |-> IF j = 1 THEN M ELSE N]
           gt == [j \in 1 .. 2 |-> IF j = 1 THEN u[1] ELSE Y(u[1], u[2])]
<1>1. Pbkdf2Key(pw, s) = FlattenSeq(t[2])
  BY DEF Pbkdf2Key, KeyWords, Iterations
<1>n. 1 \in 1 .. 2 /\ 2 \in 1 .. 2 /\ 2 # 1 /\ 2 - 1 = 1 /\ \A j \in 1 .. 2 : j = 1 \/ j = 2
  OBVIOUS
<1>2. IsU(gu)
  <2>1. ASSUME NEW j \in 1 .. 2
        PROVE  gu[j] = [k \in 1 .. 3 |-> Mac(pw, IF j = 1 THEN X(k) ELSE gu[j - 1][k])]
    <3>0. gu[1] = M /\ gu[2] = N
      OBVIOUS
    <3> HIDE DEF gu
    <3>1. CASE j = 1
      BY <3>0, <3>1
    <3>2. CASE j = 2
      <4>1. gu[j] = N /\ gu[j - 1] = M
        BY <3>0, <3>2
      <4>2. \A k \in 1 .. 3 : Mac(pw, IF j = 1 THEN X(k) ELSE gu[j - 1][k]) = Mac(pw, M[k])
        BY <3>2, <4>1
      <4> HIDE DEF X
      <4> QED BY <4>1, <4>2
    <3> QED BY <3>1, <3>2, <1>n
  <2> HIDE DEF X
  <2> QED BY <2>1
<1>3. IsU(u)
  <2> HIDE DEF IsU, gu
  <2> QED BY <1>2
<1> HIDE DEF u
<1>4. u[1] = M /\ u[2] = N
  <2>1. \A j \in 1 .. 2 : u[j] = [k \in 1 .. 3 |-> Mac(pw, IF j = 1 THEN X(k) ELSE u[j - 1][k])]
    BY <1>3
  <2>2. u[1] = [k \in 1 .. 3 |-> Mac(pw, X(k))]
    <3> HIDE DEF X
    <3> QED BY ONLY <2>1, <1>n
  <2>3. u[1] = M
    BY <2>2
  <2>4. u[2] = [k \in 1 .. 3 |-> Mac(pw, u[1][k])]
    <3> HIDE DEF X
    <3> QED BY ONLY <2>1, <1>n
  <2> QED BY <2>3, <2>4
<1> HIDE DEF Y
<1>5. IsT(gt)
  <2>1. ASSUME NEW j \in 1 .. 2
        PROVE  gt[j] = IF j = 1 THEN u[1] ELSE Y(gt[j - 1], u[j])
    <3>0. gt[1] = u[1] /\ gt[2] = Y(u[1], u[2])
      OBVIOUS
    <3> HIDE DEF gt
    <3> QED BY <3>0, <1>n
  <2> QED BY <2>1
<1>6. IsT(t)
  <2> HIDE DEF IsT, gt
  <2> QED BY <1>5
<1> HIDE DEF t
<1>7. t[2] = Y(M, N)
  <2>1. \A j \in 1 .. 2 : t[j] = IF j = 1 THEN u[1] ELSE Y(t[j - 1], u[j])
    BY <1>6
  <2>2. t[1] = u[1] /\ t[2] = Y(t[1], u[2])
    <3> HIDE DEF IsT, gt
    <3> QED BY ONLY <2>1, <1>n
  <2> QED BY <2>2, <1>4
<1> DEFINE q == t[2]
<1>8. Len(q) = 3 /\ q[1] = XorWords(M[1], N[1]) /\ q[2] = XorWords(M[2], N[2]) /\ q[3] = XorWords(M[3], N[3])
  BY <1>7 DEF Y
<1>9. Pbkdf2Key(pw, s) = FlattenSeq(q)
  BY <1>1
<1> HIDE DEF q
<1> QED BY <1>8, <1>9, FlattenThree

\* PBKDF2 with one HMAC for all words gives the key of the definition.
LEMMA PbIsFunction ==
    ASSUME CompressGivesWords, NEW pw \in Seq(Byte), NEW s \in Seq(Byte)
    PROVE  PBKDF2(Create(pw), Create(s), KeyWords, Iterations).words = Pbkdf2Key(pw, s)
<1> DEFINE P == Create(pw)
           S == Create(s)
           r == [hmac |-> hmacInit(P), key |-> << >>]
           r1 == PbStep(r, S, 2, 1)
           r2 == PbStep(r1, S, 2, 2)
           r3 == PbStep(r2, S, 2, 3)
           M == [k \in 1 .. 3 |-> Mac(pw, (s \o Zeros(WordBytes - 1)) \o <<k>>)]
           N == [k \in 1 .. 3 |-> Mac(pw, M[k])]
           x1 == XorWords(M[1], N[1])
           x2 == XorWords(M[2], N[2])
           x3 == XorWords(M[3], N[3])
<1>1. PBKDF2(P, S, KeyWords, Iterations) = Create(r3.key)
  <2> HIDE DEF P, S
  <2>1. /\ r = [hmac |-> hmacInit(P), key |-> << >>]
        /\ r1 = PbStep(r, S, 2, 1) /\ r2 = PbStep(r1, S, 2, 2) /\ r3 = PbStep(r2, S, 2, 3)
    OBVIOUS
  <2> HIDE DEF r, r1, r2, r3
  <2> QED BY ONLY <2>1, PbRun
<1>2. Pbkdf2Key(pw, s) = (x1 \o x2) \o x3
  <2>1. PbRows(pw, s, M, N)
    BY DEF PbRows
  <2> HIDE DEF M, N
  <2> QED BY ONLY <2>1, PbReference DEF x1, x2, x3
<1>3. /\ M[1] = Mac(pw, (s \o Zeros(WordBytes - 1)) \o <<1>>) /\ N[1] = Mac(pw, M[1])
      /\ M[2] = Mac(pw, (s \o Zeros(WordBytes - 1)) \o <<2>>) /\ N[2] = Mac(pw, M[2])
      /\ M[3] = Mac(pw, (s \o Zeros(WordBytes - 1)) \o <<3>>) /\ N[3] = Mac(pw, M[3])
  OBVIOUS
<1> HIDE DEF M, N
<1> DEFINE m1 == M[1]
           m2 == M[2]
           m3 == M[3]
           n1 == N[1]
           n2 == N[2]
           n3 == N[3]
<1>4. PbPart(S, s, pw, 1, r, r1, m1, n1) /\ PbPart(S, s, pw, 2, r1, r2, m2, n2)
      /\ PbPart(S, s, pw, 3, r2, r3, m3, n3)
  BY <1>3 DEF PbPart
<1>5. PbReady(r, pw)
  <2>1. Ready(hmacInit(P), pw)
    <3> DEFINE a == Padded(pw, IPad)
    <3>1. Hmac(hmacInit(P), pw, update(NewHash, Create(a)))
      BY HmacStarts
    <3>2. Absorbed(update(NewHash, Create(a)), a)
      <4>1. a \in Seq(Byte)
        BY PaddedIsBytes, PadAssumption
      <4> HIDE DEF a
      <4> QED BY <4>1, CreateRep, UpdatedOf
    <3> QED BY <3>1, <3>2 DEF Ready
  <2>2. r.hmac = hmacInit(P)
    OBVIOUS
  <2> HIDE DEF r
  <2> QED BY <2>1, <2>2 DEF PbReady
<1>6. r.key = << >>
  OBVIOUS
<1> HIDE DEF P, S, r, r1, r2, r3, x1, x2, x3
<1>7. /\ r3.key = ((r.key \o x1) \o x2) \o x3
      /\ Create((x1 \o x2) \o x3).words = (x1 \o x2) \o x3 /\ x1 \in Seq(Byte)
  <2>1. PICK a \in Byte, b \in Byte, c \in Byte : a = 1 /\ b = 2 /\ c = 3
    BY ThreeAreBytes
  <2>2. PbPart(S, s, pw, a, r, r1, m1, n1) /\ PbPart(S, s, pw, b, r1, r2, m2, n2)
        /\ PbPart(S, s, pw, c, r2, r3, m3, n3)
    BY <1>4, <2>1
  <2> HIDE DEF m1, m2, m3, n1, n2, n3
  <2>3. PbThree(r, r3, XorWords(m1, n1), XorWords(m2, n2), XorWords(m3, n3))
    BY <1>5, <2>2, PbSteps
  <2>4. PbThree(r, r3, x1, x2, x3)
    BY <2>3 DEF x1, x2, x3, m1, m2, m3, n1, n2, n3
  <2> QED BY <2>4 DEF PbThree
<1>8. << >> \o x1 = x1
  BY <1>7, ConcatEmptySeq
<1>9. r3.key = (x1 \o x2) \o x3
  BY <1>6, <1>7, <1>8
<1> QED BY <1>1, <1>2, <1>7, <1>9 DEF P, S

-----------------------------------------------------------------------------
\* Derived keys.  A job stays what it is until its key has been derived, and
\* nothing but the two derivations changes key or salt.
KeyInv ==
    /\ job \in Jobs
    /\ stage = "new" => job.use = "cipher"
    /\ stage = "kdf" => job.use = "kdf"
    /\ KeyIsFunction

\* At first no key has been derived.
LEMMA KeyInit == Init => KeyInv
<1> SUFFICES ASSUME Init PROVE KeyInv
  OBVIOUS
<1>1. job \in Jobs /\ dkey = << >> /\ stage = (IF job.use = "cipher" THEN "new" ELSE job.use)
  BY DEF Init
<1>2. job.use \in {"cipher", "hash", "kdf"}
  BY <1>1, JobAssumption DEF Job
<1> QED BY <1>1, <1>2 DEF KeyInv, KeyIsFunction

\* CreateEncryptor: EvpKDF of the password and the salt that was drawn, if any.
LEMMA KeyEncryptor ==
    ASSUME CompressGivesWords, KeyInv, CreateEncryptor
    PROVE  KeyInv'
<1>1. /\ job \in Jobs /\ job' = job /\ job.use = "cipher" /\ stage' = "enc"
      /\ dkey' = Derived(salt') /\ salt' \in (IF job.iv = << >> THEN Salts ELSE {NoSalt})
  BY DEF KeyInv, CreateEncryptor
<1>2. CASE job.iv = << >>
  <2>1. job.secret \in Seq(Byte) /\ salt' \in Seq(Byte)
    BY <1>1, <1>2, JobFacts, MagicAssumption
  <2>2. Derived(salt') = EvpKDF(Create(job.secret), Create(salt'), KeyWords).words
    BY <1>2 DEF Derived
  <2>3. dkey' = EvpKey(job.secret, salt')
    BY <1>1, <2>1, <2>2, EvpIsFunction
  <2>4. EvpKey(job.secret, salt)' = EvpKey(job.secret, salt')
    BY <1>1 DEF EvpKey, Digest, KeyWords
  <2> QED BY <1>1, <2>3, <2>4 DEF KeyInv, KeyIsFunction
<1>3. CASE job.iv # << >>
  <2>1. dkey' = << >>
    BY <1>1, <1>3 DEF Derived
  <2> QED BY <1>1, <2>1 DEF KeyInv, KeyIsFunction
<1> QED BY <1>2, <1>3

\* DeriveKey: PBKDF2 of the password and the salt that was drawn.
LEMMA KeyDerived ==
    ASSUME CompressGivesWords, KeyInv, DeriveKey
    PROVE  KeyInv'
<1>1. /\ job \in Jobs /\ job' = job /\ job.use = "kdf" /\ stage' = "derived" /\ salt' \in Salts
      /\ dkey' = PBKDF2(Create(job.secret), Create(salt'), KeyWords, Iterations).words
  BY DEF KeyInv, DeriveKey
<1>2. job.secret \in Seq(Byte) /\ salt' \in Seq(Byte)
  BY <1>1, JobFacts, MagicAssumption
<1>3. dkey' = Pbkdf2Key(job.secret, salt')
  BY <1>1, <1>2, PbIsFunction
<1>4. Pbkdf2Key(job.secret, salt)' = Pbkdf2Key(job.secret, salt')
  BY <1>1 DEF Pbkdf2Key
<1> QED BY <1>1, <1>3, <1>4 DEF KeyInv, KeyIsFunction

\* Every other step leaves job, key and salt alone.
LEMMA KeyElsewhere ==
    ASSUME KeyInv, UNCHANGED <<job, dkey, salt>>, stage' \notin {"new", "kdf"} \/ stage' = stage
    PROVE  KeyInv'
  BY DEF KeyInv, KeyIsFunction, EvpKey, Pbkdf2Key

\* Every step keeps the invariant.
LEMMA KeyNext == ASSUME CompressGivesWords, KeyInv, [Next]_vars PROVE KeyInv'
<1>1. CASE CreateEncryptor
  BY <1>1, KeyEncryptor
<1>2. CASE DeriveKey
  BY <1>2, KeyDerived
<1>3. CASE EncryptRest
  BY <1>3, KeyElsewhere DEF EncryptRest
<1>4. CASE CreateDecryptor
  BY <1>4, KeyElsewhere DEF CreateDecryptor
<1>5. CASE DecryptRest
  BY <1>5, KeyElsewhere DEF DecryptRest
<1>6. CASE ResetEncryptor
  BY <1>6, KeyElsewhere DEF ResetEncryptor
<1>7. CASE HashRest
  BY <1>7, KeyElsewhere DEF HashRest
<1>8. CASE ResetMac
  BY <1>8, KeyElsewhere DEF ResetMac
<1>9. ASSUME NEW n \in Sizes, EncryptPiece(n) \/ DecryptPiece(n) \/ HashPiece(n)
      PROVE  KeyInv'
  BY <1>9, KeyElsewhere DEF EncryptPiece, DecryptPiece, HashPiece
<1>10. CASE UNCHANGED vars
  BY <1>10, KeyElsewhere DEF vars
<1> QED BY <1>1, <1>2, <1>3, <1>4, <1>5, <1>6, <1>7, <1>8, <1>9, <1>10 DEF Next

\* The keys that EvpKDF (evpkdf.js) and PBKDF2 (pbkdf2.js) derive with one hasher
\* for all their parts are functions of the password and the salt, the ones fresh
\* hashers give: for every hash whose rounds give a word.
THEOREM AlwaysKey == ASSUME CompressGivesWords PROVE Spec => []KeyIsFunction
<1>1. Init => KeyInv
  BY KeyInit
<1>2. KeyInv /\ [Next]_vars => KeyInv'
  BY KeyNext
<1>3. KeyInv => KeyIsFunction
  BY DEF KeyInv
<1> QED BY <1>1, <1>2, <1>3, PTL DEF Spec

\* Induction, up to a number.
LEMMA UpTo ==
    ASSUME NEW S, NEW n \in Nat, 0 \in S, \A k \in Nat : k < n /\ k \in S => k + 1 \in S
    PROVE  \A k \in 0 .. n : k \in S
<1> DEFINE T == {k \in Nat : k <= n => k \in S}
<1>1. 0 \in T
  OBVIOUS
<1>2. ASSUME NEW k \in Nat, k \in T PROVE k + 1 \in T
  <2> SUFFICES ASSUME k + 1 <= n PROVE k + 1 \in S
    OBVIOUS
  <2>1. k < n /\ k \in S
    BY <1>2
  <2> QED BY <2>1
<1>3. Nat \subseteq T
  <2> HIDE DEF T
  <2> QED BY <1>1, <1>2, SetInduction
<1> QED BY <1>3

\* f starts with a and goes on, for n steps, as G says
FunRun(f, X, n, a, G) == f \in [0 .. n -> X] /\ f[0] = a /\ \A k \in 1 .. n : f[k] = G[k][f[k - 1]]

\* There is such a function.
LEMMA FunRunExists ==
    ASSUME NEW X, NEW n \in Nat, NEW a \in X, NEW G \in [1 .. n -> [X -> X]]
    PROVE  \E f : FunRun(f, X, n, a, G)
<1> DEFINE Is(f, m) == f \in [0 .. m -> X] /\ f[0] = a /\ \A k \in 1 .. m : f[k] = G[k][f[k - 1]]
           S == {m \in Nat : m <= n => \E f : Is(f, m)}
<1>1. 0 \in S
  <2>1. Is([k \in 0 .. 0 |-> a], 0)
    OBVIOUS
  <2> HIDE DEF Is
  <2> QED BY <2>1
<1>2. ASSUME NEW m \in Nat, m \in S PROVE m + 1 \in S
  <2> SUFFICES ASSUME m + 1 <= n PROVE \E f : Is(f, m + 1)
    <3> HIDE DEF Is
    <3> QED OBVIOUS
  <2>1. PICK f : Is(f, m)
    BY <1>2
  <2> DEFINE g == [k \in 0 .. m + 1 |-> IF k = m + 1 THEN G[k][f[m]] ELSE f[k]]
  <2>2. f[m] \in X /\ G[m + 1][f[m]] \in X
    <3>1. m \in 0 .. m /\ m + 1 \in 1 .. n
      OBVIOUS
    <3> QED BY <2>1, <3>1
  <2>3. g \in [0 .. m + 1 -> X]
    <3>1. ASSUME NEW k \in 0 .. m + 1 PROVE (IF k = m + 1 THEN G[k][f[m]] ELSE f[k]) \in X
      <4>1. k = m + 1 \/ k \in 0 .. m
        OBVIOUS
      <4> QED BY <4>1, <2>1, <2>2
    <3> QED BY <3>1
  <2>4. g[0] = a
    BY <2>1
  <2>5. ASSUME NEW k \in 1 .. m + 1 PROVE g[k] = G[k][g[k - 1]]
    <3>1. CASE k = m + 1
      <4>1. k - 1 = m /\ m \in 0 .. m + 1 /\ m # m + 1 /\ g[m] = f[m]
        BY <3>1
      <4> QED BY <3>1, <4>1
    <3>2. CASE k # m + 1
      <4>1. k \in 1 .. m /\ k - 1 \in 0 .. m + 1 /\ k - 1 # m + 1
        BY <3>2
      <4>2. f[k] = G[k][f[k - 1]]
        BY <2>1, <4>1
      <4>3. g[k - 1] = f[k - 1] /\ g[k] = f[k]
        BY <4>1
      <4> QED BY <4>2, <4>3
    <3> QED BY <3>1, <3>2
  <2>6. Is(g, m + 1)
    <3> HIDE DEF g
    <3> QED BY <2>3, <2>4, <2>5
  <2> HIDE DEF Is
  <2> QED BY <2>6
<1>3. n \in S
  <2>1. Nat \subseteq S
    <3> HIDE DEF S
    <3> QED BY <1>1, <1>2, SetInduction
  <2> QED BY <2>1
<1> QED BY <1>3 DEF FunRun

\* The significant bytes of w are those of t behind m, up to e.
Keeps(w, t, m, e) ==
    /\ w.words \in Seq(Byte) /\ w.sigBytes = e - m
    /\ \A i \in 1 .. e - m : ByteAt(w.words, i) = t[m + i]

\* c holds the bytes of a and then those of b.
Joined(c, a, b) ==
    /\ c.words \in Seq(Byte) /\ c.sigBytes = a.sigBytes + b.sigBytes
    /\ \A i \in 1 .. a.sigBytes : ByteAt(c.words, i) = ByteAt(a.words, i)
    /\ \A i \in 1 .. b.sigBytes : ByteAt(c.words, a.sigBytes + i) = ByteAt(b.words, i)

\* What concat is, byte for byte.
LEMMA ConcatBytes ==
    ASSUME NEW a, NEW b, a.words \in Seq(Byte), b.words \in Seq(Byte), a.sigBytes \in Nat, b.sigBytes \in Nat
    PROVE  Joined(concat(a, b), a, b)
<1> DEFINE p == Bytes(a)
           u == Bytes(b)
           n == a.sigBytes
           l == b.sigBytes
           c == concat(a, b)
<1>1. p \in Seq(Byte) /\ Len(p) = n /\ \A i \in 1 .. n : ByteAt(p, i) = ByteAt(a.words, i)
  BY ByteInByte DEF Bytes, ByteAt
<1>2. u \in Seq(Byte) /\ Len(u) = l /\ \A i \in 1 .. l : ByteAt(u, i) = ByteAt(b.words, i)
  BY ByteInByte DEF Bytes, ByteAt
<1> SUFFICES /\ c.words \in Seq(Byte) /\ c.sigBytes = n + l
             /\ \A i \in 1 .. n : ByteAt(c.words, i) = ByteAt(p, i)
             /\ \A i \in 1 .. l : ByteAt(c.words, n + i) = ByteAt(b.words, i)
  BY <1>1 DEF Joined
<1>3. n \in Nat /\ l \in Nat
  OBVIOUS
<1>4. CASE n % WordBytes = 0
  <2>1. c.words = p \o b.words /\ c.sigBytes = n + l
    <3>1. c.words = Create(p).words \o b.words /\ c.sigBytes = n + l
      BY <1>4 DEF concat, clamp
    <3> HIDE DEF p, c
    <3>2. Create(p).words = p
      BY <1>1, <1>4, WholeWords
    <3> QED BY <3>1, <3>2
  <2> HIDE DEF p, c, n, l
  <2>2. p \o b.words \in Seq(Byte)
    BY <1>1
  <2>3. ASSUME NEW i \in 1 .. n PROVE ByteAt(p \o b.words, i) = ByteAt(p, i)
    BY <1>1, <1>3, ByteOfTwo
  <2>4. ASSUME NEW i \in 1 .. l PROVE ByteAt(p \o b.words, n + i) = ByteAt(b.words, i)
    <3>1. n + i \in Nat \ {0} /\ n + i > Len(p) /\ (n + i) - Len(p) = i
      BY <1>1, <1>3
    <3> QED BY <1>1, <3>1, ByteOfTwo
  <2> QED BY <2>1, <2>2, <2>3, <2>4
<1>5. CASE n % WordBytes # 0
  <2>1. c = Create(p \o u)
    BY <1>5 DEF concat
  <2> HIDE DEF p, c, n, l, u
  <2>2. p \o u \in Seq(Byte) /\ Len(p \o u) = n + l
    BY <1>1, <1>2, TwoLong
  <2>3. Rep(c, p \o u)
    BY <2>1, <2>2, CreateRep
  <2>4. /\ c.words \in Seq(Byte) /\ c.sigBytes = n + l
        /\ \A i \in Nat \ {0} : ByteAt(c.words, i) = ByteAt(p \o u, i)
    BY <2>2, <2>3 DEF Rep
  <2>5. ASSUME NEW i \in 1 .. n PROVE ByteAt(c.words, i) = ByteAt(p, i)
    BY <2>4, <1>1, <1>2, <1>3, ByteOfTwo
  <2>6. ASSUME NEW i \in 1 .. l PROVE ByteAt(c.words, n + i) = ByteAt(b.words, i)
    <3>1. n + i \in Nat \ {0} /\ n + i > Len(p) /\ (n + i) - Len(p) = i /\ i \in Nat \ {0}
      BY <1>1, <1>3
    <3>2. ByteAt(p \o u, n + i) = ByteAt(u, i)
      BY <1>1, <1>2, <3>1, ByteOfTwo
    <3> QED BY <2>4, <1>2, <3>1, <3>2
  <2> QED BY <2>4, <2>5, <2>6
<1> QED BY <1>4, <1>5

\* Data that follow each other are put together.
LEMMA ConcatKeeps ==
    ASSUME NEW a, NEW b, NEW t, NEW m \in Nat, NEW e \in Nat, NEW f \in Nat, m <= e, e <= f,
           Keeps(a, t, m, e), Keeps(b, t, e, f)
    PROVE  Keeps(concat(a, b), t, m, f)
<1> DEFINE c == concat(a, b)
<1>1. /\ a.words \in Seq(Byte) /\ a.sigBytes = e - m /\ \A i \in 1 .. e - m : ByteAt(a.words, i) = t[m + i]
      /\ b.words \in Seq(Byte) /\ b.sigBytes = f - e /\ \A i \in 1 .. f - e : ByteAt(b.words, i) = t[e + i]
  BY DEF Keeps
<1>2. a.sigBytes \in Nat /\ b.sigBytes \in Nat
  BY <1>1
<1>3. /\ c.words \in Seq(Byte) /\ c.sigBytes = a.sigBytes + b.sigBytes
      /\ \A i \in 1 .. a.sigBytes : ByteAt(c.words, i) = ByteAt(a.words, i)
      /\ \A i \in 1 .. b.sigBytes : ByteAt(c.words, a.sigBytes + i) = ByteAt(b.words, i)
  <2>1. Joined(c, a, b)
    BY <1>1, <1>2, ConcatBytes
  <2> QED BY <2>1 DEF Joined
<1> HIDE DEF c
<1>4. ASSUME NEW i \in 1 .. f - m PROVE ByteAt(c.words, i) = t[m + i]
  <2>1. CASE i <= e - m
    <3>1. i \in 1 .. e - m
      BY <2>1
    <3> QED BY <3>1, <1>1, <1>3
  <2>2. CASE i > e - m
    <3> DEFINE j == i - (e - m)
    <3>1. j \in 1 .. f - e /\ (e - m) + j = i /\ e + j = m + i
      BY <2>2
    <3> HIDE DEF j
    <3>2. ByteAt(c.words, (e - m) + j) = ByteAt(b.words, j) /\ ByteAt(b.words, j) = t[e + j]
      BY <3>1, <1>1, <1>3
    <3> QED BY <3>1, <3>2
  <2> QED BY <2>1, <2>2
<1>5. c.words \in Seq(Byte) /\ c.sigBytes = f - m
  BY <1>1, <1>3
<1> QED BY <1>4, <1>5 DEF Keeps, c

\* The bytes of what keeps all of t are t.
LEMMA KeepsBytes ==
    ASSUME NEW w, NEW t \in Seq(Byte), Keeps(w, t, 0, Len(t))
    PROVE  Bytes(w) = t
<1>1. Len(t) \in Nat /\ w.sigBytes = Len(t) /\ \A i \in 1 .. Len(t) : ByteAt(w.words, i) = t[i]
  BY DEF Keeps
<1> QED BY <1>1 DEF Bytes

\* The bytes of what keeps the beginning of t are a prefix of t.
LEMMA KeepsPrefix ==
    ASSUME NEW w, NEW t \in Seq(Byte), NEW e \in 0 .. Len(t), Keeps(w, t, 0, e)
    PROVE  IsPrefix(Bytes(w), t)
<1>1. Len(t) \in Nat /\ w.sigBytes = e /\ \A i \in 1 .. e : ByteAt(w.words, i) = t[i]
  BY DEF Keeps
<1>2. Bytes(w) = [i \in 1 .. e |-> t[i]]
  BY <1>1 DEF Bytes
<1>3. Len(Bytes(w)) = e /\ SubSeq(t, 1, e) = [i \in 1 .. e |-> t[i]]
  BY <1>1, <1>2
<1> QED BY <1>1, <1>2, <1>3 DEF IsPrefix

-----------------------------------------------------------------------------
\* Paddings.

Kinds == {"Pkcs7", "AnsiX923", "Iso10126", "Iso97971", "Zero", "No"}
\* what a padding adds when n bytes are missing to a whole block
PadBytes(kind, n, r) ==
    CASE kind = "Pkcs7"    -> [i \in 1 .. n |-> n]
      [] kind = "AnsiX923" -> Zeros(n - 1) \o <<n>>
      [] kind = "Iso10126" -> SubSeq(r, 1, n - 1) \o <<n>>
      [] kind = "Iso97971" -> <<Mark>> \o Zeros(n - 1)
      [] kind = "Zero"     -> Zeros(n % BlockBytes)
      [] kind = "No"       -> << >>

\* Data are joined with nothing.
LEMMA JoinNothing == ASSUME NEW a, IsWords(a) PROVE Joined(a, a, Create(<< >>))
<1>1. << >> \in Seq(Byte) /\ Len(<< >>) = 0
  OBVIOUS
<1>2. Create(<< >>).sigBytes = 0
  BY <1>1, CreateWords
<1> QED BY <1>2 DEF Joined, IsWords

\* concat joins.
LEMMA JoinConcat ==
    ASSUME NEW a, IsWords(a), NEW p \in Seq(Byte)
    PROVE  Joined(concat(a, Create(p)), a, Create(p))
  BY ConcatBytes, CreateWords DEF IsWords

\* The bytes before and some others, put into words at once.
LEMMA JoinCreate ==
    ASSUME NEW a, IsWords(a), NEW p \in Seq(Byte)
    PROVE  Joined(Create(Bytes(a) \o p), a, Create(p))
<1> DEFINE s == Bytes(a)
           n == a.sigBytes
           c == Create(s \o p)
<1>1. s \in Seq(Byte) /\ Len(s) = n /\ n \in Nat /\ \A i \in 1 .. n : ByteAt(s, i) = ByteAt(a.words, i)
  BY ByteInByte DEF Bytes, ByteAt, IsWords
<1> HIDE DEF s, n
<1>2. s \o p \in Seq(Byte) /\ Len(s \o p) = n + Len(p)
  BY <1>1, TwoLong
<1>3. c.words \in Seq(Byte) /\ c.sigBytes = n + Len(p)
      /\ \A i \in Nat \ {0} : ByteAt(c.words, i) = ByteAt(s \o p, i)
  BY <1>2, CreateWords DEF IsWords
<1>4. Create(p).sigBytes = Len(p) /\ \A i \in Nat \ {0} : ByteAt(Create(p).words, i) = ByteAt(p, i)
  BY CreateWords
<1> HIDE DEF c
<1>5. ASSUME NEW i \in 1 .. n PROVE ByteAt(c.words, i) = ByteAt(a.words, i)
  BY <1>1, <1>3, ByteOfTwo
<1>6. ASSUME NEW i \in 1 .. Len(p) PROVE ByteAt(c.words, n + i) = ByteAt(Create(p).words, i)
  <2>1. n + i \in Nat \ {0} /\ n + i > Len(s) /\ (n + i) - Len(s) = i /\ i \in Nat \ {0}
    BY <1>1
  <2>2. ByteAt(s \o p, n + i) = ByteAt(p, (n + i) - Len(s))
    <3>1. s \in Seq(Byte) /\ p \in Seq(Byte)
      BY <1>1
    <3> QED BY ONLY <3>1, <2>1, ByteOfTwo
  <2>3. ByteAt(p, (n + i) - Len(s)) = ByteAt(p, i)
    BY <2>1
  <2> QED BY <1>3, <1>4, <2>1, <2>2, <2>3
<1> QED BY <1>3, <1>4, <1>5, <1>6 DEF Joined, c, s, n

\* Data that were joined with p and then with u.
LEMMA JoinTwice ==
    ASSUME NEW a, IsWords(a), NEW p \in Seq(Byte), NEW u \in Seq(Byte), NEW c, NEW d,
           Joined(c, a, Create(p)), Joined(d, c, Create(u))
    PROVE  IsWords(c) /\ Joined(d, a, Create(p \o u))
<1> DEFINE P == Create(p)
           U == Create(u)
           B == Create(p \o u)
           n == a.sigBytes
<1>1. /\ P.sigBytes = Len(p) /\ \A i \in Nat \ {0} : ByteAt(P.words, i) = ByteAt(p, i)
      /\ U.sigBytes = Len(u) /\ \A i \in Nat \ {0} : ByteAt(U.words, i) = ByteAt(u, i)
  BY CreateWords
<1>2. p \o u \in Seq(Byte) /\ Len(p \o u) = Len(p) + Len(u) /\ Len(p) \in Nat /\ Len(u) \in Nat
  BY TwoLong
<1>3. B.sigBytes = Len(p) + Len(u) /\ \A i \in Nat \ {0} : ByteAt(B.words, i) = ByteAt(p \o u, i)
  BY <1>2, CreateWords
<1> HIDE DEF P, U, B
<1>4. /\ n \in Nat /\ c.words \in Seq(Byte) /\ c.sigBytes = n + Len(p)
      /\ \A i \in 1 .. n : ByteAt(c.words, i) = ByteAt(a.words, i)
      /\ \A i \in 1 .. Len(p) : ByteAt(c.words, n + i) = ByteAt(P.words, i)
  BY <1>1 DEF Joined, IsWords, P
<1>5. /\ d.words \in Seq(Byte) /\ d.sigBytes = c.sigBytes + Len(u)
      /\ \A i \in 1 .. c.sigBytes : ByteAt(d.words, i) = ByteAt(c.words, i)
      /\ \A i \in 1 .. Len(u) : ByteAt(d.words, c.sigBytes + i) = ByteAt(U.words, i)
  BY <1>1 DEF Joined, IsWords, U
<1> HIDE DEF n
<1>6. ASSUME NEW i \in 1 .. n PROVE ByteAt(d.words, i) = ByteAt(a.words, i)
  BY <1>2, <1>4, <1>5
<1>7. ASSUME NEW i \in 1 .. Len(p) + Len(u) PROVE ByteAt(d.words, n + i) = ByteAt(B.words, i)
  <2>1. CASE i <= Len(p)
    <3>1. i \in 1 .. Len(p) /\ i \in Nat \ {0} /\ n + i \in 1 .. c.sigBytes
      BY <2>1, <1>2, <1>4
    <3>2. ByteAt(p \o u, i) = ByteAt(p, i)
      BY <3>1, ByteOfTwo
    <3> QED BY <3>1, <3>2, <1>1, <1>3, <1>4, <1>5
  <2>2. CASE i > Len(p)
    <3> DEFINE j == i - Len(p)
    <3>1. j \in 1 .. Len(u) /\ j \in Nat \ {0} /\ i \in Nat \ {0} /\ c.sigBytes + j = n + i
      BY <2>2, <1>2, <1>4
    <3>2. ByteAt(p \o u, i) = ByteAt(u, j)
      BY <3>1, <2>2, ByteOfTwo
    <3> HIDE DEF j
    <3> QED BY <3>1, <3>2, <1>1, <1>3, <1>5
  <2> QED BY <2>1, <2>2, <1>2
<1>8. d.words \in Seq(Byte) /\ d.sigBytes = n + (Len(p) + Len(u))
  BY <1>2, <1>4, <1>5
<1>9. Joined(d, a, B)
  BY <1>3, <1>6, <1>7, <1>8 DEF Joined, n
<1> QED BY <1>2, <1>4, <1>9 DEF IsWords, B

\* How many bytes are missing.
LEMMA MissingIs ==
    ASSUME NEW a, IsWords(a)
    PROVE  /\ Missing(a) \in 1 .. BlockBytes /\ Missing(a) = BlockBytes - (a.sigBytes % BlockBytes)
           /\ BlockBytes \in Nat \ {0} /\ \A n \in 1 .. BlockBytes : n \in Byte
<1>1. BlockBytes \in Nat \ {0} /\ Base \in Nat \ {0} /\ BlockBytes < Base
  BY BlockSize, BaseIsPositive, BlockAssumption
<1>2. a.sigBytes % BlockBytes \in 0 .. BlockBytes - 1
  BY <1>1, DivMod DEF IsWords
<1> QED BY <1>1, <1>2 DEF Missing, Byte

\* Zeros are what lies behind the bytes of words without any.
LEMMA JoinZeros ==
    ASSUME NEW a, IsWords(a)
    PROVE  Joined(ZeroPad(a), a, Create(Zeros(Missing(a) % BlockBytes)))
<1> DEFINE z == Missing(a) % BlockBytes
           s == Bytes(a)
           n == a.sigBytes
           c == ZeroPad(a)
           Z == Create(Zeros(z))
<1>1. z \in Nat
  BY MissingIs, DivMod
<1>2. s \in Seq(Byte) /\ Len(s) = n /\ n \in Nat /\ \A i \in 1 .. n : ByteAt(s, i) = ByteAt(a.words, i)
  BY ByteInByte DEF Bytes, ByteAt, IsWords
<1>3. c.words = Create(s).words /\ c.sigBytes = n + z
  BY <1>2 DEF ZeroPad, clamp, Create
<1> HIDE DEF z, s, n, c
<1>4. c.words \in Seq(Byte) /\ \A i \in Nat \ {0} : ByteAt(c.words, i) = ByteAt(s, i)
  BY <1>2, <1>3, CreateWords DEF IsWords
<1>5. Zeros(z) \in Seq(Byte) /\ Len(Zeros(z)) = z
  BY <1>1, ZerosSeq
<1>6. Z.sigBytes = z /\ \A i \in Nat \ {0} : ByteAt(Z.words, i) = 0
  BY <1>1, <1>5, CreateWords, ByteOfZeros
<1> HIDE DEF Z
<1>7. ASSUME NEW i \in 1 .. n PROVE ByteAt(c.words, i) = ByteAt(a.words, i)
  BY <1>2, <1>4
<1>8. ASSUME NEW i \in 1 .. z PROVE ByteAt(c.words, n + i) = ByteAt(Z.words, i)
  <2>1. n + i \in Nat \ {0} /\ n + i \notin DOMAIN s /\ i \in Nat \ {0}
    BY <1>1, <1>2
  <2>2. ByteAt(s, n + i) = 0
    BY <2>1 DEF ByteAt
  <2> QED BY <2>1, <2>2, <1>4, <1>6
<1>9. Joined(c, a, Z)
  BY <1>3, <1>4, <1>6, <1>7, <1>8 DEF Joined, n
<1> QED BY <1>9 DEF c, Z, z

\* Half of the values of a byte.
LEMMA MarkIsByte == Mark \in Byte
  BY HalfIsByte DEF Mark

\* The rest of a number below the divisor, and of the divisor.
LEMMA SmallRest == ASSUME NEW n \in Nat, NEW d \in Nat \ {0} PROVE (n < d => n % d = n) /\ d % d = 0
  OBVIOUS

\* After one byte more one less is missing.
LEMMA MissingLater ==
    ASSUME NEW a, IsWords(a), NEW c, IsWords(c), c.sigBytes = a.sigBytes + 1
    PROVE  Missing(c) % BlockBytes = Missing(a) - 1
<1> DEFINE d == BlockBytes
           s == a.sigBytes
           q == s \div d
           m == s % d
<1>1. d \in Nat \ {0} /\ s \in Nat
  BY MissingIs DEF IsWords
<1>2. q \in Nat /\ m \in 0 .. d - 1 /\ q * d + m = s
  <2>1. d \in Nat /\ d > 0 /\ s \in Nat
    BY <1>1
  <2> HIDE DEF d, s
  <2> QED BY <2>1, DivMod
<1>3. Missing(a) = d - m /\ Missing(c) = d - ((s + 1) % d)
  BY MissingIs
<1> HIDE DEF d, q, m, s
<1>4. q * d \in Nat /\ (q + 1) * d = q * d + d
  BY <1>1, <1>2, Times
<1>5. CASE m + 1 < d
  <2>1. m + 1 \in Nat /\ s + 1 = q * d + (m + 1)
    BY <1>1, <1>2, <1>4
  <2>2. (s + 1) % d = m + 1
    <3>1. q \in Nat /\ m + 1 \in Nat /\ d \in Nat /\ m + 1 < d
      BY <2>1, <1>1, <1>2, <1>5
    <3>2. (q * d + (m + 1)) % d = m + 1
      BY <3>1, DivIs
    <3> QED BY <2>1, <3>2
  <2>3. Missing(c) = (d - m) - 1 /\ (d - m) - 1 \in Nat /\ (d - m) - 1 < d
    BY <2>2, <1>1, <1>2, <1>3, <1>5
  <2>4. ((d - m) - 1) % d = (d - m) - 1
    BY <2>3, <1>1, SmallRest
  <2> QED BY <2>3, <2>4, <1>3 DEF d
<1>6. CASE m + 1 = d
  <2>1. s + 1 = (q + 1) * d + 0 /\ q + 1 \in Nat
    BY <1>1, <1>2, <1>4, <1>6
  <2>2. (s + 1) % d = 0
    <3>1. 0 \in Nat /\ 0 < d /\ d \in Nat
      BY <1>1
    <3> HIDE DEF d
    <3>2. ((q + 1) * d + 0) % d = 0
      BY <2>1, <3>1, DivIs
    <3> QED BY <2>1, <3>2
  <2>3. Missing(c) = d
    BY <2>2, <1>1, <1>3
  <2>4. d % d = 0 /\ Missing(a) - 1 = 0
    BY <1>1, <1>2, <1>3, <1>6, SmallRest
  <2> QED BY <2>3, <2>4 DEF d
<1> QED BY <1>1, <1>2, <1>5, <1>6

\* One byte.
LEMMA OneByte == ASSUME NEW b \in Byte PROVE <<b>> \in Seq(Byte) /\ Len(<<b>>) = 1
  OBVIOUS

\* The random bytes that are taken.
LEMMA RandomBytes ==
    ASSUME NEW r \in Seq(Byte), NEW n \in Nat \ {0}, n - 1 <= Len(r)
    PROVE  SubSeq(r, 1, n - 1) \in Seq(Byte) /\ Len(SubSeq(r, 1, n - 1)) = n - 1
  OBVIOUS

\* A padding is joined to the data, whatever lies behind them.
LEMMA PadJoins ==
    ASSUME NEW kind \in Kinds, NEW a, IsWords(a), NEW r \in Seq(Byte), Len(r) >= BlockBytes - 1
    PROVE  /\ PadBytes(kind, Missing(a), r) \in Seq(Byte)
           /\ Joined(pad(kind, a, r), a, Create(PadBytes(kind, Missing(a), r)))
<1> DEFINE n == Missing(a)
<1>1. /\ n \in 1 .. BlockBytes /\ n \in Byte /\ n \in Nat
      /\ BlockBytes \in Nat /\ n - 1 \in Nat /\ n - 1 <= Len(r)
  BY MissingIs
<1>2. Zeros(n - 1) \in Seq(Byte) /\ <<n>> \in Seq(Byte) /\ <<Mark>> \in Seq(Byte)
      /\ SubSeq(r, 1, n - 1) \in Seq(Byte)
  BY <1>1, ZerosSeq, MarkIsByte, OneByte, RandomBytes
<1>3. CASE kind = "Pkcs7"
  <2> DEFINE p == [i \in 1 .. n |-> n]
  <2>1. pad(kind, a, r) = concat(a, Create(p)) /\ PadBytes(kind, n, r) = p
    BY <1>3 DEF pad, Pkcs7Pad, PadBytes
  <2> HIDE DEF n
  <2>2. p \in Seq(Byte)
    BY <1>1
  <2> HIDE DEF p
  <2>3. Joined(concat(a, Create(p)), a, Create(p))
    BY <2>2, JoinConcat
  <2> QED BY <2>1, <2>2, <2>3 DEF n
<1>4. CASE kind = "AnsiX923"
  <2> DEFINE p == Zeros(n - 1) \o <<n>>
  <2>1. pad(kind, a, r) = Create((Bytes(a) \o Zeros(n - 1)) \o <<n>>) /\ PadBytes(kind, n, r) = p
    BY <1>4 DEF pad, AnsiX923Pad, PadBytes
  <2>2. Bytes(a) \in Seq(Byte)
    BY ByteInByte DEF Bytes, IsWords
  <2> HIDE DEF n
  <2>3. (Bytes(a) \o Zeros(n - 1)) \o <<n>> = Bytes(a) \o p
    BY <1>2, <2>2, InTurn
  <2>4. p \in Seq(Byte)
    BY <1>2, TwoLong
  <2> HIDE DEF p
  <2>5. Joined(Create(Bytes(a) \o p), a, Create(p))
    BY <2>4, JoinCreate
  <2> QED BY <2>1, <2>3, <2>4, <2>5 DEF n
<1>5. CASE kind = "Iso10126"
  <2> DEFINE p == SubSeq(r, 1, n - 1)
             c == concat(a, Create(p))
             d == concat(c, Create(<<n>>))
  <2>1. pad(kind, a, r) = d /\ PadBytes(kind, n, r) = p \o <<n>>
    BY <1>5 DEF pad, Iso10126Pad, PadBytes
  <2> HIDE DEF n
  <2>2. p \in Seq(Byte) /\ <<n>> \in Seq(Byte)
    BY <1>2
  <2> HIDE DEF p
  <2>3. Joined(c, a, Create(p))
    BY <2>2, JoinConcat
  <2>4. IsWords(c)
    BY <2>2, <2>3, CreateWords DEF Joined, IsWords
  <2> HIDE DEF c
  <2>5. Joined(d, c, Create(<<n>>))
    BY <2>2, <2>4, JoinConcat
  <2> HIDE DEF d
  <2>6. Joined(d, a, Create(p \o <<n>>))
    BY <2>2, <2>3, <2>5, JoinTwice
  <2>7. p \o <<n>> \in Seq(Byte)
    BY <2>2, TwoLong
  <2> QED BY <2>1, <2>6, <2>7 DEF n
<1>6. CASE kind = "Iso97971"
  <2> DEFINE p == <<Mark>>
             u == Zeros(n - 1)
             c == concat(a, Create(p))
             d == ZeroPad(c)
  <2>1. pad(kind, a, r) = d /\ PadBytes(kind, n, r) = p \o u
    BY <1>6 DEF pad, Iso97971Pad, PadBytes
  <2>2. p \in Seq(Byte) /\ u \in Seq(Byte) /\ Len(p) = 1
    BY <1>2
  <2> HIDE DEF p
  <2>3. Joined(c, a, Create(p))
    BY <2>2, JoinConcat
  <2>4. IsWords(c) /\ c.sigBytes = a.sigBytes + 1
    <3>1. Create(p).sigBytes = 1
      BY <2>2, CreateWords
    <3> HIDE DEF c
    <3> QED BY <3>1, <2>3 DEF Joined, IsWords
  <2> HIDE DEF c
  <2>5. Missing(c) % BlockBytes = n - 1
    BY <2>4, MissingLater
  <2>6. Joined(d, c, Create(u))
    BY <2>4, <2>5, JoinZeros
  <2> HIDE DEF d, u
  <2>7. Joined(d, a, Create(p \o u))
    BY <2>2, <2>3, <2>6, JoinTwice
  <2>8. p \o u \in Seq(Byte)
    BY <2>2, TwoLong
  <2> QED BY <2>1, <2>7, <2>8
<1>7. CASE kind = "Zero"
  <2>1. pad(kind, a, r) = ZeroPad(a) /\ PadBytes(kind, n, r) = Zeros(n % BlockBytes)
    BY <1>7 DEF pad, PadBytes
  <2>2. Zeros(n % BlockBytes) \in Seq(Byte)
    <3>1. n % BlockBytes \in Nat
      BY <1>1, DivMod, MissingIs
    <3> QED BY <3>1, ZerosSeq
  <2> QED BY <2>1, <2>2, JoinZeros
<1>8. CASE kind = "No"
  <2>1. pad(kind, a, r) = a /\ PadBytes(kind, n, r) = << >>
    BY <1>8 DEF pad, PadBytes
  <2>2. << >> \in Seq(Byte)
    OBVIOUS
  <2> QED BY <2>1, <2>2, JoinNothing
<1> QED BY <1>3, <1>4, <1>5, <1>6, <1>7, <1>8 DEF Kinds

\* How long the padding is: a whole number of blocks, unless there is none.
LEMMA PadLen ==
    ASSUME NEW kind \in Kinds, NEW a, IsWords(a), NEW r \in Seq(Byte), Len(r) >= BlockBytes - 1,
           kind # "No" \/ a.sigBytes % BlockBytes = 0
    PROVE  (a.sigBytes + Len(PadBytes(kind, Missing(a), r))) % BlockBytes = 0
<1> DEFINE d == BlockBytes
           s == a.sigBytes
           q == s \div d
           m == s % d
           n == Missing(a)
           p == PadBytes(kind, n, r)
<1>1. d \in Nat \ {0} /\ s \in Nat /\ n \in 1 .. d /\ n = d - m /\ n \in Byte
  BY MissingIs DEF IsWords
<1>2. q \in Nat /\ m \in 0 .. d - 1 /\ q * d + m = s
  <2>1. d \in Nat /\ d > 0 /\ s \in Nat
    BY <1>1
  <2> HIDE DEF d, s
  <2> QED BY <2>1, DivMod
<1>3. Len(p) = n \/ (Len(p) = 0 /\ m = 0)
  <2>1. CASE kind = "Pkcs7"
    BY <2>1, <1>1 DEF PadBytes
  <2>2. CASE kind = "AnsiX923"
    <3>1. p = Zeros(n - 1) \o <<n>>
      BY <2>2 DEF PadBytes
    <3>2. Zeros(n - 1) \in Seq(Byte) /\ Len(Zeros(n - 1)) = n - 1
      <4>1. n - 1 \in Nat
        BY <1>1
      <4> QED BY <4>1, ZerosSeq
    <3> HIDE DEF p, n
    <3> QED BY <3>1, <3>2, <1>1, OneByte, TwoLong
  <2>3. CASE kind = "Iso10126"
    <3>1. p = SubSeq(r, 1, n - 1) \o <<n>>
      BY <2>3 DEF PadBytes
    <3>2. SubSeq(r, 1, n - 1) \in Seq(Byte) /\ Len(SubSeq(r, 1, n - 1)) = n - 1
      BY <1>1, RandomBytes
    <3> HIDE DEF p, n
    <3> QED BY <3>1, <3>2, <1>1, OneByte, TwoLong
  <2>4. CASE kind = "Iso97971"
    <3>1. p = <<Mark>> \o Zeros(n - 1)
      BY <2>4 DEF PadBytes
    <3>2. Zeros(n - 1) \in Seq(Byte) /\ Len(Zeros(n - 1)) = n - 1
      <4>1. n - 1 \in Nat
        BY <1>1
      <4> QED BY <4>1, ZerosSeq
    <3> HIDE DEF p, n
    <3> QED BY <3>1, <3>2, <1>1, MarkIsByte, OneByte, TwoLong
  <2>5. CASE kind = "Zero"
    <3>1. p = Zeros(n % d)
      BY <2>5 DEF PadBytes
    <3>2. n % d \in Nat /\ (n < d => n % d = n) /\ (n = d => n % d = 0)
      <4> HIDE DEF n, d
      <4> QED BY <1>1, SmallRest, DivMod
    <3>3. Len(p) = n % d
      <4> HIDE DEF n, p
      <4> QED BY <3>1, <3>2, ZerosSeq
    <3> HIDE DEF n, p, m, d
    <3> QED BY <3>2, <3>3, <1>1, <1>2
  <2>6. CASE kind = "No"
    BY <2>6 DEF PadBytes
  <2> QED BY <2>1, <2>2, <2>3, <2>4, <2>5, <2>6 DEF Kinds
<1> HIDE DEF d, q, s, m, n, p
<1>4. CASE Len(p) = n
  <2>1. s + n = (q + 1) * d + 0 /\ q + 1 \in Nat
    <3>1. q * d \in Nat /\ (q + 1) * d = q * d + d
      BY <1>1, <1>2, Times
    <3> QED BY <3>1, <1>1, <1>2
  <2>2. ((q + 1) * d + 0) % d = 0
    <3>1. 0 \in Nat /\ 0 < d /\ d \in Nat
      BY <1>1
    <3> QED BY <3>1, <2>1, DivIs
  <2> QED BY <2>1, <2>2, <1>4 DEF d, s, n, p
<1>5. CASE Len(p) = 0 /\ m = 0
  <2>1. s + Len(p) = s
    BY <1>1, <1>5
  <2> QED BY <2>1, <1>5 DEF d, s, n, p, m
<1> QED BY <1>3, <1>4, <1>5

\* the whole padded message
PaddedText(kind, t, r) == Bytes(pad(kind, Create(t), r))

\* What a padded message is: the message, and the padding behind it.
LEMMA PaddedTextIs ==
    ASSUME NEW kind \in Kinds, NEW t \in Seq(Byte), NEW r \in Seq(Byte), Len(r) >= BlockBytes - 1
    PROVE  PaddedText(kind, t, r) = t \o PadBytes(kind, Missing(Create(t)), r)
<1> DEFINE c == Create(t)
           p == PadBytes(kind, Missing(c), r)
           w == pad(kind, c, r)
<1>1. IsWords(c) /\ c.sigBytes = Len(t) /\ \A i \in Nat \ {0} : ByteAt(c.words, i) = ByteAt(t, i)
  BY CreateWords
<1> HIDE DEF c
<1>2. p \in Seq(Byte) /\ Joined(w, c, Create(p))
  BY <1>1, PadJoins
<1> HIDE DEF p, w
<1>3. Create(p).sigBytes = Len(p) /\ \A i \in Nat \ {0} : ByteAt(Create(p).words, i) = ByteAt(p, i)
  BY <1>2, CreateWords
<1>4. t \o p \in Seq(Byte) /\ Len(t \o p) = Len(t) + Len(p) /\ Len(t) \in Nat /\ Len(p) \in Nat
  BY <1>2, TwoLong
<1>5. w.words \in Seq(Byte) /\ w.sigBytes = Len(t) + Len(p)
  BY <1>1, <1>2, <1>3 DEF Joined
<1>6. ASSUME NEW i \in 1 .. Len(t) + Len(p) PROVE ByteAt(w.words, i) = (t \o p)[i]
  <2>1. i \in Nat \ {0} /\ (t \o p)[i] = ByteAt(t \o p, i)
    BY <1>4 DEF ByteAt
  <2>2. CASE i <= Len(t)
    <3>1. ByteAt(t \o p, i) = ByteAt(t, i)
      BY <2>1, <2>2, <1>2, ByteOfTwo
    <3>2. ByteAt(w.words, i) = ByteAt(c.words, i)
      BY <2>1, <2>2, <1>1, <1>2, <1>4 DEF Joined
    <3> QED BY <2>1, <3>1, <3>2, <1>1
  <2>3. CASE i > Len(t)
    <3> DEFINE j == i - Len(t)
    <3>1. j \in 1 .. Len(p) /\ j \in Nat \ {0} /\ Len(t) + j = i
      BY <2>3, <1>4
    <3>2. ByteAt(t \o p, i) = ByteAt(p, j)
      BY <2>1, <2>3, <1>2, ByteOfTwo
    <3> HIDE DEF j
    <3>3. ByteAt(w.words, Len(t) + j) = ByteAt(Create(p).words, j)
      BY <3>1, <1>1, <1>2, <1>3 DEF Joined
    <3> QED BY <2>1, <3>1, <3>2, <3>3, <1>3
  <2> QED BY <2>2, <2>3, <1>4
<1>7. Bytes(w) = [i \in 1 .. Len(t) + Len(p) |-> (t \o p)[i]]
  BY <1>5, <1>6 DEF Bytes
<1>8. t \o p = [i \in 1 .. Len(t) + Len(p) |-> (t \o p)[i]]
  <2> DEFINE y == t \o p
  <2>1. y \in Seq(Byte) /\ Len(y) = Len(t) + Len(p)
    BY <1>4
  <2> HIDE DEF y
  <2>2. y = [i \in 1 .. Len(y) |-> y[i]]
    BY <2>1
  <2> QED BY <2>1, <2>2 DEF y
<1> QED BY <1>7, <1>8 DEF PaddedText, w, p, c

\* The bytes of a padded message, and how many they are.
LEMMA PaddedTextBytes ==
    ASSUME NEW kind \in Kinds, NEW t \in Seq(Byte), NEW r \in Seq(Byte), Len(r) >= BlockBytes - 1
    PROVE  /\ PaddedText(kind, t, r) \in Seq(Byte) /\ Len(t) <= Len(PaddedText(kind, t, r))
           /\ \A i \in 1 .. Len(t) : PaddedText(kind, t, r)[i] = t[i]
           /\ kind # "No" \/ Len(t) % BlockBytes = 0 => Len(PaddedText(kind, t, r)) % BlockBytes = 0
           /\ kind = "No" => PaddedText(kind, t, r) = t
<1> DEFINE c == Create(t)
           p == PadBytes(kind, Missing(c), r)
           P == PaddedText(kind, t, r)
<1>1. IsWords(c) /\ c.sigBytes = Len(t)
  BY CreateWords
<1>2. P = t \o p
  BY PaddedTextIs
<1> HIDE DEF P, c
<1>3. p \in Seq(Byte)
  BY <1>1, PadJoins
<1>4. kind # "No" \/ Len(t) % BlockBytes = 0 => (Len(t) + Len(p)) % BlockBytes = 0
  BY <1>1, PadLen
<1>5. kind = "No" => p = << >>
  BY DEF PadBytes
<1> HIDE DEF p
<1>6. t \o p \in Seq(Byte) /\ Len(t \o p) = Len(t) + Len(p) /\ Len(t) \in Nat /\ Len(p) \in Nat
  BY <1>3, TwoLong
<1>7. \A i \in 1 .. Len(t) : (t \o p)[i] = t[i]
  BY <1>3
<1>8. kind = "No" => t \o p = t
  BY <1>5
<1> QED BY <1>2, <1>4, <1>6, <1>7, <1>8 DEF P

\* What is missing to a whole block does not depend on the blocks before.
LEMMA SameMissing ==
    ASSUME NEW a, IsWords(a), NEW c, IsWords(c), NEW q \in Nat, c.sigBytes = q * BlockBytes + a.sigBytes
    PROVE  Missing(c) = Missing(a)
<1> DEFINE d == BlockBytes
           s == a.sigBytes
           k == s \div d
           m == s % d
<1>1. d \in Nat /\ d > 0 /\ s \in Nat
  BY MissingIs DEF IsWords
<1> HIDE DEF d, s
<1>2. k \in Nat /\ m \in 0 .. d - 1 /\ k * d + m = s
  BY <1>1, DivMod
<1> HIDE DEF k, m
<1>3. (q + k) * d = q * d + k * d /\ q * d \in Nat /\ k * d \in Nat /\ q + k \in Nat
  BY <1>1, <1>2, Times
<1>4. c.sigBytes = (q + k) * d + m
  BY <1>1, <1>2, <1>3 DEF d, s
<1>5. ((q + k) * d + m) % d = m
  <2>1. m \in Nat /\ m < d
    BY <1>1, <1>2
  <2> QED BY <2>1, <1>1, <1>3, DivIs
<1> QED BY <1>4, <1>5 DEF Missing, d, m, s

\* Padding what is left of a message gives what is left of the padded message.
LEMMA PadKeeps ==
    ASSUME NEW kind \in Kinds, NEW t \in Seq(Byte), NEW r \in Seq(Byte), Len(r) >= BlockBytes - 1,
           NEW q \in Nat, q * BlockBytes <= Len(t), NEW a,
           Keeps(a, PaddedText(kind, t, r), q * BlockBytes, Len(t))
    PROVE  Keeps(pad(kind, a, r), PaddedText(kind, t, r), q * BlockBytes, Len(PaddedText(kind, t, r)))
<1> DEFINE c == Create(t)
           p == PadBytes(kind, Missing(c), r)
           P == PaddedText(kind, t, r)
           m == q * BlockBytes
           w == pad(kind, a, r)
<1>1. IsWords(c) /\ c.sigBytes = Len(t)
  BY CreateWords
<1>2. P = t \o p
  BY PaddedTextIs
<1>3. m \in Nat /\ Len(t) \in Nat /\ m <= Len(t)
  BY Times, BlockSize
<1> HIDE DEF P, c, m
<1>4. IsWords(a) /\ a.sigBytes = Len(t) - m /\ \A i \in 1 .. Len(t) - m : ByteAt(a.words, i) = P[m + i]
  BY <1>3 DEF Keeps, IsWords, P, m
<1>5. Missing(c) = Missing(a)
  <2>1. c.sigBytes = q * BlockBytes + a.sigBytes
    BY <1>1, <1>3, <1>4 DEF m
  <2> QED BY <2>1, <1>1, <1>4, SameMissing
<1>6. p \in Seq(Byte) /\ Joined(w, a, Create(p))
  BY <1>4, <1>5, PadJoins
<1> HIDE DEF p, w
<1>7. Create(p).sigBytes = Len(p) /\ \A i \in Nat \ {0} : ByteAt(Create(p).words, i) = ByteAt(p, i)
  BY <1>6, CreateWords
<1>8. t \o p \in Seq(Byte) /\ Len(t \o p) = Len(t) + Len(p) /\ Len(p) \in Nat
  BY <1>6, TwoLong
<1>9. w.words \in Seq(Byte) /\ w.sigBytes = Len(P) - m
  BY <1>2, <1>3, <1>4, <1>6, <1>7, <1>8 DEF Joined
<1>10. ASSUME NEW i \in 1 .. Len(P) - m PROVE ByteAt(w.words, i) = P[m + i]
  <2>1. CASE i <= Len(t) - m
    <3>1. i \in 1 .. Len(t) - m
      BY <2>1, <1>3
    <3> QED BY <3>1, <1>4, <1>6 DEF Joined
  <2>2. CASE i > Len(t) - m
    <3> DEFINE j == i - (Len(t) - m)
    <3>1. j \in 1 .. Len(p) /\ j \in Nat \ {0} /\ (Len(t) - m) + j = i /\ m + i = Len(t) + j
          /\ i \in Nat \ {0}
      BY <2>2, <1>2, <1>3, <1>8
    <3> HIDE DEF j
    <3>2. ByteAt(w.words, i) = ByteAt(p, j)
      <4>1. ByteAt(w.words, a.sigBytes + j) = ByteAt(Create(p).words, j)
        BY <3>1, <1>6, <1>7 DEF Joined
      <4> QED BY <4>1, <3>1, <1>4, <1>7
    <3>3. p[j] = ByteAt(p, j) /\ (t \o p)[Len(t) + j] = p[j]
      BY <3>1, <1>6, <1>3, <1>8 DEF ByteAt
    <3> QED BY <3>1, <3>2, <3>3, <1>2
  <2> QED BY <2>1, <2>2, <1>3
<1> QED BY <1>9, <1>10 DEF Keeps, P, m, w

\* A piece of a message is what comes next of it, whatever lies behind the piece.
LEMMA PieceKeeps ==
    ASSUME NEW t \in Seq(Byte), NEW P, \A i \in 1 .. Len(t) : P[i] = t[i],
           pos \in Nat, NEW n \in Nat, pos + n <= Len(t), NEW left \in Byte
    PROVE  Keeps(Piece(t, n, left), P, pos, pos + n)
<1> DEFINE p == SubSeq(t, pos + 1, pos + n)
           u == [i \in 1 .. Up(n) - n + WordBytes |-> left]
           w == Piece(t, n, left)
<1>1. p \in Seq(Byte) /\ Len(p) = n /\ \A i \in 1 .. n : p[i] = t[pos + i]
  <2>1. p \in Seq(Byte)
    BY PieceFollows
  <2>2. Len(t) \in Nat
    OBVIOUS
  <2> QED BY <2>1, <2>2
<1>2. u \in Seq(Byte)
  <2>1. Up(n) - n + WordBytes \in Nat
    BY UpFacts, Sizes3
  <2> QED BY <2>1
<1>3. w.words = p \o u /\ w.sigBytes = n
  BY DEF Piece
<1> HIDE DEF p, u, w
<1>4. p \o u \in Seq(Byte)
  BY <1>1, <1>2
<1>5. ASSUME NEW i \in 1 .. n PROVE ByteAt(p \o u, i) = P[pos + i]
  <2>1. ByteAt(p \o u, i) = ByteAt(p, i) /\ ByteAt(p, i) = p[i]
    <3>1. i \in Nat \ {0} /\ i <= Len(p)
      BY <1>1
    <3> QED BY <3>1, <1>1, <1>2, ByteOfTwo DEF ByteAt
  <2>2. p[i] = t[pos + i] /\ pos + i \in 1 .. Len(t)
    BY <1>1
  <2> QED BY <2>1, <2>2
<1>6. (pos + n) - pos = n
  OBVIOUS
<1> QED BY <1>3, <1>4, <1>5, <1>6 DEF Keeps, w

-----------------------------------------------------------------------------
\* _process, of a buffer that keeps what is left of P.

\* b is the block k of P, as far as P goes up to e
IsBlockOf(b, P, k, size, e) ==
    /\ b \in [1 .. size -> Byte]
    /\ \A i \in 1 .. size : (k - 1) * size + i <= e => b[i] = P[(k - 1) * size + i]

\* Where a block of the buffer is in P.
LEMMA BlockKeeps ==
    ASSUME NEW w, NEW P, NEW size \in Nat, NEW q \in Nat, NEW e \in Nat, q * size <= e,
           Keeps(w, P, q * size, e), NEW k \in Nat \ {0}
    PROVE  IsBlockOf(Block(w.words, k - 1, size), P, q + k, size, e)
<1> DEFINE m == q * size
           l == (k - 1) * size
           b == Block(w.words, k - 1, size)
<1>1. k - 1 \in Nat /\ ((q + k) - 1) = q + (k - 1) /\ q + k \in Nat
  OBVIOUS
<1>2. m \in Nat /\ l \in Nat /\ ((q + k) - 1) * size = m + l
  <2>1. (q + (k - 1)) * size = q * size + (k - 1) * size /\ q * size \in Nat /\ (k - 1) * size \in Nat
    BY <1>1, Times
  <2> QED BY <2>1, <1>1
<1>3. w.words \in Seq(Byte) /\ w.sigBytes = e - m /\ \A i \in 1 .. e - m : ByteAt(w.words, i) = P[m + i]
  BY DEF Keeps
<1>4. b = [i \in 1 .. size |-> ByteAt(w.words, l + i)]
  BY DEF Block
<1> HIDE DEF m, l, b
<1>5. b \in [1 .. size -> Byte]
  BY <1>3, <1>4, ByteInByte
<1>6. ASSUME NEW i \in 1 .. size, (m + l) + i <= e PROVE b[i] = P[(m + l) + i]
  <2>1. l + i \in 1 .. e - m /\ m + (l + i) = (m + l) + i
    BY <1>2, <1>6
  <2> QED BY <2>1, <1>3, <1>4
<1> QED BY <1>2, <1>5, <1>6 DEF IsBlockOf, b

\* What is behind the blocks that are taken.
LEMMA RestKeeps ==
    ASSUME NEW w, NEW P, NEW m \in Nat, NEW e \in Nat, NEW l \in Nat, m + l <= e, Keeps(w, P, m, e),
           NEW u, u.words = SubSeq(w.words, l + 1, Len(w.words)), u.sigBytes = e - (m + l)
    PROVE  Keeps(u, P, m + l, e)
<1>1. w.words \in Seq(Byte) /\ \A i \in 1 .. e - m : ByteAt(w.words, i) = P[m + i]
  BY DEF Keeps
<1>2. u.words \in Seq(Byte) /\ \A i \in Nat \ {0} : ByteAt(u.words, i) = ByteAt(w.words, l + i)
  <2>1. CASE l <= Len(w.words)
    BY <2>1, <1>1, FromByte
  <2>2. CASE l > Len(w.words)
    <3>1. Len(w.words) \in Nat
      BY <1>1
    <3>2. u.words = << >>
      BY <3>1, <2>2, <1>1
    <3>3. ASSUME NEW i \in Nat \ {0} PROVE ByteAt(u.words, i) = ByteAt(w.words, l + i)
      <4>1. i \notin DOMAIN u.words /\ l + i \notin DOMAIN w.words
        BY <3>1, <3>2, <2>2, <1>1
      <4> QED BY <4>1 DEF ByteAt
    <3> QED BY <3>2, <3>3
  <2>3. Len(w.words) \in Nat
    BY <1>1
  <2> QED BY <2>1, <2>2, <2>3
<1>3. ASSUME NEW i \in 1 .. e - (m + l) PROVE ByteAt(u.words, i) = P[(m + l) + i]
  <2>1. i \in Nat \ {0} /\ l + i \in 1 .. e - m /\ m + (l + i) = (m + l) + i
    OBVIOUS
  <2> QED BY <2>1, <1>1, <1>2
<1> QED BY <1>2, <1>3 DEF Keeps

\* t is what is taken of P from block q on, in a buffer that reaches to e: n blocks.
Takes(t, P, q, size, e, n) ==
    /\ t.blocks = [k \in 1 .. n |-> t.blocks[k]]
    /\ \A k \in 1 .. n : IsBlockOf(t.blocks[k], P, q + k, size, e)

\* how many bytes are not taken if some blocks are to be kept
Kept(back, size) == IF back = 0 THEN 0 ELSE size

\* t is what is taken if the last back blocks are kept
TakesWhole(t, P, q, size, back, e, n) ==
    /\ Takes(t, P, q, size, e, n)
    /\ (q + n) * size <= e /\ e - (q + n) * size < size + Kept(back, size)
    /\ n = 0 \/ (q + n) * size + Kept(back, size) <= e
    /\ t.sigBytes = n * size
    /\ Keeps(t.rest, P, (q + n) * size, e)

\* Not in a flush: the whole blocks, without the last if it is to be kept.
LEMMA TakenWhole ==
    ASSUME NEW w, NEW P, NEW size \in Nat \ {0}, NEW back \in {0, 1}, NEW q \in Nat, NEW e \in Nat,
           q * size <= e, Keeps(w, P, q * size, e)
    PROVE  \E n \in Nat : TakesWhole(Taken(w, size, back, FALSE), P, q, size, back, e, n)
<1> DEFINE m == q * size
           s == w.sigBytes
           a == s \div size
           n == IF a > back THEN a - back ELSE 0
           r == s % size
           l == n * size
           kept == Kept(back, size)
           t == Taken(w, size, back, FALSE)
<1>1. m \in Nat /\ s \in Nat /\ s = e - m /\ size > 0 /\ m <= e
  <2>1. m \in Nat
    BY Times
  <2>2. s = e - m
    BY DEF Keeps
  <2> HIDE DEF m
  <2> QED BY <2>1, <2>2 DEF m
<1>2. a \in Nat /\ r \in 0 .. size - 1 /\ a * size + r = s /\ a * size \in Nat
  <2>1. a \in Nat /\ r \in 0 .. size - 1 /\ a * size + r = s
    <3> HIDE DEF s
    <3> QED BY <1>1, DivMod
  <2> HIDE DEF a
  <2> QED BY <2>1, Times
<1>3. n \in Nat /\ l \in Nat /\ l <= s /\ s - l < size + kept /\ (n = 0 \/ l + kept <= s)
  <2> DEFINE y == a * size
  <2>1. CASE a > back
    <3>1. n = a - back /\ n \in Nat /\ n # 0
      BY <2>1, <1>2
    <3>2. y = l + kept /\ l \in Nat
      <4>1. CASE back = 0
        <5>1. n = a
          <6> HIDE DEF n, a
          <6> QED BY <3>1, <4>1, <1>2
        <5>2. kept = 0
          BY <4>1 DEF Kept
        <5>3. y = l /\ y \in Nat
          <6> HIDE DEF n, a
          <6> QED BY <5>1, <1>2
        <5> HIDE DEF kept, l, y
        <5> QED BY <5>2, <5>3
      <4>2. CASE back = 1
        <5>1. n + 1 = a
          <6> HIDE DEF n, a
          <6> QED BY <3>1, <4>2, <1>2
        <5>2. (n + 1) * size = n * size + 1 * size /\ 1 * size = size /\ n * size \in Nat
          <6> HIDE DEF n
          <6> QED BY <3>1, Times
        <5> QED BY <5>1, <5>2, <4>2 DEF Kept
      <4> QED BY <4>1, <4>2
    <3> HIDE DEF s, a, n, l, r, y
    <3>3. y \in Nat /\ y + r = s /\ r \in 0 .. size - 1
      BY <1>2 DEF y
    <3>4. kept \in Nat
      BY DEF Kept
    <3> HIDE DEF kept
    <3> QED BY <3>1, <3>2, <3>3, <3>4, <1>1
  <2>2. CASE ~(a > back)
    <3>1. n = 0 /\ l = 0
      BY <2>2
    <3>2. y <= kept /\ y \in Nat
      <4>1. CASE back = 0
        <5>1. a = 0
          BY <4>1, <2>2, <1>2
        <5> QED BY <5>1, <4>1 DEF Kept
      <4>2. CASE back = 1
        <5>1. a = 0 \/ a = 1
          BY <4>2, <2>2, <1>2
        <5>2. 0 * size = 0 /\ 1 * size = size
          OBVIOUS
        <5> QED BY <5>1, <5>2, <4>2 DEF Kept
      <4> QED BY <4>1, <4>2
    <3> HIDE DEF s, a, n, l, r, y
    <3>3. y + r = s /\ r \in 0 .. size - 1
      BY <1>2 DEF y
    <3>4. kept \in Nat
      BY DEF Kept
    <3> HIDE DEF kept
    <3> QED BY <3>1, <3>2, <3>3, <3>4, <1>1
  <2> QED BY <2>1, <2>2
<1>4. (q + n) * size = m + l
  <2> HIDE DEF n
  <2> QED BY <1>3, Times
<1>5. t = [blocks |-> [k \in 1 .. n |-> Block(w.words, k - 1, size)], sigBytes |-> l,
           rest |-> [words |-> SubSeq(w.words, l + 1, Len(w.words)), sigBytes |-> s - l]]
  <2>1. BlocksReady(w, size, back, FALSE) = n
    BY DEF BlocksReady
  <2> HIDE DEF n
  <2>2. Least(l, s) = l
    <3> HIDE DEF l, s, r
    <3> QED BY <1>1, <1>3 DEF Least
  <2> QED BY <2>1, <2>2 DEF Taken
<1> HIDE DEF t, n, r, l, a, kept
<1>6. \A k \in 1 .. n : t.blocks[k] = Block(w.words, k - 1, size)
  BY <1>5
<1>7. \A k \in 1 .. n : IsBlockOf(t.blocks[k], P, q + k, size, e)
  <2> SUFFICES ASSUME NEW k \in 1 .. n PROVE IsBlockOf(t.blocks[k], P, q + k, size, e)
    OBVIOUS
  <2>1. k \in Nat \ {0}
    BY <1>3
  <2>2. IsBlockOf(Block(w.words, k - 1, size), P, q + k, size, e)
    BY <2>1, <1>1, BlockKeeps
  <2> QED BY <2>2, <1>6
<1>8. Keeps(t.rest, P, m + l, e)
  <2>1. t.rest.words = SubSeq(w.words, l + 1, Len(w.words)) /\ t.rest.sigBytes = e - (m + l) /\ m + l <= e
    <3> HIDE DEF m, s
    <3> QED BY <1>1, <1>3, <1>5
  <2> QED BY <2>1, <1>1, <1>3, RestKeeps
<1>9. m + l <= e /\ e - (m + l) < size + kept /\ (n = 0 \/ (m + l) + kept <= e)
  <2>1. kept \in Nat
    BY DEF Kept, kept
  <2> HIDE DEF m, s
  <2> QED BY <2>1, <1>1, <1>3
<1>10. Takes(t, P, q, size, e, n)
  <2>1. t.blocks = [k \in 1 .. n |-> t.blocks[k]]
    BY <1>5
  <2> QED BY <2>1, <1>7 DEF Takes
<1>11. t.sigBytes = l
  BY <1>5
<1>12. TakesWhole(t, P, q, size, back, e, n)
  BY <1>4, <1>8, <1>9, <1>10, <1>11 DEF TakesWhole, l, kept
<1> QED BY <1>3, <1>12 DEF t

\* t is what is taken of P up to e: n blocks, of which the last may be short.
TakesAll(t, P, q, size, e, n) ==
    /\ Takes(t, P, q, size, e, n)
    /\ e <= (q + n) * size /\ (n = 0 \/ (q + n - 1) * size < e)
    /\ t.sigBytes = e - q * size

\* In a flush: all blocks.
LEMMA TakenAll ==
    ASSUME NEW w, NEW P, NEW size \in Nat \ {0}, NEW back, NEW q \in Nat, NEW e \in Nat, q * size <= e,
           Keeps(w, P, q * size, e)
    PROVE  \E n \in Nat : TakesAll(Taken(w, size, back, TRUE), P, q, size, e, n)
<1> DEFINE m == q * size
           s == w.sigBytes
           y == s + size - 1
           n == y \div size
           r == y % size
           l == n * size
           t == Taken(w, size, back, TRUE)
<1>1. m \in Nat /\ s \in Nat /\ s = e - m /\ size > 0 /\ m <= e /\ y \in Nat
  <2>1. m \in Nat
    BY Times
  <2>2. s = e - m
    BY DEF Keeps
  <2>3. m <= e
    OBVIOUS
  <2> HIDE DEF m, s
  <2> QED BY <2>1, <2>2, <2>3
<1>2. n \in Nat /\ r \in 0 .. size - 1 /\ l + r = y
  <2> HIDE DEF y
  <2> QED BY <1>1, DivMod
<1>3. l \in Nat /\ (q + n) * size = m + l
  <2> HIDE DEF n
  <2> QED BY <1>2, Times
<1>4. t = [blocks |-> [k \in 1 .. n |-> Block(w.words, k - 1, size)], sigBytes |-> s,
           rest |-> [words |-> SubSeq(w.words, l + 1, Len(w.words)), sigBytes |-> s - s]]
  <2>1. BlocksReady(w, size, back, TRUE) = n
    BY DEF BlocksReady
  <2> HIDE DEF n
  <2>2. Least(l, s) = s
    <3> HIDE DEF l, s, r
    <3> QED BY <1>1, <1>2, <1>3 DEF Least
  <2> QED BY <2>1, <2>2 DEF Taken
<1> HIDE DEF t, n, r, l
<1>5. \A k \in 1 .. n : t.blocks[k] = Block(w.words, k - 1, size)
  BY <1>4
<1>6. \A k \in 1 .. n : IsBlockOf(t.blocks[k], P, q + k, size, e)
  <2> SUFFICES ASSUME NEW k \in 1 .. n PROVE IsBlockOf(t.blocks[k], P, q + k, size, e)
    OBVIOUS
  <2>1. k \in Nat \ {0}
    BY <1>2
  <2>2. IsBlockOf(Block(w.words, k - 1, size), P, q + k, size, e)
    BY <2>1, <1>1, BlockKeeps
  <2> QED BY <2>2, <1>5
<1>7. Takes(t, P, q, size, e, n)
  <2>1. t.blocks = [k \in 1 .. n |-> t.blocks[k]]
    BY <1>4
  <2> QED BY <2>1, <1>6 DEF Takes
<1>8. e <= m + l
  <2> HIDE DEF m, s
  <2> QED BY <1>1, <1>2, <1>3
<1>9. n = 0 \/ (q + n - 1) * size < e
  <2> SUFFICES ASSUME n # 0 PROVE (q + n - 1) * size < e
    OBVIOUS
  <2>1. n - 1 \in Nat /\ (n - 1) + 1 = n /\ q + n - 1 = q + (n - 1)
    BY <1>2
  <2>2. (q + (n - 1)) * size = m + (n - 1) * size /\ (n - 1) * size + size = l /\ (n - 1) * size \in Nat
    <3>1. ((n - 1) + 1) * size = (n - 1) * size + 1 * size /\ (n - 1) * size \in Nat
      BY <2>1, Times
    <3>2. (q + (n - 1)) * size = m + (n - 1) * size
      BY <2>1, Times
    <3>3. n * size = l
      BY DEF l
    <3>4. ((n - 1) + 1) * size = l
      BY ONLY <2>1, <3>3
    <3>5. 1 * size = size
      OBVIOUS
    <3> QED BY <3>1, <3>2, <3>4, <3>5
  <2> DEFINE z == (n - 1) * size
  <2> HIDE DEF m, s, z
  <2>3. m + z < e
    BY <1>1, <1>2, <1>3, <2>2 DEF z
  <2> QED BY <2>1, <2>2, <2>3 DEF z
<1>10. t.sigBytes = e - m
  BY <1>1, <1>4
<1>11. e <= (q + n) * size
  BY <1>3, <1>8
<1>12. TakesAll(t, P, q, size, e, n)
  <2> HIDE DEF s, y
  <2> QED BY <1>7, <1>9, <1>10, <1>11 DEF TakesAll
<1> QED BY <1>2, <1>12 DEF t

-----------------------------------------------------------------------------
\* One block.

Rc4State       == [S : [Byte -> Byte], i : Byte, j : Byte]
AllModes       == Modes \cup {"RC4"}
Back(xf, mode) == IF mode # "RC4" /\ xf = "dec" THEN 1 ELSE 0
SizeOf(mode)   == IF mode = "RC4" THEN WordBytes ELSE BlockBytes
StateOf(mode)  == IF mode = "RC4" THEN Rc4State ELSE BlockOf
BlocksOf(mode) == [1 .. SizeOf(mode) -> Byte]
Crypt(xf, mode, key, reg, b) ==
    IF mode = "RC4" THEN Rc4Crypt(reg, b)
    ELSE IF xf = "enc" THEN Encrypt(mode, key, reg, b) ELSE Decrypt(mode, key, reg, b)
AKey           == Seq(Byte) \ {<< >>}
\* a block cipher turns blocks into blocks
EncryptsBlocks == \A k \in AKey, b \in BlockOf : encryptBlock(k, b) \in BlockOf
\* and back
DecryptsBlocks == \A k \in AKey, b \in BlockOf :
                      decryptBlock(k, b) \in BlockOf /\ decryptBlock(k, encryptBlock(k, b)) = b
\* what a cipher object that encrypts or decrypts needs of the block cipher
Xforms    == {"enc", "dec"}
Works(xf) == EncryptsBlocks /\ (xf = "dec" => DecryptsBlocks)

\* To encrypt, it is enough that there is encryption.
LEMMA EncWorks == ASSUME EncryptsBlocks PROVE "enc" \in Xforms /\ Works("enc")
  BY DEF Xforms, Works

\* An XOR of blocks is a block.
LEMMA XorIsBlock == ASSUME NEW a \in BlockOf, NEW b \in BlockOf PROVE xorBlock(a, b) \in BlockOf
  BY ByteAssumption DEF xorBlock, BlockOf

\* what a mode that needs no whole blocks XORs with the data
Mask(mode, key, reg) == encryptBlock(key, IF mode = "CTRGladman" THEN incCounter(reg) ELSE reg)

\* Such a mode XORs.
LEMMA StreamXors ==
    ASSUME NEW mode \in Modes \ {"ECB", "CBC"}, NEW key, NEW reg, NEW b
    PROVE  /\ Encrypt(mode, key, reg, b).block = xorBlock(b, Mask(mode, key, reg))
           /\ Decrypt(mode, key, reg, b).block = xorBlock(b, Mask(mode, key, reg))
<1>1. CASE mode = "CFB"
  BY <1>1 DEF Encrypt, Decrypt, CfbEncrypt, CfbDecrypt, Step, Mask
<1>2. CASE mode = "OFB"
  BY <1>2 DEF Encrypt, Decrypt, OfbCrypt, Step, Mask
<1>3. CASE mode = "CTR"
  BY <1>3 DEF Encrypt, Decrypt, CtrCrypt, Step, Mask
<1>4. CASE mode = "CTRGladman"
  BY <1>4 DEF Encrypt, Decrypt, GladmanCrypt, Step, Mask
<1> QED BY <1>1, <1>2, <1>3, <1>4 DEF Modes

\* Every mode gives a block and a block to remember.
LEMMA EncryptTyped ==
    ASSUME EncryptsBlocks, NEW mode \in Modes, NEW key \in AKey, NEW reg \in BlockOf, NEW b \in BlockOf
    PROVE  Encrypt(mode, key, reg, b).block \in BlockOf /\ Encrypt(mode, key, reg, b).state \in BlockOf
<1>1. CASE mode = "ECB"
  BY <1>1 DEF Encrypt, EcbEncrypt, Step, EncryptsBlocks
<1>2. CASE mode = "CBC"
  <2>1. encryptBlock(key, xorBlock(b, reg)) \in BlockOf
    BY XorIsBlock DEF EncryptsBlocks
  <2> QED BY <1>2, <2>1 DEF Encrypt, CbcEncrypt, Step
<1>3. CASE mode = "CFB"
  <2>1. xorBlock(b, encryptBlock(key, reg)) \in BlockOf
    BY XorIsBlock DEF EncryptsBlocks
  <2> QED BY <1>3, <2>1 DEF Encrypt, CfbEncrypt, Step
<1>4. CASE mode = "OFB"
  <2>1. encryptBlock(key, reg) \in BlockOf /\ xorBlock(b, encryptBlock(key, reg)) \in BlockOf
    BY XorIsBlock DEF EncryptsBlocks
  <2> QED BY <1>4, <2>1 DEF Encrypt, OfbCrypt, Step
<1>5. CASE mode = "CTR"
  <2>1. CtrNext(reg) \in BlockOf /\ xorBlock(b, encryptBlock(key, reg)) \in BlockOf
    BY XorIsBlock, CtrIsBlock DEF EncryptsBlocks
  <2> QED BY <1>5, <2>1 DEF Encrypt, CtrCrypt, Step
<1>6. CASE mode = "CTRGladman"
  <2>1. incCounter(reg) \in BlockOf
    BY GladmanIsBlock
  <2>2. xorBlock(b, encryptBlock(key, incCounter(reg))) \in BlockOf
    BY <2>1, XorIsBlock DEF EncryptsBlocks
  <2> QED BY <1>6, <2>1, <2>2 DEF Encrypt, GladmanCrypt, Step
<1> QED BY <1>1, <1>2, <1>3, <1>4, <1>5, <1>6 DEF Modes

-----------------------------------------------------------------------------
\* RC4, byte by byte.

RcStep(s) == LET i == (s.i + 1) % Base
                 j == (s.j + s.S[i]) % Base
             IN  [S |-> Swap(s.S, i, j), i |-> i, j |-> j]
RcOut(n)  == n.S[(n.S[n.i] + n.S[n.j]) % Base]

\* A rest by Base is a byte.
LEMMA RestIsByte == ASSUME NEW n \in Nat PROVE n % Base \in Byte
  BY BaseIsPositive, DivMod DEF Byte

\* Two bytes add up to a number.
LEMMA ByteIsNat == ASSUME NEW a \in Byte, NEW b \in Byte PROVE a \in Nat /\ a + b \in Nat
  BY BaseIsPositive DEF Byte

\* A swap leaves a table of bytes.
LEMMA SwapTyped ==
    ASSUME NEW S \in [Byte -> Byte], NEW i \in Byte, NEW j \in Byte
    PROVE  Swap(S, i, j) \in [Byte -> Byte]
  BY DEF Swap

\* The next state, and its byte.
LEMMA RcTyped ==
    ASSUME NEW s \in Rc4State
    PROVE  RcStep(s) \in Rc4State /\ RcOut(s) \in Byte
<1> DEFINE i == (s.i + 1) % Base
           j == (s.j + s.S[i]) % Base
           o == (s.S[s.i] + s.S[s.j]) % Base
<1>1. s.S \in [Byte -> Byte] /\ s.i \in Byte /\ s.j \in Byte
  BY DEF Rc4State
<1>2. i \in Byte
  <2>1. s.i + 1 \in Nat
    BY <1>1, ByteIsNat
  <2> QED BY <2>1, RestIsByte
<1> HIDE DEF i
<1>3. j \in Byte
  <2>1. s.j + s.S[i] \in Nat
    BY <1>1, <1>2, ByteIsNat
  <2> QED BY <2>1, RestIsByte
<1>4. o \in Byte
  <2>1. s.S[s.i] + s.S[s.j] \in Nat
    BY <1>1, ByteIsNat
  <2> QED BY <2>1, RestIsByte
<1> HIDE DEF j, o
<1>5. RcStep(s) = [S |-> Swap(s.S, i, j), i |-> i, j |-> j]
  BY DEF RcStep, i, j
<1>6. RcStep(s) \in Rc4State
  BY <1>1, <1>2, <1>3, <1>5, SwapTyped DEF Rc4State
<1>7. RcOut(s) \in Byte
  BY <1>1, <1>4 DEF RcOut, o
<1> QED BY <1>6, <1>7

\* states that follow each other, from a to b
RcRun(h, a, b) == h[a] \in Rc4State /\ \A n \in a + 1 .. b : h[n] = RcStep(h[n - 1])

\* They are states.
LEMMA RcRunTyped ==
    ASSUME NEW h, NEW n \in Nat, RcRun(h, 0, n)
    PROVE  \A k \in 0 .. n : h[k] \in Rc4State
<1> DEFINE X == {k \in Nat : h[k] \in Rc4State}
<1>1. 0 \in X
  BY DEF RcRun
<1>2. ASSUME NEW k \in Nat, k < n /\ k \in X PROVE k + 1 \in X
  <2>1. k + 1 \in 0 + 1 .. n /\ (k + 1) - 1 = k
    BY <1>2
  <2>2. h[k + 1] = RcStep(h[k])
    BY <2>1 DEF RcRun
  <2> QED BY <1>2, <2>2, RcTyped
<1>3. \A k \in 0 .. n : k \in X
  <2> HIDE DEF X
  <2> QED BY <1>1, <1>2, UpTo
<1> QED BY <1>3

\* There are such states.
LEMMA RcRunExists ==
    ASSUME NEW s \in Rc4State, NEW n \in Nat
    PROVE  \E h : h[0] = s /\ RcRun(h, 0, n)
<1> DEFINE G == [k \in 1 .. n |-> [x \in Rc4State |-> RcStep(x)]]
<1>1. G \in [1 .. n -> [Rc4State -> Rc4State]]
  BY RcTyped
<1>2. PICK h : FunRun(h, Rc4State, n, s, G)
  <2> HIDE DEF G
  <2> QED BY <1>1, FunRunExists
<1>3. ASSUME NEW k \in 0 + 1 .. n PROVE h[k] = RcStep(h[k - 1])
  <2>1. k \in 1 .. n /\ k - 1 \in 0 .. n
    OBVIOUS
  <2> QED BY <2>1, <1>2 DEF FunRun
<1>4. RcRun(h, 0, n)
  BY <1>2, <1>3 DEF RcRun, FunRun
<1> QED BY <1>2, <1>4 DEF FunRun

\* Two functions that go on in the same way are the same.
LEMMA SameRun ==
    ASSUME NEW f, NEW g, NEW n \in Nat, f[0] = g[0], \A k \in 1 .. n : f[k - 1] = g[k - 1] => f[k] = g[k]
    PROVE  \A k \in 0 .. n : f[k] = g[k]
<1> DEFINE X == {k \in Nat : f[k] = g[k]}
<1>1. 0 \in X
  OBVIOUS
<1>2. ASSUME NEW k \in Nat, k < n /\ k \in X PROVE k + 1 \in X
  <2>1. k + 1 \in 1 .. n /\ (k + 1) - 1 = k
    BY <1>2
  <2> QED BY <1>2, <2>1
<1>3. \A k \in 0 .. n : k \in X
  <2> HIDE DEF X
  <2> QED BY <1>1, <1>2, UpTo
<1> QED BY <1>3

\* what generateKeystreamWord does for a byte
RcNext(p) == LET i == (p.i + 1) % Base
                 j == (p.j + p.S[i]) % Base
                 S == Swap(p.S, i, j)
             IN  [S |-> S, i |-> i, j |-> j, k |-> Append(p.k, S[(S[i] + S[j]) % Base])]

\* It is the next state, and one byte more.
LEMMA RcNextIs ==
    ASSUME NEW s, NEW p, p.S = s.S, p.i = s.i, p.j = s.j
    PROVE  RcNext(p) = [S |-> RcStep(s).S, i |-> RcStep(s).i, j |-> RcStep(s).j,
                        k |-> Append(p.k, RcOut(RcStep(s)))]
  BY DEF RcNext, RcStep, RcOut

\* g is what generateKeystreamWord gives, of the states h
RcWord(g, h) ==
    /\ g.S = h[WordBytes].S /\ g.i = h[WordBytes].i /\ g.j = h[WordBytes].j
    /\ g.k = [x \in 1 .. WordBytes |-> RcOut(h[x])]

\* One byte more.
LEMMA AppendOne ==
    ASSUME NEW h, NEW n \in Nat
    PROVE  Append([x \in 1 .. n |-> RcOut(h[x])], RcOut(h[n + 1])) = [x \in 1 .. n + 1 |-> RcOut(h[x])]
  OBVIOUS

\* A word of keystream is as many bytes.
LEMMA Rc4WordIs ==
    ASSUME NEW s \in Rc4State, NEW h, h[0] = s, RcRun(h, 0, WordBytes)
    PROVE  RcWord(Rc4Word(s), h)
<1> DEFINE W == WordBytes
           z == [S |-> s.S, i |-> s.i, j |-> s.j, k |-> << >>]
           Is(f) == f = [n \in 0 .. W |-> IF n = 0 THEN z ELSE RcNext(f[n - 1])]
           gen == CHOOSE f : Is(f)
           g == [n \in 0 .. W |-> [S |-> h[n].S, i |-> h[n].i, j |-> h[n].j,
                                   k |-> [x \in 1 .. n |-> RcOut(h[x])]]]
<1>1. Rc4Word(s) = gen[W]
  BY DEF Rc4Word, RcNext
<1>2. W \in Nat
  BY Sizes3
<1>3. g[0] = z
  <2>1. [x \in 1 .. 0 |-> RcOut(h[x])] = << >> /\ 0 \in 0 .. W
    BY <1>2
  <2> QED BY <2>1
<1>4. ASSUME NEW n \in 1 .. W PROVE g[n] = RcNext(g[n - 1])
  <2> DEFINE l == n - 1
             u == [S |-> h[l].S, i |-> h[l].i, j |-> h[l].j, k |-> [x \in 1 .. l |-> RcOut(h[x])]]
  <2>1. l \in Nat /\ l \in 0 .. W /\ l + 1 = n /\ n \in 0 + 1 .. W /\ n \in 0 .. W
    BY <1>2
  <2>2. g[l] = u
    BY <2>1
  <2>3. h[n] = RcStep(h[l])
    BY <2>1 DEF RcRun
  <2>4. u.S = h[l].S /\ u.i = h[l].i /\ u.j = h[l].j /\ u.k = [x \in 1 .. l |-> RcOut(h[x])]
    OBVIOUS
  <2>5. Append(u.k, RcOut(h[n])) = [x \in 1 .. n |-> RcOut(h[x])]
    <3>1. Append([x \in 1 .. l |-> RcOut(h[x])], RcOut(h[l + 1])) = [x \in 1 .. l + 1 |-> RcOut(h[x])]
      <4> HIDE DEF l
      <4> QED BY <2>1, AppendOne
    <3> QED BY <2>1, <2>4, <3>1
  <2>6. g[n] = [S |-> h[n].S, i |-> h[n].i, j |-> h[n].j, k |-> [x \in 1 .. n |-> RcOut(h[x])]]
    BY <2>1
  <2> HIDE DEF u, l, g
  <2>7. RcNext(u) = [S |-> RcStep(h[l]).S, i |-> RcStep(h[l]).i, j |-> RcStep(h[l]).j,
                     k |-> Append(u.k, RcOut(RcStep(h[l])))]
    BY <2>4, RcNextIs
  <2>8. RcNext(u) = g[n]
    BY <2>3, <2>5, <2>6, <2>7
  <2> QED BY <2>2, <2>8 DEF l
<1> HIDE DEF z
<1>5. Is(g)
  <2>1. ASSUME NEW n \in 0 .. W PROVE g[n] = IF n = 0 THEN z ELSE RcNext(g[n - 1])
    <3>1. n = 0 \/ n \in 1 .. W
      BY <1>2
    <3> HIDE DEF g
    <3> QED BY <3>1, <1>3, <1>4
  <2>2. g = [n \in 0 .. W |-> g[n]]
    OBVIOUS
  <2> HIDE DEF g
  <2> QED BY <2>1, <2>2
<1>6. Is(gen)
  <2> HIDE DEF Is, g
  <2> QED BY <1>5
<1> HIDE DEF gen
<1>7. gen[W] = g[W]
  <2> HIDE DEF g
  <2>1. gen[0] = g[0]
    BY <1>3, <1>6, <1>2
  <2>2. ASSUME NEW n \in 1 .. W, gen[n - 1] = g[n - 1] PROVE gen[n] = g[n]
    <3>1. n \in 0 .. W /\ n # 0
      OBVIOUS
    <3>2. gen[n] = RcNext(gen[n - 1])
      BY <3>1, <1>6
    <3> QED BY <2>2, <3>2, <1>4
  <2>3. \A n \in 0 .. W : gen[n] = g[n]
    BY <1>2, <2>1, <2>2, SameRun
  <2> QED BY <2>3, <1>2
<1>8. g[W] = [S |-> h[W].S, i |-> h[W].i, j |-> h[W].j, k |-> [x \in 1 .. W |-> RcOut(h[x])]]
  BY <1>2
<1> HIDE DEF g
<1>9. Rc4Word(s) = [S |-> h[W].S, i |-> h[W].i, j |-> h[W].j, k |-> [x \in 1 .. W |-> RcOut(h[x])]]
  BY <1>1, <1>7, <1>8
<1> QED BY <1>9 DEF RcWord

\* RC4 of a word: the state after it, and the data XORed with it.
LEMMA Rc4CryptIs ==
    ASSUME NEW s \in Rc4State, NEW h, h[0] = s, RcRun(h, 0, WordBytes), NEW b
    PROVE  /\ Rc4Crypt(s, b).state = h[WordBytes]
           /\ Rc4Crypt(s, b).block = [n \in 1 .. WordBytes |-> Xor(b[n], RcOut(h[n]))]
<1> DEFINE g == Rc4Word(s)
           W == WordBytes
<1>1. RcWord(g, h)
  BY Rc4WordIs
<1>2. Rc4Crypt(s, b).state = [S |-> g.S, i |-> g.i, j |-> g.j]
      /\ Rc4Crypt(s, b).block = [n \in 1 .. W |-> Xor(b[n], g.k[n])]
  BY DEF Rc4Crypt, Step
<1>3. W \in Nat
  BY Sizes3
<1>4. h[W] \in Rc4State
  <2>1. \A k \in 0 .. W : h[k] \in Rc4State
    BY <1>3, RcRunTyped
  <2> QED BY <2>1, <1>3
<1>5. h[W] = [S |-> h[W].S, i |-> h[W].i, j |-> h[W].j]
  BY <1>4 DEF Rc4State
<1> HIDE DEF g
<1>6. g.S = h[W].S /\ g.i = h[W].i /\ g.j = h[W].j /\ \A n \in 1 .. W : g.k[n] = RcOut(h[n])
  BY <1>1, <1>3 DEF RcWord
<1> QED BY <1>2, <1>5, <1>6

\* RC4 gives a word and a state.
LEMMA Rc4Typed ==
    ASSUME NEW s \in Rc4State, NEW b \in [1 .. WordBytes -> Byte]
    PROVE  Rc4Crypt(s, b).state \in Rc4State /\ Rc4Crypt(s, b).block \in [1 .. WordBytes -> Byte]
<1>1. PICK h : h[0] = s /\ RcRun(h, 0, WordBytes)
  BY RcRunExists, Sizes3
<1>2. WordBytes \in Nat /\ \A k \in 0 .. WordBytes : h[k] \in Rc4State
  BY <1>1, Sizes3, RcRunTyped
<1>3. \A n \in 1 .. WordBytes : RcOut(h[n]) \in Byte
  <2> SUFFICES ASSUME NEW n \in 1 .. WordBytes PROVE RcOut(h[n]) \in Byte
    OBVIOUS
  <2>1. n \in 0 .. WordBytes
    BY <1>2
  <2> QED BY <2>1, <1>2, RcTyped
<1>4. \A n \in 1 .. WordBytes : Xor(b[n], RcOut(h[n])) \in Byte
  BY <1>3, ByteAssumption
<1>5. Rc4Crypt(s, b).state = h[WordBytes]
      /\ Rc4Crypt(s, b).block = [n \in 1 .. WordBytes |-> Xor(b[n], RcOut(h[n]))]
  BY <1>1, Rc4CryptIs
<1> QED BY <1>2, <1>4, <1>5

\* The same of decryption.
LEMMA DecryptTyped ==
    ASSUME EncryptsBlocks, DecryptsBlocks, NEW mode \in Modes, NEW key \in AKey,
           NEW reg \in BlockOf, NEW b \in BlockOf
    PROVE  Decrypt(mode, key, reg, b).block \in BlockOf /\ Decrypt(mode, key, reg, b).state \in BlockOf
<1>1. CASE mode = "ECB"
  BY <1>1 DEF Decrypt, EcbDecrypt, Step, DecryptsBlocks
<1>2. CASE mode = "CBC"
  <2>1. decryptBlock(key, b) \in BlockOf
    BY DEF DecryptsBlocks
  <2>2. xorBlock(decryptBlock(key, b), reg) \in BlockOf
    BY <2>1, XorIsBlock
  <2> QED BY <2>2, <1>2 DEF Decrypt, CbcDecrypt, Step
<1>3. CASE mode = "CFB"
  <2>1. encryptBlock(key, reg) \in BlockOf
    BY DEF EncryptsBlocks
  <2>2. xorBlock(b, encryptBlock(key, reg)) \in BlockOf
    BY <2>1, XorIsBlock
  <2> QED BY <2>2, <1>3 DEF Decrypt, CfbDecrypt, Step
<1>4. CASE mode \notin {"ECB", "CBC", "CFB"}
  <2>1. Decrypt(mode, key, reg, b) = Encrypt(mode, key, reg, b)
    BY <1>4 DEF Decrypt, Modes
  <2> QED BY <2>1, EncryptTyped
<1> QED BY <1>1, <1>2, <1>3, <1>4

\* A block, of any cipher.
LEMMA CryptTyped ==
    ASSUME NEW xf \in Xforms, Works(xf), NEW mode \in AllModes, NEW key \in AKey,
           NEW reg \in StateOf(mode), NEW b \in BlocksOf(mode)
    PROVE  /\ Crypt(xf, mode, key, reg, b).block \in BlocksOf(mode)
           /\ Crypt(xf, mode, key, reg, b).state \in StateOf(mode)
<1>1. CASE mode = "RC4"
  BY <1>1, Rc4Typed DEF Crypt, StateOf, BlocksOf, SizeOf
<1>2. CASE mode # "RC4" /\ xf = "enc"
  <2>1. mode \in Modes /\ reg \in BlockOf /\ b \in BlockOf /\ EncryptsBlocks
    BY <1>2 DEF StateOf, BlocksOf, SizeOf, AllModes, BlockOf, Works
  <2> QED BY <2>1, <1>2, EncryptTyped DEF Crypt, StateOf, BlocksOf, SizeOf, BlockOf
<1>3. CASE mode # "RC4" /\ xf = "dec"
  <2>1. mode \in Modes /\ reg \in BlockOf /\ b \in BlockOf /\ EncryptsBlocks /\ DecryptsBlocks
    BY <1>3 DEF StateOf, BlocksOf, SizeOf, AllModes, BlockOf, Works
  <2> QED BY <2>1, <1>3, DecryptTyped DEF Crypt, StateOf, BlocksOf, SizeOf, BlockOf
<1> QED BY <1>1, <1>2, <1>3 DEF Xforms

\* Where two blocks agree, so does what becomes of them, in a mode that takes less than a block.
LEMMA CryptAgrees ==
    ASSUME NEW xf, NEW mode \in AllModes \ {"ECB", "CBC"}, NEW key, NEW reg \in StateOf(mode),
           NEW b, NEW c, NEW i \in 1 .. SizeOf(mode), b[i] = c[i]
    PROVE  Crypt(xf, mode, key, reg, b).block[i] = Crypt(xf, mode, key, reg, c).block[i]
<1>1. CASE mode = "RC4"
  <2>1. reg \in Rc4State /\ i \in 1 .. WordBytes
    BY <1>1 DEF StateOf, SizeOf
  <2>2. PICK h : h[0] = reg /\ RcRun(h, 0, WordBytes)
    BY <2>1, RcRunExists, Sizes3
  <2>3. /\ Rc4Crypt(reg, b).block = [n \in 1 .. WordBytes |-> Xor(b[n], RcOut(h[n]))]
        /\ Rc4Crypt(reg, c).block = [n \in 1 .. WordBytes |-> Xor(c[n], RcOut(h[n]))]
    BY <2>1, <2>2, Rc4CryptIs
  <2> QED BY <1>1, <2>1, <2>3 DEF Crypt
<1>2. CASE mode # "RC4"
  <2>1. /\ Crypt(xf, mode, key, reg, b).block = xorBlock(b, Mask(mode, key, reg))
        /\ Crypt(xf, mode, key, reg, c).block = xorBlock(c, Mask(mode, key, reg))
    BY <1>2, StreamXors DEF AllModes, Crypt
  <2>2. i \in 1 .. BlockBytes
    BY <1>2 DEF SizeOf
  <2> QED BY <2>1, <2>2 DEF xorBlock
<1> QED BY <1>1, <1>2

-----------------------------------------------------------------------------
\* The cipher object.

\* P is encrypted in L blocks, with the states st and the results ou
Ideal(xf, st, ou, L, mode, key, P) ==
    /\ P \in Seq(Byte) /\ L \in Nat /\ Len(P) <= L * SizeOf(mode)
    /\ \A k \in 0 .. L : st[k] \in StateOf(mode)
    /\ \A k \in 1 .. L : LET c == Crypt(xf, mode, key, st[k - 1], Block(P, k - 1, SizeOf(mode)))
                         IN  c.state = st[k] /\ c.block = ou[k]

\* ref is what the results are, cut to the length of P
IsRef(ref, ou, L, mode, P) ==
    /\ ref \in Seq(Byte) /\ Len(ref) = Len(P)
    /\ \A k \in 1 .. L, i \in 1 .. SizeOf(mode) :
           (k - 1) * SizeOf(mode) + i <= Len(P) => ref[(k - 1) * SizeOf(mode) + i] = ou[k][i]

\* a block in the process method: what was put out before, and what comes of it
PStep(xf, mode, key, b, x) == [state |-> Crypt(xf, mode, key, x.state, b).state,
                           out   |-> x.out \o Crypt(xf, mode, key, x.state, b).block]
PStart(reg) == [state |-> reg, out |-> << >>]
PRun(f, xf, mode, key, reg, bs, n) ==
    f = [k \in 0 .. n |-> IF k = 0 THEN PStart(reg) ELSE PStep(xf, mode, key, bs[k], f[k - 1])]

\* A block is a sequence of bytes.
LEMMA BlocksAreBytes ==
    ASSUME NEW mode \in AllModes, NEW b \in BlocksOf(mode)
    PROVE  b \in Seq(Byte) /\ Len(b) = SizeOf(mode) /\ SizeOf(mode) \in Nat \ {0}
<1>1. SizeOf(mode) \in Nat \ {0}
  BY Sizes3, BlockSize DEF SizeOf
<1> QED BY <1>1 DEF BlocksOf

\* Sizes of blocks.
LEMMA SizeIs == ASSUME NEW mode PROVE SizeOf(mode) \in Nat \ {0}
  BY Sizes3, BlockSize DEF SizeOf

\* There is a run of process.
LEMMA PRunExists ==
    ASSUME NEW xf \in Xforms, Works(xf), NEW mode \in AllModes, NEW key \in AKey,
           NEW reg \in StateOf(mode), NEW n \in Nat, NEW bs, \A k \in 1 .. n : bs[k] \in BlocksOf(mode)
    PROVE  \E f : PRun(f, xf, mode, key, reg, bs, n)
<1> DEFINE X == [state : StateOf(mode), out : Seq(Byte)]
           G == [k \in 1 .. n |-> [x \in X |-> PStep(xf, mode, key, bs[k], x)]]
           a == PStart(reg)
<1>1. ASSUME NEW k \in 1 .. n, NEW x \in X PROVE PStep(xf, mode, key, bs[k], x) \in X
  <2>1. x.state \in StateOf(mode) /\ x.out \in Seq(Byte) /\ bs[k] \in BlocksOf(mode)
    OBVIOUS
  <2> DEFINE c == Crypt(xf, mode, key, x.state, bs[k])
  <2>2. c.state \in StateOf(mode) /\ c.block \in BlocksOf(mode)
    BY <2>1, CryptTyped
  <2> HIDE DEF c
  <2>3. c.block \in Seq(Byte)
    BY <2>2, BlocksAreBytes
  <2>4. x.out \o c.block \in Seq(Byte)
    BY <2>1, <2>3
  <2> QED BY <2>2, <2>4 DEF PStep, c
<1>2. a \in X
  BY DEF PStart
<1>3. G \in [1 .. n -> [X -> X]]
  <2> HIDE DEF X
  <2> QED BY <1>1
<1>4. PICK f : FunRun(f, X, n, a, G)
  <2> HIDE DEF X, G, a
  <2> QED BY <1>2, <1>3, FunRunExists
<1> HIDE DEF X, a
<1>5. ASSUME NEW k \in 0 .. n
      PROVE  f[k] = IF k = 0 THEN a ELSE PStep(xf, mode, key, bs[k], f[k - 1])
  <2>1. CASE k = 0
    BY <2>1, <1>4 DEF FunRun
  <2>2. CASE k # 0
    <3>1. k \in 1 .. n /\ k - 1 \in 0 .. n
      BY <2>2
    <3>2. f[k] = G[k][f[k - 1]] /\ f[k - 1] \in X
      BY <3>1, <1>4 DEF FunRun
    <3> QED BY <3>1, <3>2, <2>2
  <2> QED BY <2>1, <2>2
<1>6. f = [k \in 0 .. n |-> f[k]]
  BY <1>4 DEF FunRun
<1>7. PRun(f, xf, mode, key, reg, bs, n)
  <2> HIDE DEF G
  <2> QED BY <1>5, <1>6 DEF PRun, a
<1> QED BY <1>7

\* The elements of two sequences in a row.
LEMMA ConcatAt ==
    ASSUME NEW v \in Seq(Byte), NEW u \in Seq(Byte)
    PROVE  /\ \A i \in 1 .. Len(v) : (v \o u)[i] = v[i]
           /\ \A i \in 1 .. Len(u) : (v \o u)[Len(v) + i] = u[i]
  OBVIOUS

\* what has been put out of the blocks q + 1 to q + k, where the buffer reaches to e
PutOut(x, ref, st, q, k, size, e) ==
    /\ x.out \in Seq(Byte) /\ Len(x.out) = k * size
    /\ \A i \in 1 .. k * size : q * size + i <= e => x.out[i] = ref[q * size + i]
    /\ (q + k) * size <= e => x.state = st[q + k]

\* One block more has been put out, of which the buffer holds all, or at least a part in a
\* mode that needs no whole blocks.
LEMMA PutOutOne ==
    ASSUME NEW xf \in Xforms, Works(xf), NEW mode \in AllModes, NEW key \in AKey,
           NEW P, NEW L, NEW st, NEW ou, NEW ref,
           Ideal(xf, st, ou, L, mode, key, P), IsRef(ref, ou, L, mode, P),
           NEW q \in Nat, NEW k \in Nat, NEW e \in Nat, e <= Len(P), q + (k + 1) <= L,
           (q + k) * SizeOf(mode) <= e, (q + (k + 1)) * SizeOf(mode) <= e \/ mode \notin {"ECB", "CBC"},
           NEW b, IsBlockOf(b, P, q + (k + 1), SizeOf(mode), e),
           NEW x, PutOut(x, ref, st, q, k, SizeOf(mode), e)
    PROVE  PutOut(PStep(xf, mode, key, b, x), ref, st, q, k + 1, SizeOf(mode), e)
<1> DEFINE size == SizeOf(mode)
           z == q + (k + 1)
           m == (q + k) * size
           c == Block(P, z - 1, size)
           B == Crypt(xf, mode, key, st[z - 1], b)
           C == Crypt(xf, mode, key, st[z - 1], c)
           y == PStep(xf, mode, key, b, x)
<1>1. /\ size \in Nat \ {0} /\ m \in Nat /\ z \in 1 .. L /\ z - 1 = q + k /\ z * size = m + size
      /\ m = q * size + k * size /\ q * size \in Nat /\ k * size \in Nat /\ (k + 1) * size = k * size + size
  <2>1. size \in Nat /\ size \in Nat \ {0} /\ q + k \in Nat /\ L \in Nat
    BY SizeIs DEF Ideal
  <2> HIDE DEF size
  <2>2. q * size \in Nat /\ k * size \in Nat /\ (q + k) * size = q * size + k * size
    BY <2>1, Times
  <2>3. /\ ((q + k) + 1) * size = (q + k) * size + 1 * size
        /\ (k + 1) * size = k * size + 1 * size /\ 1 * size = size
    BY <2>1, Times
  <2>4. z = (q + k) + 1 /\ z - 1 = q + k /\ z \in 1 .. L
    BY <2>1
  <2> QED BY <2>1, <2>2, <2>3, <2>4
<1>2. st[z - 1] \in StateOf(mode) /\ C.state = st[z] /\ C.block = ou[z]
  <2>1. z - 1 \in 0 .. L /\ z \in 1 .. L
    <3>1. L \in Nat
      BY DEF Ideal
    <3> HIDE DEF z
    <3> QED BY <3>1, <1>1
  <2> QED BY <2>1 DEF Ideal
<1>3. P \in Seq(Byte) /\ Len(P) \in Nat
  BY DEF Ideal
<1>4. b \in [1 .. size -> Byte] /\ \A i \in 1 .. size : m + i <= e => b[i] = P[m + i]
  BY <1>1 DEF IsBlockOf
<1>5. c \in [1 .. size -> Byte] /\ \A i \in 1 .. size : m + i <= e => c[i] = P[m + i]
  <2>1. c = [i \in 1 .. size |-> ByteAt(P, m + i)]
    BY <1>1 DEF Block
  <2>2. \A i \in 1 .. size : ByteAt(P, m + i) \in Byte
    BY <1>3, ByteInByte
  <2>3. \A i \in 1 .. size : m + i <= e => ByteAt(P, m + i) = P[m + i]
    <3> HIDE DEF m, size
    <3> QED BY <1>1, <1>3 DEF ByteAt
  <2> HIDE DEF m, size, c
  <2> QED BY <2>1, <2>2, <2>3
<1>6. x.out \in Seq(Byte) /\ Len(x.out) = k * size /\ x.state = st[z - 1]
      /\ \A i \in 1 .. k * size : q * size + i <= e => x.out[i] = ref[q * size + i]
  BY <1>1 DEF PutOut
<1>7. y.state = B.state /\ y.out = x.out \o B.block
  BY <1>6 DEF PStep
<1>8. B.block \in BlocksOf(mode)
  BY <1>2, <1>4, CryptTyped DEF BlocksOf
<1> HIDE DEF c, y
<1>9. z * size <= e => b = c
  <2> SUFFICES ASSUME z * size <= e PROVE b = c
    OBVIOUS
  <2>1. \A i \in 1 .. size : m + i <= e
    <3> HIDE DEF m, size, z
    <3> QED BY <1>1
  <2> HIDE DEF size, m
  <2>2. \A i \in 1 .. size : b[i] = c[i]
    BY <2>1, <1>4, <1>5
  <2>3. b = [i \in 1 .. size |-> b[i]] /\ c = [i \in 1 .. size |-> c[i]]
    BY <1>4, <1>5
  <2> QED BY ONLY <2>2, <2>3
<1>10. z * size <= e => y.state = st[z]
  BY <1>2, <1>7, <1>9
<1>11. ASSUME NEW i \in 1 .. size, m + i <= e PROVE B.block[i] = ou[z][i]
  <2>1. CASE z * size <= e
    BY <2>1, <1>2, <1>9
  <2>2. CASE mode \notin {"ECB", "CBC"}
    <3>1. b[i] = c[i]
      BY <1>4, <1>5, <1>11
    <3>2. B.block[i] = C.block[i]
      <4>1. st[z - 1] \in StateOf(mode) /\ mode \in AllModes \ {"ECB", "CBC"} /\ i \in 1 .. SizeOf(mode)
        BY <1>2, <2>2
      <4> DEFINE s == st[z - 1]
      <4> HIDE DEF c, s
      <4>2. Crypt(xf, mode, key, s, b).block[i] = Crypt(xf, mode, key, s, c).block[i]
        <5>1. s \in StateOf(mode) /\ mode \in AllModes \ {"ECB", "CBC"}
          BY <4>1 DEF s
        <5>2. i \in 1 .. SizeOf(mode)
          BY <4>1
        <5> QED BY ONLY <3>1, <5>1, <5>2, CryptAgrees
      <4> QED BY <4>2 DEF s, c
    <3> QED BY <3>2, <1>2
  <2> QED BY <2>1, <2>2
<1> HIDE DEF B, C
<1>12. B.block \in Seq(Byte) /\ Len(B.block) = size
  BY <1>8, BlocksAreBytes
<1>13. ASSUME NEW i \in 1 .. size, m + i <= e PROVE B.block[i] = ref[m + i]
  <2>1. m + i <= Len(P)
    <3> HIDE DEF m, size
    <3> QED BY <1>1, <1>3, <1>13
  <2>2. (z - 1) * SizeOf(mode) + i = m + i
    BY <1>1
  <2>3. ref[m + i] = ou[z][i]
    BY <1>1, <2>1, <2>2 DEF IsRef
  <2> QED BY <2>3, <1>11, <1>13
<1>14. y.out \in Seq(Byte) /\ Len(y.out) = (k + 1) * size
  <2>1. x.out \o B.block \in Seq(Byte) /\ Len(x.out \o B.block) = Len(x.out) + Len(B.block)
    BY <1>6, <1>12, TwoLong
  <2> QED BY <2>1, <1>1, <1>6, <1>7, <1>12
<1>15. ASSUME NEW i \in 1 .. (k + 1) * size, q * size + i <= e PROVE y.out[i] = ref[q * size + i]
  <2> DEFINE u == B.block
             v == x.out
             l == k * size
  <2> HIDE DEF size, m, z
  <2>1. CASE i <= l
    <3>1. i \in 1 .. l
      BY <2>1, <1>1
    <3>2. v \in Seq(Byte) /\ u \in Seq(Byte) /\ i \in 1 .. Len(v)
      BY <3>1, <1>6, <1>12
    <3>3. (v \o u)[i] = v[i]
      <4> HIDE DEF v, u
      <4> QED BY <3>2, ConcatAt
    <3>4. v[i] = ref[q * size + i]
      BY <3>1, <1>6, <1>15
    <3> QED BY <3>3, <3>4, <1>7
  <2>2. CASE i > l
    <3> DEFINE j == i - l
    <3>1. j \in 1 .. size /\ m + j = q * size + i /\ m + j <= e
      <4> HIDE DEF l
      <4> QED BY <2>2, <1>1, <1>15 DEF l
    <3>2. (v \o u)[i] = u[j]
      <4>1. v \in Seq(Byte) /\ u \in Seq(Byte) /\ Len(v) = l /\ Len(u) = size /\ j \in 1 .. Len(u)
        BY <1>6, <1>12, <3>1
      <4>2. Len(v) + j = i
        <5> HIDE DEF l
        <5> QED BY <4>1, <1>1 DEF l
      <4> HIDE DEF v, u, l, j
      <4>3. (v \o u)[Len(v) + j] = u[j]
        BY <4>1, ConcatAt
      <4> QED BY <4>2, <4>3
    <3> HIDE DEF j
    <3> QED BY <3>1, <3>2, <1>7, <1>13
  <2> QED BY <2>1, <2>2, <1>1
<1> QED BY <1>10, <1>14, <1>15 DEF PutOut, y, z

\* Numbers of blocks compare as their bytes do.
LEMMA FewerBlocks ==
    ASSUME NEW a \in Nat, NEW b \in Nat, NEW d \in Nat \ {0}
    PROVE  /\ a * d <= b * d => a <= b
           /\ a * d < b * d => a < b
<1>1. a * d \in Nat /\ b * d \in Nat
  BY Times
<1>2. ASSUME a > b PROVE a * d > b * d
  <2>1. b + 1 <= a /\ b + 1 \in Nat
    BY <1>2
  <2>2. (b + 1) * d <= a * d /\ (b + 1) * d = b * d + 1 * d /\ 1 * d = d
    BY <2>1, Times
  <2> QED BY <2>2, <1>1
<1>3. ASSUME a = b PROVE a * d = b * d
  BY <1>3
<1> DEFINE x == a * d
           y == b * d
<1>4. x \in Nat /\ y \in Nat /\ (a > b => x > y) /\ (a = b => x = y)
  BY <1>1, <1>2, <1>3
<1> HIDE DEF x, y
<1>5. (x <= y => a <= b) /\ (x < y => a < b)
  BY <1>4
<1> QED BY <1>5 DEF x, y

\* All the blocks that are taken have been put out.
LEMMA PutOutAll ==
    ASSUME NEW xf \in Xforms, Works(xf), NEW mode \in AllModes, NEW key \in AKey,
           NEW P, NEW L, NEW st, NEW ou, NEW ref,
           Ideal(xf, st, ou, L, mode, key, P), IsRef(ref, ou, L, mode, P),
           NEW q \in Nat, NEW n \in Nat, NEW e \in Nat, e <= Len(P), q + n <= L, NEW bs,
           \A k \in 1 .. n : /\ IsBlockOf(bs[k], P, q + k, SizeOf(mode), e)
                             /\ (q + k - 1) * SizeOf(mode) <= e
                             /\ (q + k) * SizeOf(mode) <= e \/ mode \notin {"ECB", "CBC"},
           NEW f, PRun(f, xf, mode, key, st[q], bs, n)
    PROVE  \A k \in 0 .. n : PutOut(f[k], ref, st, q, k, SizeOf(mode), e)
<1> DEFINE size == SizeOf(mode)
           X == {k \in Nat : PutOut(f[k], ref, st, q, k, size, e)}
<1>1. 0 \in X
  <2>1. f[0] = PStart(st[q])
    BY DEF PRun
  <2>2. size \in Nat /\ 0 * size = 0 /\ q + 0 = q
    BY SizeIs
  <2> HIDE DEF size
  <2>3. f[0].out = << >> /\ f[0].state = st[q]
    BY <2>1 DEF PStart
  <2>4. \A i \in 1 .. 0 * size : FALSE
    BY <2>2
  <2>5. f[0].out \in Seq(Byte) /\ Len(f[0].out) = 0 * size
    BY <2>2, <2>3
  <2>6. PutOut(f[0], ref, st, q, 0, size, e)
    BY <2>2, <2>3, <2>4, <2>5 DEF PutOut
  <2> QED BY <2>6
<1>2. ASSUME NEW k \in Nat, k < n /\ k \in X PROVE k + 1 \in X
  <2>1. k + 1 \in 1 .. n /\ k + 1 \in 0 .. n /\ k + 1 # 0 /\ (k + 1) - 1 = k /\ q + (k + 1) - 1 = q + k
    BY <1>2
  <2>2. f[k + 1] = PStep(xf, mode, key, bs[k + 1], f[k])
    BY <2>1 DEF PRun
  <2>3. /\ IsBlockOf(bs[k + 1], P, q + (k + 1), size, e)
        /\ (q + k) * size <= e
        /\ (q + (k + 1)) * size <= e \/ mode \notin {"ECB", "CBC"}
    BY <2>1
  <2>4. q + (k + 1) <= L
    <3>1. L \in Nat
      BY DEF Ideal
    <3> QED BY <3>1, <2>1
  <2>5. PutOut(f[k], ref, st, q, k, size, e)
    BY <1>2
  <2>6. PutOut(PStep(xf, mode, key, bs[k + 1], f[k]), ref, st, q, k + 1, size, e)
    BY <2>3, <2>4, <2>5, PutOutOne
  <2> QED BY <2>2, <2>6
<1>3. \A k \in 0 .. n : k \in X
  <2> HIDE DEF X
  <2> QED BY <1>1, <1>2, UpTo
<1> QED BY <1>3

\* o with other data and another state
Put(o, d, s) == [o EXCEPT !.data = d, !.reg = s]
\* process has put out what a run f over the blocks that were taken gives
Processed(p, o, t, f, n) ==
    /\ p.o = Put(o, t.rest, f[n].state)
    /\ p.out.words = f[n].out /\ p.out.sigBytes = t.sigBytes

\* a cipher object
IsCipher(xf, o, mode, padding, key, iv) ==
    o \in [xform : {xf}, mode : {mode}, padding : {padding}, key : {key}, iv : {iv},
           data : {o.data}, reg : {o.reg}]

\* What process does is a run over the blocks it takes.
LEMMA ProcessRun ==
    ASSUME NEW xf \in Xforms, NEW o, NEW mode, NEW padding, NEW key, NEW iv,
           IsCipher(xf, o, mode, padding, key, iv),
           NEW flush, NEW n \in Nat, NEW t, t = Taken(o.data, SizeOf(mode), Back(xf, mode), flush),
           Len(t.blocks) = n, NEW g, PRun(g, xf, mode, key, o.reg, t.blocks, n)
    PROVE  \E f : /\ PRun(f, xf, mode, key, o.reg, t.blocks, n)
                  /\ Processed(process(o, flush), o, t, f, n)
<1> DEFINE Is(f) == f = [k \in 0 .. n |->
                           IF k = 0 THEN [state |-> o.reg, out |-> << >>]
                           ELSE [state |-> doProcessBlock(o, f[k - 1].state, t.blocks[k]).state,
                                 out |-> f[k - 1].out
                                         \o doProcessBlock(o, f[k - 1].state, t.blocks[k]).block]]
           f == CHOOSE a : Is(a)
<1>1. o.xform = xf /\ o.mode = mode /\ o.key = key
  BY DEF IsCipher
<1>2. \A reg, b : doProcessBlock(o, reg, b) = Crypt(xf, mode, key, reg, b)
  BY <1>1 DEF doProcessBlock, IsStream, Crypt, Xforms
<1>3. Size(o) = SizeOf(mode) /\ keepBack(o) = Back(xf, mode)
  BY <1>1 DEF Size, IsStream, SizeOf, keepBack, Back
<1>4. process(o, flush) = [o   |-> [o EXCEPT !.data = t.rest, !.reg = f[n].state],
                           out |-> [words |-> f[n].out, sigBytes |-> t.sigBytes]]
  <2>1. Taken(o.data, Size(o), keepBack(o), flush) = t
    BY <1>3
  <2> HIDE DEF f
  <2> QED BY <2>1 DEF process, f
<1>5. \A a : Is(a) <=> PRun(a, xf, mode, key, o.reg, t.blocks, n)
  <2> SUFFICES ASSUME NEW a PROVE Is(a) <=> PRun(a, xf, mode, key, o.reg, t.blocks, n)
    OBVIOUS
  <2> DEFINE u == [k \in 0 .. n |->
                      IF k = 0 THEN [state |-> o.reg, out |-> << >>]
                      ELSE [state |-> doProcessBlock(o, a[k - 1].state, t.blocks[k]).state,
                            out |-> a[k - 1].out \o doProcessBlock(o, a[k - 1].state, t.blocks[k]).block]]
             v == [k \in 0 .. n |-> IF k = 0 THEN PStart(o.reg)
                                    ELSE PStep(xf, mode, key, t.blocks[k], a[k - 1])]
  <2>1. Is(a) <=> a = u
    OBVIOUS
  <2>2. PRun(a, xf, mode, key, o.reg, t.blocks, n) <=> a = v
    BY DEF PRun
  <2>3. ASSUME NEW k \in 0 .. n PROVE u[k] = v[k]
    <3>1. CASE k = 0
      BY <3>1 DEF PStart
    <3>2. CASE k # 0
      <4>1. doProcessBlock(o, a[k - 1].state, t.blocks[k]) = Crypt(xf, mode, key, a[k - 1].state, t.blocks[k])
        BY <1>2
      <4>2. v[k] = PStep(xf, mode, key, t.blocks[k], a[k - 1])
        BY <3>2
      <4>3. u[k] = [state |-> doProcessBlock(o, a[k - 1].state, t.blocks[k]).state,
                    out |-> a[k - 1].out \o doProcessBlock(o, a[k - 1].state, t.blocks[k]).block]
        BY <3>2
      <4> HIDE DEF u, v
      <4> QED BY <4>1, <4>2, <4>3 DEF PStep
    <3> QED BY <3>1, <3>2
  <2>4. u = [k \in 0 .. n |-> u[k]] /\ v = [k \in 0 .. n |-> v[k]]
    OBVIOUS
  <2> HIDE DEF u, v, Is
  <2>5. u = v
    BY <2>3, <2>4
  <2> QED BY <2>1, <2>2, <2>5
<1>6. PRun(f, xf, mode, key, o.reg, t.blocks, n)
  <2> HIDE DEF Is
  <2>1. Is(g)
    BY <1>5
  <2>2. Is(f)
    BY <2>1
  <2> QED BY <2>2, <1>5
<1> HIDE DEF f
<1>7. Processed(process(o, flush), o, t, f, n)
  BY <1>4 DEF Processed, Put
<1> QED BY <1>6, <1>7

\* What a cipher object is made of.
LEMMA CipherFields ==
    ASSUME NEW xf, NEW o, NEW mode, NEW padding, NEW key, NEW iv, IsCipher(xf, o, mode, padding, key, iv)
    PROVE  o.xform = xf /\ o.mode = mode /\ o.padding = padding /\ o.key = key /\ o.iv = iv
  BY DEF IsCipher

\* It stays one, whatever is put in for _data and what doProcessBlock keeps.
LEMMA CipherStays ==
    ASSUME NEW xf, NEW o, NEW mode, NEW padding, NEW key, NEW iv, IsCipher(xf, o, mode, padding, key, iv),
           NEW d, NEW s
    PROVE  IsCipher(xf, Put(o, d, s), mode, padding, key, iv) /\ Put(o, d, s).data = d /\ Put(o, d, s).reg = s
  BY DEF IsCipher, Put

\* How many blocks what is kept of P begins behind.
LEMMA BlocksBefore ==
    ASSUME NEW xf, NEW mode \in AllModes, NEW key, NEW P, NEW L, NEW st, NEW ou,
           Ideal(xf, st, ou, L, mode, key, P), NEW q \in Nat, q * SizeOf(mode) <= Len(P)
    PROVE  q <= L /\ st[q] \in StateOf(mode) /\ Len(P) \in Nat /\ L \in Nat
<1> DEFINE size == SizeOf(mode)
<1>1. size \in Nat \ {0} /\ L \in Nat /\ Len(P) \in Nat /\ Len(P) <= L * size
  BY SizeIs DEF Ideal
<1>2. q * size \in Nat /\ L * size \in Nat
  <2> HIDE DEF size
  <2> QED BY <1>1, Times
<1>3. q * size <= L * size
  <2> DEFINE x == q * size
             y == L * size
  <2>1. x \in Nat /\ y \in Nat /\ x <= Len(P) /\ Len(P) <= y
    BY <1>1, <1>2
  <2> HIDE DEF x, y
  <2>2. x <= y
    BY <2>1, <1>1
  <2> QED BY <2>2 DEF x, y
<1>4. q <= L
  <2> HIDE DEF size
  <2> QED BY <1>1, <1>3, FewerBlocks
<1>5. q \in 0 .. L
  BY <1>1, <1>4
<1> QED BY <1>1, <1>4, <1>5 DEF Ideal

\* The blocks that are taken are blocks of bytes.
LEMMA TakesBlocks ==
    ASSUME NEW mode \in AllModes, NEW t, NEW P, NEW q \in Nat, NEW e, NEW n \in Nat,
           Takes(t, P, q, SizeOf(mode), e, n)
    PROVE  Len(t.blocks) = n /\ \A k \in 1 .. n : t.blocks[k] \in BlocksOf(mode)
<1>1. t.blocks = [k \in 1 .. n |-> t.blocks[k]]
  BY DEF Takes
<1>2. Len([k \in 1 .. n |-> t.blocks[k]]) = n
  OBVIOUS
<1> QED BY <1>1, <1>2 DEF Takes, IsBlockOf, BlocksOf

\* the encryptor o, with the state after q blocks, has a buffer that reaches to e
HasTaken(o, st, P, q, e) ==
    /\ q \in Nat /\ e \in Nat /\ q * SizeOf(o.mode) <= e /\ e <= Len(P)
    /\ o.reg = st[q] /\ Keeps(o.data, P, q * SizeOf(o.mode), e)

\* p is what process gives that has put out the blocks q + 1 to m
WholePutOut(xf, p, st, P, ref, mode, padding, key, iv, q, m, e) ==
    /\ IsCipher(xf, p.o, mode, padding, key, iv)
    /\ HasTaken(p.o, st, P, m, e)
    /\ e - m * SizeOf(mode) < SizeOf(mode) + Kept(Back(xf, mode), SizeOf(mode))
    /\ m = q \/ m * SizeOf(mode) + Kept(Back(xf, mode), SizeOf(mode)) <= e
    /\ q * SizeOf(mode) <= m * SizeOf(mode)
    /\ Keeps(p.out, ref, q * SizeOf(mode), m * SizeOf(mode))

\* process puts out the ciphertext of the whole blocks it has.
LEMMA ProcessWhole ==
    ASSUME NEW xf \in Xforms, Works(xf), NEW mode \in AllModes, NEW key \in AKey,
           NEW P, NEW L, NEW st, NEW ou, NEW ref,
           Ideal(xf, st, ou, L, mode, key, P), IsRef(ref, ou, L, mode, P),
           NEW o, NEW padding, NEW iv, IsCipher(xf, o, mode, padding, key, iv),
           NEW q, NEW e, HasTaken(o, st, P, q, e)
    PROVE  \E m \in Nat : WholePutOut(xf, process(o, FALSE), st, P, ref, mode, padding, key, iv, q, m, e)
<1> DEFINE size == SizeOf(mode)
           back == Back(xf, mode)
           kept == Kept(back, size)
           t == Taken(o.data, size, back, FALSE)
<1>1. o.xform = xf /\ o.mode = mode /\ o.key = key
  BY CipherFields
<1>2. /\ q \in Nat /\ e \in Nat /\ q * size <= e /\ e <= Len(P) /\ o.reg = st[q]
      /\ Keeps(o.data, P, q * size, e) /\ size \in Nat \ {0}
  BY <1>1, SizeIs DEF HasTaken
<1>3. PICK n \in Nat : /\ Takes(t, P, q, size, e, n)
                       /\ (q + n) * size <= e /\ e - (q + n) * size < size + kept
                       /\ n = 0 \/ (q + n) * size + kept <= e
                       /\ t.sigBytes = n * size
                       /\ Keeps(t.rest, P, (q + n) * size, e)
  <2>1. back \in {0, 1}
    BY DEF Back
  <2> DEFINE w == o.data
  <2> HIDE DEF size, back, w
  <2>2. /\ size \in Nat \ {0} /\ q \in Nat /\ e \in Nat /\ q * size <= e /\ Keeps(w, P, q * size, e)
    BY <1>2 DEF w
  <2>3. \E n \in Nat : TakesWhole(Taken(w, size, back, FALSE), P, q, size, back, e, n)
    BY <2>1, <2>2, TakenWhole
  <2> QED BY <2>3 DEF w, TakesWhole
<1> HIDE DEF t, size, back
<1>4. q + n \in Nat /\ n * size \in Nat /\ q * size \in Nat /\ (q + n) * size = q * size + n * size
      /\ (q + n) * size \in Nat
  <2>1. size \in Nat /\ q \in Nat /\ n \in Nat /\ q + n \in Nat
    BY <1>2
  <2> QED BY ONLY <2>1, Times
<1>5. Len(P) \in Nat /\ (q + n) * size <= Len(P) /\ q * size <= Len(P)
  <2>1. P \in Seq(Byte)
    BY DEF Ideal
  <2> DEFINE x == (q + n) * size
             y == q * size
             l == Len(P)
  <2>2. l \in Nat /\ x \in Nat /\ y \in Nat /\ x <= e /\ y <= e /\ e <= l /\ e \in Nat
    BY <2>1, <1>2, <1>3, <1>4
  <2> HIDE DEF x, y, l
  <2>3. x <= l /\ y <= l
    BY <2>2
  <2> QED BY <2>2, <2>3 DEF x, y, l
<1>6. q + n <= L /\ st[q] \in StateOf(mode)
  BY <1>2, <1>4, <1>5, BlocksBefore DEF size
<1>7. Len(t.blocks) = n /\ \A k \in 1 .. n : t.blocks[k] \in BlocksOf(mode)
  BY <1>2, <1>3, TakesBlocks DEF size
<1>8. PICK g : PRun(g, xf, mode, key, st[q], t.blocks, n)
  BY <1>6, <1>7, PRunExists
<1>9. PICK f : /\ PRun(f, xf, mode, key, st[q], t.blocks, n)
               /\ Processed(process(o, FALSE), o, t, f, n)
  <2>1. PRun(g, xf, mode, key, o.reg, t.blocks, n)
    BY <1>2, <1>8
  <2>2. \E f : PRun(f, xf, mode, key, o.reg, t.blocks, n) /\ Processed(process(o, FALSE), o, t, f, n)
    BY <1>3, <1>7, <2>1, ProcessRun DEF t, size, back
  <2> QED BY <2>2, <1>2
<1>10. \A k \in 1 .. n : /\ IsBlockOf(t.blocks[k], P, q + k, SizeOf(mode), e)
                         /\ (q + k - 1) * SizeOf(mode) <= e
                         /\ (q + k) * SizeOf(mode) <= e \/ mode \notin {"ECB", "CBC"}
  <2> SUFFICES ASSUME NEW k \in 1 .. n
               PROVE  /\ IsBlockOf(t.blocks[k], P, q + k, size, e)
                      /\ (q + k - 1) * size <= e /\ (q + k) * size <= e
    BY DEF size
  <2>1. q + k \in Nat /\ q + k - 1 \in Nat /\ q + k <= q + n /\ q + k - 1 <= q + n
    BY <1>2
  <2>2. (q + k) * size <= (q + n) * size /\ (q + k - 1) * size <= (q + n) * size
        /\ (q + k) * size \in Nat /\ (q + k - 1) * size \in Nat
    BY <2>1, <1>2, <1>4, Times
  <2>3. (q + k) * size <= e /\ (q + k - 1) * size <= e
    <3> DEFINE x == (q + n) * size
               y == (q + k) * size
               z == (q + k - 1) * size
    <3>1. x \in Nat /\ y \in Nat /\ z \in Nat /\ x <= e /\ y <= x /\ z <= x
      BY <2>2, <1>3, <1>4
    <3> HIDE DEF x, y, z
    <3>2. y <= e /\ z <= e
      BY <3>1, <1>2
    <3> QED BY <3>2 DEF y, z
  <2>4. IsBlockOf(t.blocks[k], P, q + k, size, e)
    BY <1>3 DEF Takes
  <2> QED BY <2>3, <2>4
<1>11. PutOut(f[n], ref, st, q, n, SizeOf(mode), e)
  <2>1. \A k \in 0 .. n : PutOut(f[k], ref, st, q, k, SizeOf(mode), e)
    BY <1>2, <1>3, <1>6, <1>9, <1>10, PutOutAll
  <2> QED BY <2>1
<1>12. /\ f[n].out \in Seq(Byte) /\ Len(f[n].out) = n * size /\ f[n].state = st[q + n]
       /\ \A i \in 1 .. n * size : q * size + i <= e => f[n].out[i] = ref[q * size + i]
  BY <1>3, <1>11 DEF PutOut, size
<1>13. Keeps(process(o, FALSE).out, ref, q * size, (q + n) * size)
  <2> DEFINE w == process(o, FALSE).out
             l == n * size
             m == q * size
             v == f[n].out
  <2>1. w.words = v /\ w.sigBytes = l
    BY <1>3, <1>9 DEF Processed
  <2> HIDE DEF w, l, m, v
  <2>2. l \in Nat /\ m \in Nat /\ (m + l) - m = l /\ m + l <= e
    BY <1>2, <1>3, <1>4 DEF l, m
  <2>3. v \in Seq(Byte) /\ Len(v) = l /\ \A i \in 1 .. l : m + i <= e => v[i] = ref[m + i]
    BY <1>12 DEF v, l, m
  <2>4. ASSUME NEW i \in 1 .. l PROVE ByteAt(v, i) = ref[m + i]
    <3>1. m + i <= e /\ i \in DOMAIN v
      BY <1>2, <2>2, <2>3
    <3> QED BY <3>1, <2>3 DEF ByteAt
  <2>5. Keeps(w, ref, m, m + l)
    BY <2>1, <2>2, <2>3, <2>4 DEF Keeps
  <2> QED BY <2>5, <1>4 DEF w, m, l
<1>14. /\ IsCipher(xf, process(o, FALSE).o, mode, padding, key, iv)
       /\ process(o, FALSE).o.data = t.rest /\ process(o, FALSE).o.reg = st[q + n]
  <2>1. process(o, FALSE).o = Put(o, t.rest, st[q + n])
    BY <1>9, <1>12 DEF Processed
  <2> DEFINE d == t.rest
             s == st[q + n]
  <2> HIDE DEF d, s
  <2>2. IsCipher(xf, Put(o, d, s), mode, padding, key, iv) /\ Put(o, d, s).data = d /\ Put(o, d, s).reg = s
    BY CipherStays
  <2> QED BY <2>1, <2>2 DEF d, s
<1>15. HasTaken(process(o, FALSE).o, st, P, q + n, e)
  <2>1. process(o, FALSE).o.mode = mode
    <3> DEFINE p == process(o, FALSE).o
    <3>1. IsCipher(xf, p, mode, padding, key, iv)
      BY <1>14
    <3> HIDE DEF p
    <3>2. p.mode = mode
      BY <3>1, CipherFields
    <3> QED BY <3>2 DEF p
  <2> QED BY <2>1, <1>2, <1>3, <1>4, <1>14 DEF HasTaken, size
<1>16. q * size <= (q + n) * size
  BY <1>4
<1>17. q + n = q \/ (q + n) * size + kept <= e
  BY <1>2, <1>3
<1> HIDE DEF kept
<1>18. WholePutOut(xf, process(o, FALSE), st, P, ref, mode, padding, key, iv, q, q + n, e)
  BY <1>3, <1>13, <1>14, <1>15, <1>16, <1>17 DEF WholePutOut, size, kept, back
<1> QED BY <1>4, <1>18

\* A flush puts out the rest of the ciphertext.
LEMMA ProcessAll ==
    ASSUME NEW xf \in Xforms, Works(xf), NEW mode \in AllModes, NEW key \in AKey,
           NEW P, NEW L, NEW st, NEW ou, NEW ref,
           Ideal(xf, st, ou, L, mode, key, P), IsRef(ref, ou, L, mode, P),
           mode \in {"ECB", "CBC"} => Len(P) % SizeOf(mode) = 0,
           NEW o, NEW padding, NEW iv, IsCipher(xf, o, mode, padding, key, iv),
           NEW q, HasTaken(o, st, P, q, Len(P))
    PROVE  /\ IsCipher(xf, process(o, TRUE).o, mode, padding, key, iv)
           /\ Keeps(process(o, TRUE).out, ref, q * SizeOf(mode), Len(P))
<1> DEFINE size == SizeOf(mode)
           back == Back(xf, mode)
           t == Taken(o.data, size, back, TRUE)
           e == Len(P)
<1>1. o.xform = xf /\ o.mode = mode /\ o.key = key
  BY CipherFields
<1>2. /\ q \in Nat /\ e \in Nat /\ q * size <= e /\ o.reg = st[q]
      /\ Keeps(o.data, P, q * size, e) /\ size \in Nat \ {0} /\ L \in Nat /\ e <= L * size
  BY <1>1, SizeIs DEF HasTaken, Ideal
<1>3. PICK n \in Nat : TakesAll(t, P, q, size, e, n)
  <2> HIDE DEF size, e, back
  <2> QED BY <1>2, TakenAll
<1> HIDE DEF t, size, back
<1>4. q + n \in Nat /\ n * size \in Nat /\ q * size \in Nat /\ (q + n) * size = q * size + n * size
      /\ (q + n) * size \in Nat /\ L * size \in Nat
  <2>1. L * size \in Nat
    BY <1>2, Times
  <2>2. size \in Nat /\ q + n \in Nat
    BY <1>2
  <2>3. q \in Nat /\ n \in Nat
    BY <1>2
  <2> QED BY ONLY <2>1, <2>2, <2>3, Times
<1>5. /\ Takes(t, P, q, size, e, n) /\ t.sigBytes = e - q * size
      /\ e <= (q + n) * size /\ (n = 0 \/ (q + n - 1) * size < e)
  <2> HIDE DEF e
  <2> QED BY <1>3 DEF TakesAll
<1>6. q <= L /\ st[q] \in StateOf(mode)
  BY <1>2, BlocksBefore DEF size
<1> HIDE DEF e
<1>7. ASSUME NEW k \in 1 .. n
      PROVE  /\ (q + k - 1) * size <= e /\ (q + k - 1) * size < L * size
             /\ (q + k) * size <= e \/ mode \notin {"ECB", "CBC"}
  <2>1. q + k - 1 \in Nat /\ q + n - 1 \in Nat /\ q + k - 1 <= q + n - 1 /\ n # 0 /\ q + k \in Nat
    BY <1>2
  <2>2. (q + k - 1) * size <= (q + n - 1) * size
        /\ (q + k - 1) * size \in Nat /\ (q + n - 1) * size \in Nat
    BY <2>1, <1>2, Times
  <2>3. (q + k - 1) * size <= e /\ (q + k - 1) * size < L * size
    <3> DEFINE x == (q + n - 1) * size
               y == (q + k - 1) * size
               z == L * size
    <3>1. x \in Nat /\ y \in Nat /\ z \in Nat /\ x < e /\ y <= x /\ e <= z
      BY <2>1, <2>2, <1>2, <1>5, <1>4
    <3> HIDE DEF x, y, z
    <3>2. y <= e /\ y < z
      BY <3>1, <1>2
    <3> QED BY <3>2 DEF y, z
  <2>4. ASSUME mode \in {"ECB", "CBC"} PROVE (q + k) * size <= e
    <3> DEFINE z == e \div size
    <3>1. z \in Nat /\ e = z * size
      <4>1. e % size = 0 /\ size > 0 /\ size \in Nat
        BY <2>4, <1>2 DEF size, e
      <4>2. z \in Nat /\ z * size + (e % size) = e /\ z * size \in Nat
        <5>1. z \in Nat /\ z * size + (e % size) = e
          BY <4>1, <1>2, DivMod
        <5> HIDE DEF z
        <5> QED BY <5>1, <4>1, Times
      <4> HIDE DEF z
      <4> QED BY <4>1, <4>2
    <3> HIDE DEF z
    <3>2. (q + n - 1) * size < z * size
      BY <3>1, <2>1, <1>5
    <3>3. q + n - 1 < z
      BY <3>1, <3>2, <2>1, <1>2, FewerBlocks
    <3>4. q + k <= z
      BY <3>1, <3>3, <2>1, <1>2
    <3>5. (q + k) * size <= z * size
      BY <3>1, <3>4, <2>1, <1>2, Times
    <3> QED BY <3>1, <3>5
  <2> QED BY <2>3, <2>4
<1>8. q + n <= L
  <2>1. CASE n = 0
    BY <2>1, <1>2, <1>6
  <2>2. CASE n # 0
    <3>1. n \in 1 .. n /\ q + n - 1 \in Nat
      BY <2>2, <1>2, <1>5
    <3>2. (q + n - 1) * size < L * size
      BY <3>1, <1>7
    <3>3. q + n - 1 < L
      BY <3>1, <3>2, <1>2, FewerBlocks
    <3> QED BY <3>1, <3>3, <1>2
  <2> QED BY <2>1, <2>2
<1>9. Len(t.blocks) = n /\ \A k \in 1 .. n : t.blocks[k] \in BlocksOf(mode)
  BY <1>2, <1>5, TakesBlocks DEF size
<1>10. PICK g : PRun(g, xf, mode, key, st[q], t.blocks, n)
  BY <1>6, <1>9, PRunExists
<1>11. PICK f : /\ PRun(f, xf, mode, key, st[q], t.blocks, n)
                /\ Processed(process(o, TRUE), o, t, f, n)
  <2>1. PRun(g, xf, mode, key, o.reg, t.blocks, n)
    BY <1>2, <1>10
  <2>2. \E f : PRun(f, xf, mode, key, o.reg, t.blocks, n) /\ Processed(process(o, TRUE), o, t, f, n)
    BY <1>5, <1>9, <2>1, ProcessRun DEF t, size, back
  <2> QED BY <2>2, <1>2
<1>12. \A k \in 1 .. n : /\ IsBlockOf(t.blocks[k], P, q + k, SizeOf(mode), e)
                         /\ (q + k - 1) * SizeOf(mode) <= e
                         /\ (q + k) * SizeOf(mode) <= e \/ mode \notin {"ECB", "CBC"}
  BY <1>5, <1>7 DEF Takes, size
<1>13. PutOut(f[n], ref, st, q, n, SizeOf(mode), e)
  <2>1. e <= Len(P)
    BY <1>2 DEF e
  <2>2. \A k \in 0 .. n : PutOut(f[k], ref, st, q, k, SizeOf(mode), e)
    BY <2>1, <1>2, <1>5, <1>8, <1>11, <1>12, PutOutAll
  <2> QED BY <2>2
<1>14. /\ f[n].out \in Seq(Byte) /\ Len(f[n].out) = n * size
       /\ \A i \in 1 .. n * size : q * size + i <= e => f[n].out[i] = ref[q * size + i]
  BY <1>13 DEF PutOut, size
<1>15. Keeps(process(o, TRUE).out, ref, q * size, e)
  <2> DEFINE w == process(o, TRUE).out
             l == n * size
             m == q * size
             v == f[n].out
  <2>1. w.words = v /\ w.sigBytes = e - m
    BY <1>5, <1>11 DEF Processed
  <2> HIDE DEF w, l, m, v
  <2>2. l \in Nat /\ m \in Nat /\ m <= e /\ e <= m + l
    BY <1>2, <1>5, <1>4 DEF l, m
  <2>3. v \in Seq(Byte) /\ Len(v) = l /\ \A i \in 1 .. l : m + i <= e => v[i] = ref[m + i]
    BY <1>14 DEF v, l, m
  <2>4. ASSUME NEW i \in 1 .. e - m PROVE ByteAt(v, i) = ref[m + i]
    <3>1. m + i <= e /\ i \in DOMAIN v /\ i \in 1 .. l
      BY <1>2, <2>2, <2>3
    <3> QED BY <3>1, <2>3 DEF ByteAt
  <2>5. Keeps(w, ref, m, e)
    BY <2>1, <2>2, <2>3, <2>4 DEF Keeps
  <2> QED BY <2>5 DEF w, m
<1>16. IsCipher(xf, process(o, TRUE).o, mode, padding, key, iv)
  <2>1. process(o, TRUE).o = Put(o, t.rest, f[n].state)
    BY <1>11 DEF Processed
  <2> DEFINE d == t.rest
             s == f[n].state
  <2> HIDE DEF d, s
  <2>2. IsCipher(xf, Put(o, d, s), mode, padding, key, iv)
    BY CipherStays
  <2> QED BY <2>1, <2>2 DEF d, s
<1> QED BY <1>15, <1>16 DEF size, e

-----------------------------------------------------------------------------
\* Counters as numbers.

\* the quotients of n by the powers of Base
Quotients(q, n, len) == q \in [0 .. len -> Nat] /\ q[0] = n /\ \A e \in 1 .. len : q[e] = q[e - 1] \div Base

\* A quotient by Base.
LEMMA Quotient == ASSUME NEW n \in Nat PROVE n \div Base \in Nat /\ n % Base \in 0 .. Base - 1
                                            /\ (n \div Base) * Base + (n % Base) = n
<1>1. Base \in Nat /\ Base > 0
  BY BaseIsPositive
<1> HIDE DEF Base
<1> QED BY <1>1, DivMod

\* The digits of a number are the rests of its quotients.
LEMMA DigitsAre ==
    ASSUME NEW n \in Nat, NEW len \in Nat
    PROVE  \E q : Quotients(q, n, len) /\ Digits(n, len) = [i \in 1 .. len |-> q[len - i] % Base]
<1> DEFINE Is(q) == q = [e \in 0 .. len |-> IF e = 0 THEN n ELSE q[e - 1] \div Base]
           q == CHOOSE a : Is(a)
           G == [e \in 1 .. len |-> [x \in Nat |-> x \div Base]]
<1>1. Digits(n, len) = [i \in 1 .. len |-> q[len - i] % Base]
  BY DEF Digits
<1>2. G \in [1 .. len -> [Nat -> Nat]]
  BY Quotient
<1>3. PICK g : FunRun(g, Nat, len, n, G)
  <2> HIDE DEF G
  <2> QED BY <1>2, FunRunExists
<1>4. Quotients(g, n, len)
  <2>1. ASSUME NEW e \in 1 .. len PROVE g[e] = g[e - 1] \div Base
    <3>1. e - 1 \in 0 .. len
      OBVIOUS
    <3> QED BY <3>1, <1>3 DEF FunRun
  <2> QED BY <2>1, <1>3 DEF FunRun, Quotients
<1>5. Is(g)
  <2>1. ASSUME NEW e \in 0 .. len PROVE g[e] = IF e = 0 THEN n ELSE g[e - 1] \div Base
    <3>1. e = 0 \/ e \in 1 .. len
      OBVIOUS
    <3> QED BY <3>1, <1>4 DEF Quotients
  <2>2. g = [e \in 0 .. len |-> g[e]]
    BY <1>4 DEF Quotients
  <2> QED BY <2>1, <2>2
<1>6. Is(q)
  <2> HIDE DEF Is
  <2> QED BY <1>5
<1> HIDE DEF q
<1>7. \A e \in 0 .. len : q[e] = g[e]
  <2>1. q[0] = g[0]
    BY <1>4, <1>6 DEF Quotients
  <2>2. ASSUME NEW e \in 1 .. len, q[e - 1] = g[e - 1] PROVE q[e] = g[e]
    <3>1. e \in 0 .. len /\ e # 0
      OBVIOUS
    <3>2. q[e] = q[e - 1] \div Base
      BY <3>1, <1>6
    <3> QED BY <2>2, <3>2, <1>4 DEF Quotients
  <2> HIDE DEF Is
  <2> QED BY <2>1, <2>2, SameRun
<1>8. \A i \in 1 .. len : len - i \in 0 .. len
  OBVIOUS
<1>9. Digits(n, len) = [i \in 1 .. len |-> g[len - i] % Base]
  BY <1>1, <1>7, <1>8
<1> QED BY <1>4, <1>9

\* Digits are bytes.
LEMMA DigitsTyped ==
    ASSUME NEW n \in Nat, NEW len \in Nat
    PROVE  Digits(n, len) \in Seq(Byte) /\ Len(Digits(n, len)) = len
<1>1. PICK q : Quotients(q, n, len) /\ Digits(n, len) = [i \in 1 .. len |-> q[len - i] % Base]
  BY DigitsAre
<1>2. ASSUME NEW i \in 1 .. len PROVE q[len - i] % Base \in Byte
  <2>1. len - i \in 0 .. len
    OBVIOUS
  <2>2. q[len - i] \in Nat
    BY <2>1, <1>1 DEF Quotients
  <2> QED BY <2>2, RestIsByte
<1> QED BY <1>1, <1>2

\* the numbers that the first digits are
Numbers(m, d) == /\ m \in [0 .. Len(d) -> Nat] /\ m[0] = 0
                 /\ \A k \in 1 .. Len(d) : m[k] = m[k - 1] * Base + d[k]

\* One digit more.
LEMMA NumberStep == ASSUME NEW n \in Nat, NEW b \in Byte PROVE n * Base + b \in Nat
<1>1. Base \in Nat /\ b \in Nat
  BY BaseIsPositive, ByteIsNat
<1> HIDE DEF Base
<1> QED BY <1>1, Times

\* A number is the last of those.
LEMMA NumberIs ==
    ASSUME NEW d \in Seq(Byte)
    PROVE  \E m : Numbers(m, d) /\ Number(d) = m[Len(d)]
<1> DEFINE len == Len(d)
           Is(m) == m = [k \in 0 .. len |-> IF k = 0 THEN 0 ELSE m[k - 1] * Base + d[k]]
           m == CHOOSE a : Is(a)
           G == [k \in 1 .. len |-> [x \in Nat |-> x * Base + d[k]]]
<1>1. Number(d) = m[len]
  BY DEF Number
<1>2. len \in Nat /\ \A k \in 1 .. len : d[k] \in Byte
  OBVIOUS
<1> HIDE DEF len
<1>3. G \in [1 .. len -> [Nat -> Nat]]
  BY <1>2, NumberStep
<1>4. PICK g : FunRun(g, Nat, len, 0, G)
  <2> HIDE DEF G
  <2> QED BY <1>2, <1>3, FunRunExists
<1>5. /\ g \in [0 .. len -> Nat] /\ g[0] = 0
      /\ \A k \in 1 .. len : g[k] = g[k - 1] * Base + d[k]
  <2>1. ASSUME NEW k \in 1 .. len PROVE g[k] = g[k - 1] * Base + d[k]
    <3>1. k - 1 \in 0 .. len
      BY <1>2
    <3> QED BY <3>1, <1>4 DEF FunRun
  <2> QED BY <2>1, <1>4 DEF FunRun
<1>6. Is(g)
  <2>1. ASSUME NEW k \in 0 .. len PROVE g[k] = IF k = 0 THEN 0 ELSE g[k - 1] * Base + d[k]
    <3>1. k = 0 \/ k \in 1 .. len
      BY <1>2
    <3> QED BY <3>1, <1>5
  <2>2. g = [k \in 0 .. len |-> g[k]]
    BY <1>5
  <2> QED BY <2>1, <2>2
<1>7. Is(m)
  <2> HIDE DEF Is
  <2> QED BY <1>6
<1> HIDE DEF m
<1>8. \A k \in 0 .. len : m[k] = g[k]
  <2>1. m[0] = g[0]
    BY <1>2, <1>5, <1>7
  <2>2. ASSUME NEW k \in 1 .. len, m[k - 1] = g[k - 1] PROVE m[k] = g[k]
    <3>1. k \in 0 .. len /\ k # 0
      BY <1>2
    <3>2. m[k] = m[k - 1] * Base + d[k]
      BY <3>1, <1>7
    <3> QED BY <2>2, <3>2, <1>5
  <2> HIDE DEF Is
  <2> QED BY <1>2, <2>1, <2>2, SameRun
<1>9. len \in 0 .. len
  BY <1>2
<1>10. Numbers(g, d) /\ Number(d) = g[len]
  BY <1>1, <1>5, <1>8, <1>9 DEF Numbers, len
<1> QED BY <1>10 DEF len

\* A number is a number.
LEMMA NumberTyped == ASSUME NEW d \in Seq(Byte) PROVE Number(d) \in Nat
<1>1. PICK m : Numbers(m, d) /\ Number(d) = m[Len(d)]
  BY NumberIs
<1>2. Len(d) \in 0 .. Len(d)
  OBVIOUS
<1> QED BY <1>1, <1>2 DEF Numbers

\* The digits of a number that was made of digits are those.
LEMMA DigitsOfNumber ==
    ASSUME NEW d \in Seq(Byte)
    PROVE  Digits(Number(d), Len(d)) = d
<1> DEFINE len == Len(d)
           n == Number(d)
<1>1. PICK m : Numbers(m, d) /\ n = m[len]
  BY NumberIs
<1>2. len \in Nat /\ \A k \in 1 .. len : d[k] \in Byte
  OBVIOUS
<1>3. n \in Nat
  BY NumberTyped
<1> HIDE DEF n
<1>4. /\ m \in [0 .. len -> Nat] /\ m[len] = n
      /\ \A k \in 1 .. len : m[k] = m[k - 1] * Base + d[k]
  BY <1>1 DEF Numbers
<1> HIDE DEF len
<1>5. PICK q : Quotients(q, n, len) /\ Digits(n, len) = [i \in 1 .. len |-> q[len - i] % Base]
  BY <1>2, <1>3, DigitsAre
<1>6. \A k \in 1 .. len : m[k] \div Base = m[k - 1] /\ m[k] % Base = d[k]
  <2> SUFFICES ASSUME NEW k \in 1 .. len PROVE m[k] \div Base = m[k - 1] /\ m[k] % Base = d[k]
    OBVIOUS
  <2>1. m[k] = m[k - 1] * Base + d[k] /\ m[k - 1] \in Nat /\ d[k] \in Nat /\ d[k] < Base /\ Base \in Nat
    <3>1. k - 1 \in 0 .. len
      BY <1>2
    <3>2. d[k] \in 0 .. Base - 1
      BY <1>2 DEF Byte
    <3>3. Base \in Nat
      BY BaseIsPositive
    <3> HIDE DEF Base
    <3> QED BY <3>1, <3>2, <3>3, <1>4
  <2> DEFINE x == m[k - 1]
             y == d[k]
  <2>2. x \in Nat /\ y \in Nat /\ y < Base /\ Base \in Nat
    BY <2>1
  <2> HIDE DEF Base, x, y
  <2>3. (x * Base + y) \div Base = x /\ (x * Base + y) % Base = y
    BY <2>2, DivIs
  <2> QED BY <2>1, <2>3 DEF x, y
<1> DEFINE X == {e \in Nat : q[e] = m[len - e]}
<1>7. 0 \in X
  BY <1>2, <1>4, <1>5 DEF Quotients
<1>8. ASSUME NEW e \in Nat, e < len /\ e \in X PROVE e + 1 \in X
  <2>1. e + 1 \in 1 .. len /\ (e + 1) - 1 = e /\ len - e \in 1 .. len /\ (len - e) - 1 = len - (e + 1)
    BY <1>2, <1>8
  <2>2. q[e + 1] = q[e] \div Base
    BY <2>1, <1>5 DEF Quotients
  <2> QED BY <2>1, <2>2, <1>6, <1>8
<1>9. \A e \in 0 .. len : e \in X
  <2> HIDE DEF X
  <2> QED BY <1>2, <1>7, <1>8, UpTo
<1>10. ASSUME NEW i \in 1 .. len PROVE q[len - i] % Base = d[i]
  <2>1. len - i \in 0 .. len /\ len - (len - i) = i
    BY <1>2
  <2>2. q[len - i] = m[i]
    BY <2>1, <1>9
  <2> QED BY <2>2, <1>6
<1>11. Digits(n, len) = [i \in 1 .. len |-> d[i]]
  <2> HIDE DEF X
  <2> QED BY <1>5, <1>10
<1>12. d = [i \in 1 .. len |-> d[i]]
  BY DEF len
<1> QED BY <1>11, <1>12 DEF n, len

\* The number after n, divided by Base.
LEMMA NextQuotient ==
    ASSUME NEW n \in Nat
    PROVE  /\ (n + 1) \div Base = IF n % Base = Base - 1 THEN (n \div Base) + 1 ELSE n \div Base
           /\ (n + 1) % Base = ((n % Base) + 1) % Base
<1> DEFINE d == Base
           q == n \div d
           m == n % d
<1>1. d \in Nat /\ d > 0 /\ q \in Nat /\ m \in 0 .. d - 1 /\ q * d + m = n
  BY Quotient, BaseIsPositive
<1> HIDE DEF d, q, m
<1>2. q * d \in Nat /\ (q + 1) * d = q * d + d /\ q + 1 \in Nat
  BY <1>1, Times
<1>3. CASE m = d - 1
  <2>1. n + 1 = (q + 1) * d + 0
    BY <1>1, <1>2, <1>3
  <2>2. ((q + 1) * d + 0) \div d = q + 1 /\ ((q + 1) * d + 0) % d = 0
    <3>1. 0 \in Nat /\ 0 < d
      BY <1>1
    <3> QED BY <3>1, <1>1, <1>2, DivIs
  <2>3. m + 1 = d /\ d % d = 0
    BY <1>1, <1>3, SmallRest
  <2> QED BY <2>1, <2>2, <2>3, <1>3 DEF d, q, m
<1>4. CASE m # d - 1
  <2>1. n + 1 = q * d + (m + 1) /\ m + 1 \in Nat /\ m + 1 < d
    BY <1>1, <1>2, <1>4
  <2>2. (q * d + (m + 1)) \div d = q /\ (q * d + (m + 1)) % d = m + 1
    BY <2>1, <1>1, DivIs
  <2>3. (m + 1) % d = m + 1
    BY <2>1, <1>1, SmallRest
  <2> QED BY <2>1, <2>2, <2>3, <1>4 DEF d, q, m
<1> QED BY <1>3, <1>4

\* The digits of the next number: one is carried over the digits that are at their limit.
LEMMA DigitsNext ==
    ASSUME NEW n \in Nat, NEW len \in Nat, NEW i \in 1 .. len
    PROVE  Digits(n + 1, len)[i] = IF \A j \in i + 1 .. len : Digits(n, len)[j] = Base - 1
                                   THEN (Digits(n, len)[i] + 1) % Base ELSE Digits(n, len)[i]
<1>1. PICK q : Quotients(q, n, len) /\ Digits(n, len) = [x \in 1 .. len |-> q[len - x] % Base]
  BY DigitsAre
<1>2. PICK p : Quotients(p, n + 1, len) /\ Digits(n + 1, len) = [x \in 1 .. len |-> p[len - x] % Base]
  <2>1. n + 1 \in Nat
    OBVIOUS
  <2> HIDE DEF Quotients
  <2> QED BY <2>1, DigitsAre
<1> DEFINE full(e) == \A x \in 0 .. e - 1 : q[x] % Base = Base - 1
           X == {e \in Nat : p[e] = IF full(e) THEN q[e] + 1 ELSE q[e]}
<1>3. \A e \in 0 .. len : q[e] \in Nat
  BY <1>1 DEF Quotients
<1>4. 0 \in X
  BY <1>1, <1>2 DEF Quotients
<1>5. ASSUME NEW e \in Nat, e < len /\ e \in X PROVE e + 1 \in X
  <2>1. e + 1 \in 1 .. len /\ (e + 1) - 1 = e /\ e \in 0 .. len
    BY <1>5
  <2>2. q[e + 1] = q[e] \div Base /\ p[e + 1] = p[e] \div Base /\ q[e] \in Nat
    BY <2>1, <1>1, <1>2, <1>3 DEF Quotients
  <2>3. full(e + 1) <=> full(e) /\ q[e] % Base = Base - 1
    <3>1. \A x \in 0 .. (e + 1) - 1 : x \in 0 .. e - 1 \/ x = e
      BY <2>1
    <3>2. e \in 0 .. (e + 1) - 1 /\ \A x \in 0 .. e - 1 : x \in 0 .. (e + 1) - 1
      BY <2>1
    <3> HIDE DEF Base
    <3> QED BY ONLY <3>1, <3>2
  <2>4. (q[e] + 1) \div Base = IF q[e] % Base = Base - 1 THEN (q[e] \div Base) + 1 ELSE q[e] \div Base
    BY <2>2, NextQuotient
  <2> HIDE DEF full, Base
  <2>5. p[e + 1] = IF full(e + 1) THEN q[e + 1] + 1 ELSE q[e + 1]
    <3>1. CASE full(e)
      BY <3>1, <2>2, <2>3, <2>4, <1>5
    <3>2. CASE ~full(e)
      BY <3>2, <2>2, <2>3, <1>5
    <3> QED BY <3>1, <3>2
  <2> QED BY <2>5
<1>6. \A e \in 0 .. len : e \in X
  <2> HIDE DEF X
  <2> QED BY <1>4, <1>5, UpTo
<1>7. len - i \in 0 .. len
  OBVIOUS
<1>8. p[len - i] = IF full(len - i) THEN q[len - i] + 1 ELSE q[len - i]
  <2> HIDE DEF full
  <2> QED BY <1>6, <1>7
<1>9. full(len - i) <=> \A j \in i + 1 .. len : Digits(n, len)[j] = Base - 1
  <2> DEFINE ds == Digits(n, len)
  <2>1. \A j \in i + 1 .. len : j \in 1 .. len /\ len - j \in 0 .. (len - i) - 1
    OBVIOUS
  <2>2. \A x \in 0 .. (len - i) - 1 : len - x \in i + 1 .. len /\ len - (len - x) = x
    OBVIOUS
  <2>3. \A j \in i + 1 .. len : ds[j] = q[len - j] % Base
    BY <2>1, <1>1
  <2> HIDE DEF ds, Base
  <2>4. full(len - i) => \A j \in i + 1 .. len : ds[j] = Base - 1
    BY <2>1, <2>3
  <2>5. ASSUME \A j \in i + 1 .. len : ds[j] = Base - 1, NEW x \in 0 .. (len - i) - 1
        PROVE  q[x] % Base = Base - 1
    BY <2>2, <2>3, <2>5
  <2> QED BY <2>4, <2>5 DEF ds
<1>10. Digits(n, len)[i] = q[len - i] % Base /\ Digits(n + 1, len)[i] = p[len - i] % Base
  BY <1>1, <1>2
<1>11. (q[len - i] + 1) % Base = ((q[len - i] % Base) + 1) % Base
  <2>1. q[len - i] \in Nat
    BY <1>3, <1>7
  <2> QED BY <2>1, NextQuotient
<1> HIDE DEF full, X, Base
<1>12. CASE full(len - i)
  BY <1>8, <1>9, <1>10, <1>11, <1>12
<1>13. CASE ~full(len - i)
  BY <1>8, <1>9, <1>10, <1>13
<1> QED BY <1>12, <1>13

\* an iv is a block of bytes, in a sequence
AnIv(iv) == iv \in Seq(Byte) /\ Len(iv) = BlockBytes

\* the last word of an iv
LastWord(iv) == SubSeq(iv, BlockBytes - WordBytes + 1, BlockBytes)

\* The words of an iv.
LEMMA IvWords ==
    ASSUME NEW iv, AnIv(iv)
    PROVE  /\ iv \in BlockOf /\ BlockBytes = WordBytes + WordBytes /\ BlockBytes - WordBytes = WordBytes
           /\ LastWord(iv) \in Seq(Byte) /\ Len(LastWord(iv)) = WordBytes
           /\ \A i \in 1 .. WordBytes : LastWord(iv)[i] = iv[WordBytes + i]
           /\ SubSeq(iv, 1, WordBytes) \in Seq(Byte) /\ Len(SubSeq(iv, 1, WordBytes)) = WordBytes
           /\ \A i \in 1 .. WordBytes : SubSeq(iv, 1, WordBytes)[i] = iv[i]
<1>1. BlockBytes = WordBytes + WordBytes /\ WordBytes \in Nat \ {0} /\ BlockBytes - WordBytes = WordBytes
  BY BlockSize
<1> HIDE DEF BlockBytes
<1>2. LastWord(iv) = SubSeq(iv, WordBytes + 1, BlockBytes)
  BY <1>1 DEF LastWord
<1> USE DEF AnIv
<1>3. iv \in BlockOf
  BY <1>1 DEF BlockOf
<1>4. SubSeq(iv, 1, WordBytes) \in Seq(Byte) /\ Len(SubSeq(iv, 1, WordBytes)) = WordBytes
      /\ \A i \in 1 .. WordBytes : SubSeq(iv, 1, WordBytes)[i] = iv[i]
  BY <1>1
<1>5. LastWord(iv) \in Seq(Byte) /\ Len(LastWord(iv)) = WordBytes
  BY <1>1, <1>2
<1>6. \A i \in 1 .. WordBytes : LastWord(iv)[i] = iv[WordBytes + i]
  BY <1>1, <1>2
<1> QED BY <1>1, <1>3, <1>4, <1>5, <1>6

\* The counter of CTR, byte by byte.
LEMMA CtrBlock ==
    ASSUME NEW iv, AnIv(iv), NEW k \in Nat \ {0}
    PROVE  LET c == CounterBlock("CTR", iv, k)
           IN  /\ c \in BlockOf
               /\ \A i \in 1 .. WordBytes : c[i] = iv[i]
               /\ \A i \in 1 .. WordBytes :
                      c[WordBytes + i] = Digits(Number(LastWord(iv)) + (k - 1), WordBytes)[i]
<1> DEFINE W == WordBytes
           a == SubSeq(iv, 1, W)
           N == Number(LastWord(iv)) + (k - 1)
           d == Digits(N, W)
           c == CounterBlock("CTR", iv, k)
<1>1. W \in Nat /\ BlockBytes = W + W /\ BlockBytes - W = W /\ k - 1 \in Nat
  BY IvWords, Sizes3
<1>2. a \in Seq(Byte) /\ Len(a) = W /\ (\A i \in 1 .. W : a[i] = iv[i]) /\ LastWord(iv) \in Seq(Byte)
  BY IvWords
<1>3. Number(LastWord(iv)) \in Nat
  BY <1>2, NumberTyped
<1>4. N \in Nat /\ Number(LastWord(iv)) + k - 1 = N
  BY <1>1, <1>3
<1>5. c = a \o d
  <2>1. c = SubSeq(iv, 1, BlockBytes - W) \o Digits(Number(LastWord(iv)) + k - 1, W)
    BY DEF CounterBlock, LastWord
  <2> HIDE DEF c
  <2> QED BY <2>1, <1>1, <1>4
<1> HIDE DEF N, c, a
<1>6. d \in Seq(Byte) /\ Len(d) = W
  BY <1>1, <1>4, DigitsTyped
<1> HIDE DEF d
<1>7. a \o d \in Seq(Byte) /\ Len(a \o d) = W + W
  BY <1>2, <1>6, TwoLong
<1>8. (\A i \in 1 .. W : (a \o d)[i] = a[i]) /\ (\A i \in 1 .. W : (a \o d)[W + i] = d[i])
  BY <1>2, <1>6, ConcatAt
<1>9. c \in BlockOf
  <2> DEFINE y == a \o d
  <2>1. y \in Seq(Byte) /\ Len(y) = BlockBytes
    BY <1>1, <1>7
  <2> HIDE DEF y, BlockBytes
  <2>2. y \in [1 .. Len(y) -> Byte]
    BY <2>1
  <2>3. y \in BlockOf
    BY <2>1, <2>2 DEF BlockOf
  <2> QED BY <2>3, <1>5 DEF y
<1> QED BY <1>2, <1>5, <1>8, <1>9 DEF c, d, N

\* Two blocks are the same if their words are.
LEMMA SameBlock ==
    ASSUME NEW x \in BlockOf, NEW y \in BlockOf, \A i \in 1 .. WordBytes : x[i] = y[i],
           \A i \in 1 .. WordBytes : x[WordBytes + i] = y[WordBytes + i]
    PROVE  x = y
<1>1. BlockBytes = WordBytes + WordBytes /\ WordBytes \in Nat \ {0}
  BY BlockSize
<1> HIDE DEF BlockBytes
<1>2. x = [i \in 1 .. BlockBytes |-> x[i]] /\ y = [i \in 1 .. BlockBytes |-> y[i]]
  BY DEF BlockOf
<1>3. ASSUME NEW i \in 1 .. BlockBytes PROVE x[i] = y[i]
  <2>1. CASE i <= WordBytes
    <3>1. i \in 1 .. WordBytes
      BY <1>1, <2>1
    <3> QED BY <3>1
  <2>2. CASE ~(i <= WordBytes)
    <3> DEFINE l == i - WordBytes
    <3>1. l \in 1 .. WordBytes /\ WordBytes + l = i
      BY <1>1, <2>2
    <3> HIDE DEF l
    <3> QED BY <3>1
  <2> QED BY <2>1, <2>2
<1> QED BY ONLY <1>2, <1>3

\* The next counter of CTR, byte by byte.
LEMMA CtrNextAt ==
    ASSUME NEW reg \in BlockOf, NEW i \in 1 .. WordBytes
    PROVE  /\ CtrNext(reg)[i] = reg[i]
           /\ CtrNext(reg)[WordBytes + i] =
                  IF \A j \in i + 1 .. WordBytes : reg[WordBytes + j] = Base - 1
                  THEN (reg[WordBytes + i] + 1) % Base ELSE reg[WordBytes + i]
<1> DEFINE W == WordBytes
           low == [x \in 1 .. W |-> reg[BlockBytes - W + x]]
           carry(x) == \A j \in x + 1 .. W : low[j] = Base - 1
           f(x) == LET l == x - (BlockBytes - W) IN IF l >= 1 /\ carry(l) THEN (reg[x] + 1) % Base ELSE reg[x]
<1>1. BlockBytes = W + W /\ W \in Nat \ {0} /\ BlockBytes - W = W
  BY BlockSize
<1>2. CtrNext(reg) = [x \in 1 .. BlockBytes |-> f(x)]
  BY DEF CtrNext
<1> HIDE DEF BlockBytes, Base
<1>3. i \in 1 .. BlockBytes /\ W + i \in 1 .. BlockBytes /\ ~(i - W >= 1) /\ (W + i) - W = i /\ i >= 1
  BY <1>1
<1>4. f(i) = reg[i]
  BY <1>1, <1>3
<1>5. carry(i) <=> \A j \in i + 1 .. W : reg[W + j] = Base - 1
  <2>1. \A j \in i + 1 .. W : low[j] = reg[W + j]
    <3>1. \A j \in i + 1 .. W : j \in 1 .. W
      OBVIOUS
    <3> QED BY <1>1, <3>1
  <2> HIDE DEF low
  <2> QED BY <2>1
<1> HIDE DEF carry
<1>6. f(W + i) = IF carry(i) THEN (reg[W + i] + 1) % Base ELSE reg[W + i]
  BY <1>1, <1>3
<1> HIDE DEF f
<1> QED BY <1>2, <1>3, <1>4, <1>5, <1>6

\* CTR: the register runs through the numbers.
LEMMA CtrCounts ==
    ASSUME NEW iv, AnIv(iv), NEW k \in Nat \ {0}
    PROVE  /\ CounterBlock("CTR", iv, 1) = iv
           /\ CtrNext(CounterBlock("CTR", iv, k)) = CounterBlock("CTR", iv, k + 1)
<1> DEFINE W == WordBytes
           N == Number(LastWord(iv))
<1>1. N \in Nat /\ LastWord(iv) \in Seq(Byte) /\ Len(LastWord(iv)) = W /\ iv \in BlockOf
      /\ \A i \in 1 .. W : LastWord(iv)[i] = iv[W + i]
  <2>1. LastWord(iv) \in Seq(Byte) /\ Len(LastWord(iv)) = W /\ iv \in BlockOf
        /\ \A i \in 1 .. W : LastWord(iv)[i] = iv[W + i]
    BY IvWords
  <2>2. N \in Nat
    BY <2>1, NumberTyped
  <2> QED BY <2>1, <2>2
<1> HIDE DEF N
<1>2. ASSUME NEW x \in Nat \ {0}
      PROVE  /\ CounterBlock("CTR", iv, x) \in BlockOf
             /\ \A i \in 1 .. W : CounterBlock("CTR", iv, x)[i] = iv[i]
             /\ \A i \in 1 .. W : CounterBlock("CTR", iv, x)[W + i] = Digits(N + (x - 1), W)[i]
  BY CtrBlock DEF N
<1>3. CounterBlock("CTR", iv, 1) = iv
  <2>1. Digits(N, W) = LastWord(iv)
    BY <1>1, DigitsOfNumber DEF N
  <2>2. N + (1 - 1) = N /\ 1 \in Nat \ {0}
    BY <1>1
  <2>3. \A i \in 1 .. W : CounterBlock("CTR", iv, 1)[W + i] = iv[W + i]
    BY <1>1, <1>2, <2>1, <2>2
  <2> DEFINE c == CounterBlock("CTR", iv, 1)
  <2>4. c \in BlockOf /\ \A i \in 1 .. W : c[i] = iv[i]
    BY <1>2, <2>2
  <2> HIDE DEF c
  <2> QED BY <1>1, <2>3, <2>4, SameBlock DEF c
<1>4. CtrNext(CounterBlock("CTR", iv, k)) = CounterBlock("CTR", iv, k + 1)
  <2> DEFINE c == CounterBlock("CTR", iv, k)
             e == CounterBlock("CTR", iv, k + 1)
             n == N + (k - 1)
  <2>1. k + 1 \in Nat \ {0} /\ n \in Nat /\ N + ((k + 1) - 1) = n + 1
    BY <1>1
  <2>2. c \in BlockOf /\ (\A i \in 1 .. W : c[i] = iv[i]) /\ \A i \in 1 .. W : c[W + i] = Digits(n, W)[i]
    BY <1>2
  <2>3. e \in BlockOf /\ (\A i \in 1 .. W : e[i] = iv[i]) /\ \A i \in 1 .. W : e[W + i] = Digits(n + 1, W)[i]
    BY <1>2, <2>1
  <2> HIDE DEF c, e, n
  <2>4. CtrNext(c) \in BlockOf
    BY <2>2, CtrIsBlock
  <2>5. ASSUME NEW i \in 1 .. W PROVE CtrNext(c)[i] = e[i]
    BY <2>2, <2>3, CtrNextAt
  <2>6. ASSUME NEW i \in 1 .. W PROVE CtrNext(c)[W + i] = e[W + i]
    <3>1. CtrNext(c)[W + i] = IF \A j \in i + 1 .. W : c[W + j] = Base - 1
                              THEN (c[W + i] + 1) % Base ELSE c[W + i]
      BY <2>2, CtrNextAt
    <3>2. W \in Nat
      BY Sizes3
    <3>3. Digits(n + 1, W)[i] = IF \A j \in i + 1 .. W : Digits(n, W)[j] = Base - 1
                                THEN (Digits(n, W)[i] + 1) % Base ELSE Digits(n, W)[i]
      BY <2>1, <3>2, DigitsNext
    <3>4. \A j \in i + 1 .. W : j \in 1 .. W
      BY <3>2
    <3> HIDE DEF Base
    <3>5. (\A j \in i + 1 .. W : c[W + j] = Base - 1) <=> \A j \in i + 1 .. W : Digits(n, W)[j] = Base - 1
      BY ONLY <3>4, <2>2
    <3> QED BY ONLY <3>1, <3>3, <3>5, <2>2, <2>3
  <2>7. CtrNext(c) = e
    BY <2>3, <2>4, <2>5, <2>6, SameBlock
  <2> QED BY <2>7 DEF c, e
<1> QED BY <1>3, <1>4

\* A word that counts is at 0 again only behind its limit.
LEMMA WordOverflows ==
    ASSUME NEW w \in [1 .. WordBytes -> Byte]
    PROVE  incWord(w) = Zeros(WordBytes) <=> \A i \in 1 .. WordBytes : w[i] = Base - 1
<1> DEFINE W == WordBytes
           full(e) == \A j \in 1 .. e : w[j] = Base - 1
           f(i) == IF full(i - 1) THEN (w[i] + 1) % Base ELSE w[i]
           X == {e \in Nat : full(e)}
<1>1. W \in Nat \ {0} /\ Base \in Nat /\ Base > 1
  <2> HIDE DEF Base, BlockBytes
  <2> QED BY BlockSize, BaseIsPositive, BlockAssumption
<1>2. incWord(w) = [i \in 1 .. W |-> f(i)]
  BY DEF incWord
<1>3. Zeros(W) = [i \in 1 .. W |-> 0]
  BY DEF Zeros
<1>4. \A i \in 1 .. W : w[i] \in 0 .. Base - 1
  BY DEF Byte
<1>5. ASSUME full(W), NEW i \in 1 .. W PROVE f(i) = 0
  <2>1. full(i - 1)
    <3>1. \A j \in 1 .. i - 1 : j \in 1 .. W
      BY <1>1
    <3> QED BY <3>1, <1>5
  <2>2. w[i] + 1 = Base
    BY <1>1, <1>4, <1>5
  <2>3. Base % Base = 0
    BY <1>1, SmallRest
  <2> HIDE DEF full, Base
  <2> QED BY ONLY <2>1, <2>2, <2>3
<1>6. ASSUME \A i \in 1 .. W : f(i) = 0 PROVE full(W)
  <2>1. 0 \in X
    OBVIOUS
  <2>2. ASSUME NEW e \in Nat, e < W /\ e \in X PROVE e + 1 \in X
    <3>1. e + 1 \in 1 .. W /\ (e + 1) - 1 = e
      BY <1>1, <2>2
    <3>2. full(e)
      BY <2>2
    <3>3. (w[e + 1] + 1) % Base = 0
      <4>1. f(e + 1) = 0
        BY <1>6, <3>1
      <4> HIDE DEF full, Base
      <4> QED BY <4>1, <3>1, <3>2
    <3>4. w[e + 1] = Base - 1
      <4>1. CASE w[e + 1] # Base - 1
        <5>1. w[e + 1] + 1 \in Nat /\ w[e + 1] + 1 < Base /\ w[e + 1] + 1 # 0
          BY <1>1, <1>4, <3>1, <4>1
        <5>2. (w[e + 1] + 1) % Base = w[e + 1] + 1
          BY <1>1, <5>1, SmallRest
        <5> QED BY <3>3, <5>1, <5>2
      <4> QED BY <4>1
    <3>5. \A j \in 1 .. e + 1 : j \in 1 .. e \/ j = e + 1
      OBVIOUS
    <3> QED BY <3>2, <3>4, <3>5
  <2>3. \A e \in 0 .. W : e \in X
    <3> HIDE DEF X
    <3> QED BY <1>1, <2>1, <2>2, UpTo
  <2> QED BY <2>3, <1>1
<1>7. full(W) => incWord(w) = Zeros(W)
  <2> HIDE DEF f
  <2> QED BY <1>2, <1>3, <1>5
<1>8. incWord(w) = Zeros(W) => full(W)
  <2>1. ASSUME incWord(w) = Zeros(W), NEW i \in 1 .. W PROVE f(i) = 0
    <3> HIDE DEF f
    <3> QED BY <1>2, <1>3, <2>1
  <2> HIDE DEF f
  <2> QED BY <2>1, <1>6
<1> QED BY <1>7, <1>8

\* The next counter of CTRGladman, byte by byte: the two words count as one.
LEMMA GladmanNextAt ==
    ASSUME NEW reg \in BlockOf, NEW i \in 1 .. BlockBytes
    PROVE  incCounter(reg)[i] = IF \A j \in 1 .. i - 1 : reg[j] = Base - 1
                                THEN (reg[i] + 1) % Base ELSE reg[i]
<1> DEFINE W == WordBytes
           u == Word(reg, 1)
           v == Word(reg, 2)
           first == incWord(u)
           second == IF first = Zeros(W) THEN incWord(v) ELSE v
           at(x) == IF x <= W THEN first[x] ELSE IF x <= 2 * W THEN second[x - W] ELSE reg[x]
           full(e) == \A j \in 1 .. e : reg[j] = Base - 1
<1>1. W \in Nat \ {0} /\ BlockBytes = W + W /\ 2 * W = W + W
  BY BlockSize
<1>2. incCounter(reg)[i] = at(i)
  BY DEF incCounter
<1>3. u \in [1 .. W -> Byte] /\ \A x \in 1 .. W : u[x] = reg[x]
  <2>1. \A x \in 1 .. W : (1 - 1) * W + x = x
    BY <1>1
  <2> QED BY <1>1, <2>1 DEF Word, BlockOf
<1>4. v \in [1 .. W -> Byte] /\ \A x \in 1 .. W : v[x] = reg[W + x]
  <2>1. \A x \in 1 .. W : (2 - 1) * W + x = W + x
    BY <1>1
  <2> QED BY <1>1, <2>1 DEF Word, BlockOf
<1> HIDE DEF u, v, BlockBytes, Base
<1>5. first = Zeros(W) <=> full(W)
  BY <1>3, WordOverflows
<1>6. CASE i <= W
  <2>1. i \in 1 .. W /\ \A j \in 1 .. i - 1 : j \in 1 .. W
    BY <1>1, <1>6
  <2>2. first[i] = IF \A j \in 1 .. i - 1 : u[j] = Base - 1 THEN (u[i] + 1) % Base ELSE u[i]
    BY <2>1 DEF incWord
  <2>3. at(i) = first[i]
    BY <1>6
  <2> HIDE DEF at, first
  <2> QED BY <1>2, <1>3, <2>1, <2>2, <2>3
<1>7. CASE ~(i <= W)
  <2> DEFINE l == i - W
  <2>1. l \in 1 .. W /\ W + l = i /\ i <= 2 * W /\ l \in Int
    BY <1>1, <1>7
  <2>2. at(i) = second[l]
    BY <1>7, <2>1
  <2> HIDE DEF l, at, first
  <2>3. full(i - 1) <=> full(W) /\ \A j \in 1 .. l - 1 : v[j] = Base - 1
    <3>1. \A j \in 1 .. W : j \in 1 .. i - 1
      BY <1>1, <2>1
    <3>2. \A j \in 1 .. l - 1 : j \in 1 .. W /\ W + j \in 1 .. i - 1
      BY <1>1, <2>1
    <3>3. \A j \in 1 .. i - 1 : j \in 1 .. W \/ (j - W \in 1 .. l - 1 /\ W + (j - W) = j)
      BY <1>1, <2>1
    <3>4. full(i - 1) => full(W) /\ \A j \in 1 .. l - 1 : v[j] = Base - 1
      BY <3>1, <3>2, <1>4
    <3>5. ASSUME full(W), \A j \in 1 .. l - 1 : v[j] = Base - 1, NEW j \in 1 .. i - 1
          PROVE  reg[j] = Base - 1
      <4>1. CASE j \in 1 .. W
        BY <4>1, <3>5
      <4>2. CASE j - W \in 1 .. l - 1 /\ W + (j - W) = j
        BY <4>2, <3>2, <3>5, <1>4
      <4> QED BY <3>3, <4>1, <4>2
    <3> QED BY <3>4, <3>5
  <2>4. CASE full(W)
    <3>1. second[l] = IF \A j \in 1 .. l - 1 : v[j] = Base - 1 THEN (v[l] + 1) % Base ELSE v[l]
      BY <2>1, <2>4, <1>5 DEF incWord
    <3> HIDE DEF second, full
    <3> QED BY <1>2, <1>4, <2>1, <2>2, <2>3, <2>4, <3>1 DEF full
  <2>5. CASE ~full(W)
    <3>1. second[l] = v[l]
      BY <2>5, <1>5
    <3> HIDE DEF second
    <3> QED BY <1>2, <1>4, <2>1, <2>2, <2>3, <2>5, <3>1
  <2> QED BY <2>4, <2>5
<1> QED BY <1>6, <1>7

\* The counter of CTRGladman, byte by byte.
LEMMA GladmanBlock ==
    ASSUME NEW iv, AnIv(iv), NEW k \in Nat
    PROVE  /\ CounterBlock("CTRGladman", iv, k) \in BlockOf
           /\ \A i \in 1 .. BlockBytes :
                  CounterBlock("CTRGladman", iv, k)[i]
                      = Digits(Number(Reverse(iv)) + k, BlockBytes)[BlockBytes - i + 1]
<1> DEFINE B == BlockBytes
           N == Number(Reverse(iv)) + k
           d == Digits(N, B)
           r == Reverse(d)
           c == CounterBlock("CTRGladman", iv, k)
<1>1. B \in Nat /\ 2 * WordBytes = B
  BY BlockSize
<1>2. SubSeq(iv, 1, B) = iv /\ SubSeq(iv, B + 1, B) = << >>
  <2> HIDE DEF BlockBytes
  <2> QED BY <1>1 DEF AnIv
<1>3. c = r \o << >>
  <2>1. c = Reverse(Digits(Number(Reverse(SubSeq(iv, 1, 2 * WordBytes))) + k, 2 * WordBytes))
            \o SubSeq(iv, 2 * WordBytes + 1, BlockBytes)
    BY DEF CounterBlock
  <2> HIDE DEF c, BlockBytes
  <2> QED BY <2>1, <1>1, <1>2
<1>4. Reverse(iv) \in Seq(Byte)
  <2>1. \A i \in 1 .. Len(iv) : iv[(Len(iv) - i) + 1] \in Byte
    BY DEF AnIv
  <2> HIDE DEF Byte
  <2> QED BY <2>1 DEF AnIv, Reverse
<1> HIDE DEF BlockBytes
<1>5. d \in Seq(Byte) /\ Len(d) = B
  <2>1. Number(Reverse(iv)) \in Nat
    BY <1>4, NumberTyped
  <2>2. N \in Nat
    BY <2>1
  <2> HIDE DEF N
  <2> QED BY <2>2, <1>1, DigitsTyped
<1> HIDE DEF d, c
<1>6. r = [i \in 1 .. B |-> d[(B - i) + 1]]
  BY <1>5 DEF Reverse
<1> HIDE DEF r
<1>7. r \in Seq(Byte) /\ Len(r) = B /\ \A i \in 1 .. B : r[i] = d[(B - i) + 1]
  <2>1. \A i \in 1 .. B : d[(B - i) + 1] \in Byte
    BY <1>5
  <2> HIDE DEF Byte
  <2>2. r \in Seq(Byte) /\ Len(r) = B
    BY <2>1, <1>6, <1>1
  <2> QED BY <1>6, <2>2
<1>8. r \o << >> = r
  BY <1>7
<1>9. r \in BlockOf
  <2>1. r \in [1 .. Len(r) -> Byte]
    BY <1>7
  <2> QED BY <2>1, <1>7 DEF BlockOf
<1> QED BY <1>3, <1>7, <1>8, <1>9 DEF d, c

\* CTRGladman: the register runs through the numbers.
LEMMA GladmanCounts ==
    ASSUME NEW iv, AnIv(iv), NEW k \in Nat
    PROVE  /\ CounterBlock("CTRGladman", iv, 0) = iv
           /\ incCounter(CounterBlock("CTRGladman", iv, k)) = CounterBlock("CTRGladman", iv, k + 1)
<1> DEFINE B == BlockBytes
           N == Number(Reverse(iv))
           R(x) == CounterBlock("CTRGladman", iv, x)
<1>1. B \in Nat \ {0}
  BY BlockSize
<1>2. iv \in Seq(Byte) /\ Len(iv) = B /\ iv \in BlockOf
  BY IvWords DEF AnIv
<1> HIDE DEF BlockBytes
<1>3. Reverse(iv) = [i \in 1 .. B |-> iv[(B - i) + 1]]
  BY <1>2 DEF Reverse
<1>4. Reverse(iv) \in Seq(Byte) /\ Len(Reverse(iv)) = B
  <2>1. \A i \in 1 .. B : iv[(B - i) + 1] \in Byte
    BY <1>2
  <2> HIDE DEF Byte
  <2> QED BY <2>1, <1>3, <1>1
<1>5. N \in Nat
  BY <1>4, NumberTyped
<1>6. ASSUME NEW x \in Nat
      PROVE  R(x) \in BlockOf /\ \A i \in 1 .. B : R(x)[i] = Digits(N + x, B)[(B - i) + 1]
  BY GladmanBlock
<1> HIDE DEF N
<1>7. R(0) = iv
  <2>1. Digits(N, B) = Reverse(iv)
    BY <1>4, DigitsOfNumber DEF N
  <2>2. N + 0 = N /\ 0 \in Nat
    BY <1>5
  <2>3. \A i \in 1 .. B : R(0)[i] = Reverse(iv)[(B - i) + 1]
    BY <1>6, <2>1, <2>2
  <2>4. \A i \in 1 .. B : (B - i) + 1 \in 1 .. B /\ (B - ((B - i) + 1)) + 1 = i
    BY <1>1
  <2>5. \A i \in 1 .. B : Reverse(iv)[(B - i) + 1] = iv[i]
    BY <2>4, <1>3
  <2> DEFINE c == R(0)
  <2>6. c = [i \in 1 .. B |-> c[i]] /\ iv = [i \in 1 .. B |-> iv[i]]
    <3>1. c \in BlockOf
      BY <1>6, <2>2
    <3> HIDE DEF c
    <3> QED BY <3>1, <1>2 DEF BlockOf
  <2>7. \A i \in 1 .. B : c[i] = iv[i]
    BY <2>3, <2>5
  <2> HIDE DEF c
  <2>8. c = iv
    BY ONLY <2>6, <2>7
  <2> QED BY <2>8 DEF c
<1>8. incCounter(R(k)) = R(k + 1)
  <2> DEFINE c == R(k)
             e == R(k + 1)
             n == N + k
  <2>1. k + 1 \in Nat /\ n \in Nat /\ N + (k + 1) = n + 1
    BY <1>5
  <2>2. c \in BlockOf /\ \A i \in 1 .. B : c[i] = Digits(n, B)[(B - i) + 1]
    BY <1>6
  <2>3. e \in BlockOf /\ \A i \in 1 .. B : e[i] = Digits(n + 1, B)[(B - i) + 1]
    BY <1>6, <2>1
  <2> HIDE DEF c, e, n, R
  <2>4. incCounter(c) \in BlockOf
    BY <2>2, GladmanIsBlock
  <2>5. ASSUME NEW i \in 1 .. B PROVE incCounter(c)[i] = e[i]
    <3> DEFINE p == (B - i) + 1
    <3>1. p \in 1 .. B /\ p \in Int
      BY <1>1
    <3>2. incCounter(c)[i] = IF \A j \in 1 .. i - 1 : c[j] = Base - 1 THEN (c[i] + 1) % Base ELSE c[i]
      BY <2>2, GladmanNextAt
    <3>3. (\A j \in 1 .. i - 1 : c[j] = Base - 1) <=> \A j \in p + 1 .. B : Digits(n, B)[j] = Base - 1
      <4>1. \A j \in 1 .. i - 1 : j \in 1 .. B /\ (B - j) + 1 \in p + 1 .. B
        BY <1>1
      <4>2. \A j \in p + 1 .. B : (B - j) + 1 \in 1 .. i - 1 /\ (B - ((B - j) + 1)) + 1 = j
        BY <1>1
      <4> HIDE DEF Base, p
      <4>3. ASSUME \A j \in 1 .. i - 1 : c[j] = Base - 1, NEW j \in p + 1 .. B
            PROVE  Digits(n, B)[j] = Base - 1
        BY ONLY <4>1, <4>2, <4>3, <2>2
      <4>4. ASSUME \A j \in p + 1 .. B : Digits(n, B)[j] = Base - 1, NEW j \in 1 .. i - 1
            PROVE  c[j] = Base - 1
        BY ONLY <4>1, <4>4, <2>2
      <4> QED BY <4>3, <4>4
    <3> HIDE DEF p
    <3>4. Digits(n + 1, B)[p] = IF \A j \in p + 1 .. B : Digits(n, B)[j] = Base - 1
                                THEN (Digits(n, B)[p] + 1) % Base ELSE Digits(n, B)[p]
      BY <1>1, <2>1, <3>1, DigitsNext
    <3>5. c[i] = Digits(n, B)[p] /\ e[i] = Digits(n + 1, B)[p]
      BY <2>2, <2>3 DEF p
    <3> HIDE DEF Base
    <3> QED BY ONLY <3>2, <3>3, <3>4, <3>5
  <2> DEFINE x == incCounter(c)
  <2> HIDE DEF x
  <2>6. x = [i \in 1 .. B |-> x[i]] /\ e = [i \in 1 .. B |-> e[i]]
    BY <2>3, <2>4 DEF BlockOf, x
  <2>7. \A i \in 1 .. B : x[i] = e[i]
    BY <2>5 DEF x
  <2>8. x = e
    BY ONLY <2>6, <2>7
  <2> QED BY <2>8 DEF c, e, x
<1> QED BY <1>7, <1>8

-----------------------------------------------------------------------------
\* The textbook.

\* x holds k blocks, those of c
FlatTo(x, c, k) ==
    /\ x \in Seq(Byte) /\ Len(x) = k * BlockBytes
    /\ \A j \in 1 .. k, i \in 1 .. BlockBytes : x[(j - 1) * BlockBytes + i] = c[j][i]

\* A block is a sequence of bytes.
LEMMA BlockIsSeq == ASSUME NEW b \in BlockOf PROVE b \in Seq(Byte) /\ Len(b) = BlockBytes
  BY BlockSize DEF BlockOf

\* One block more.
LEMMA FlatOne ==
    ASSUME NEW x, NEW c, NEW k \in Nat, FlatTo(x, c, k), c[k + 1] \in BlockOf
    PROVE  FlatTo(x \o c[k + 1], c, k + 1)
<1> DEFINE B == BlockBytes
           u == c[k + 1]
           y == x \o u
           l == k * B
<1>1. B \in Nat /\ u \in Seq(Byte) /\ Len(u) = B
  BY BlockSize, BlockIsSeq
<1> HIDE DEF BlockBytes
<1>2. x \in Seq(Byte) /\ Len(x) = l /\ \A j \in 1 .. k, i \in 1 .. B : x[(j - 1) * B + i] = c[j][i]
  BY DEF FlatTo
<1>3. l \in Nat /\ (k + 1) * B = l + B
  <2>1. (k + 1) * B = k * B + 1 * B /\ 1 * B = B /\ k * B \in Nat
    BY <1>1, Times
  <2> QED BY <2>1
<1>4. y \in Seq(Byte) /\ Len(y) = (k + 1) * B
  <2>1. x \o u \in Seq(Byte) /\ Len(x \o u) = Len(x) + Len(u)
    BY <1>1, <1>2, TwoLong
  <2> QED BY <2>1, <1>1, <1>2, <1>3
<1>5. (\A i \in 1 .. l : y[i] = x[i]) /\ \A i \in 1 .. B : y[l + i] = u[i]
  <2>1. (\A i \in 1 .. Len(x) : (x \o u)[i] = x[i]) /\ \A i \in 1 .. Len(u) : (x \o u)[Len(x) + i] = u[i]
    BY <1>1, <1>2, ConcatAt
  <2> HIDE DEF l, u
  <2> QED BY <2>1, <1>1, <1>2
<1>6. ASSUME NEW j \in 1 .. k + 1, NEW i \in 1 .. B PROVE y[(j - 1) * B + i] = c[j][i]
  <2>1. CASE j = k + 1
    <3>1. (j - 1) * B = l
      <4>1. j - 1 = k
        BY <2>1
      <4> QED BY <4>1
    <3> HIDE DEF l, y
    <3> QED BY <2>1, <3>1, <1>5
  <2>2. CASE j # k + 1
    <3> DEFINE p == (j - 1) * B
    <3>1. j \in 1 .. k /\ j - 1 \in Nat /\ k - j \in Nat
      BY <2>2
    <3>2. p \in Nat /\ p + B <= l
      <4>1. (j - 1) * B \in Nat /\ (k - j) * B \in Nat /\ ((j - 1) + 1) * B = (j - 1) * B + 1 * B /\ 1 * B = B
        BY <1>1, <3>1, Times
      <4>2. j \in Nat /\ (j + (k - j)) * B = j * B + (k - j) * B /\ j * B \in Nat
        BY <1>1, <3>1, Times
      <4>3. (j - 1) + 1 = j /\ j + (k - j) = k
        BY <3>1
      <4> DEFINE q == j * B
                 r == (k - j) * B
      <4>4. q = p + B /\ l = q + r /\ p \in Nat /\ r \in Nat /\ q \in Nat
        BY <4>1, <4>2, <4>3
      <4> HIDE DEF p, q, r, l
      <4> QED BY <4>4, <1>1
    <3> HIDE DEF p, l, y
    <3>3. p + i \in 1 .. l
      BY <3>2, <1>1, <1>3
    <3>4. x[p + i] = c[j][i]
      BY <1>2, <3>1 DEF p
    <3> QED BY <3>3, <3>4, <1>5 DEF p
  <2> QED BY <2>1, <2>2
<1> HIDE DEF y
<1>7. FlatTo(y, c, k + 1)
  BY <1>4, <1>6 DEF FlatTo
<1> QED BY <1>7 DEF y

\* FlattenSeq puts blocks one behind the other.
LEMMA FlattenBlocks ==
    ASSUME NEW n \in Nat, NEW c, \A k \in 1 .. n : c[k] \in BlockOf
    PROVE  FlatTo(FlattenSeq([k \in 1 .. n |-> c[k]]), c, n)
<1> DEFINE s == [k \in 1 .. n |-> c[k]]
           X == Seq(Byte)
           G == [k \in 1 .. n |-> [x \in X |-> x \o c[k]]]
           Is(f) == f = [i \in 1 .. Len(s) |-> IF i = 1 THEN s[i] ELSE f[i - 1] \o s[i]]
           f == CHOOSE a : Is(a)
<1>1. Len(s) = n /\ \A k \in 1 .. n : s[k] = c[k]
  OBVIOUS
<1>2. FlatTo(<< >>, c, 0)
  <2>1. 0 * BlockBytes = 0 /\ << >> \in Seq(Byte) /\ Len(<< >>) = 0
    BY BlockSize
  <2> HIDE DEF BlockBytes
  <2> QED BY <2>1 DEF FlatTo
<1>3. CASE n = 0
  <2>1. FlattenSeq(s) = s
    BY <1>1, <1>3 DEF FlattenSeq
  <2>2. s = << >>
    BY <1>3
  <2> QED BY <2>1, <2>2, <1>2, <1>3
<1>4. CASE n # 0
  <2>1. FlattenSeq(s) = f[n]
    BY <1>1, <1>4 DEF FlattenSeq
  <2>2. \A k \in 1 .. n : c[k] \in X
    BY BlockIsSeq
  <2>3. G \in [1 .. n -> [X -> X]]
    <3>1. ASSUME NEW k \in 1 .. n, NEW x \in X PROVE x \o c[k] \in X
      BY <2>2
    <3> QED BY <3>1
  <2>4. PICK g : FunRun(g, X, n, << >>, G)
    <3>1. << >> \in X
      OBVIOUS
    <3> HIDE DEF X, G
    <3> QED BY <2>3, <3>1, FunRunExists
  <2>5. g[0] = << >> /\ \A k \in 0 .. n : g[k] \in X
    BY <2>4 DEF FunRun
  <2>6. ASSUME NEW k \in 1 .. n PROVE g[k] = g[k - 1] \o c[k]
    <3>1. k - 1 \in 0 .. n
      OBVIOUS
    <3>2. g[k] = G[k][g[k - 1]] /\ g[k - 1] \in X
      BY <3>1, <2>4, <2>5 DEF FunRun
    <3> QED BY <3>2
  <2> HIDE DEF s, G
  <2> DEFINE h == [i \in 1 .. n |-> g[i]]
  <2>7. Is(h)
    <3>1. ASSUME NEW i \in 1 .. n PROVE h[i] = IF i = 1 THEN s[i] ELSE h[i - 1] \o s[i]
      <4>1. CASE i = 1
        <5>1. 1 \in 1 .. n /\ 1 - 1 = 0
          BY <4>1
        <5>2. g[1] = g[1 - 1] \o c[1] /\ 1 - 1 = 0 /\ c[1] \in Seq(Byte)
          BY ONLY <2>2, <2>6, <5>1
        <5>3. << >> \o c[1] = c[1]
          BY <5>2
        <5>4. g[1] = c[1]
          BY <5>2, <5>3, <2>5
        <5> QED BY <5>4, <4>1, <1>1
      <4>2. CASE i # 1
        <5>1. i - 1 \in 1 .. n
          BY <4>2
        <5> QED BY <5>1, <4>2, <2>6, <1>1
      <4> QED BY <4>1, <4>2
    <3>2. h = [i \in 1 .. n |-> h[i]]
      OBVIOUS
    <3> HIDE DEF h
    <3> QED BY <3>1, <3>2, <1>1
  <2>8. Is(f)
    <3> HIDE DEF Is, h
    <3> QED BY <2>7
  <2> HIDE DEF f
  <2> DEFINE S == {k \in Nat : FlatTo(g[k], c, k) /\ (k # 0 => f[k] = g[k])}
  <2>9. 0 \in S
    BY <1>2, <2>5
  <2>10. ASSUME NEW k \in Nat, k < n /\ k \in S PROVE k + 1 \in S
    <3>1. k + 1 \in 1 .. n /\ (k + 1) - 1 = k /\ FlatTo(g[k], c, k) /\ (k # 0 => f[k] = g[k])
      BY <2>10
    <3>2. g[k + 1] = g[k] \o c[k + 1] /\ c[k + 1] \in BlockOf
      BY <3>1, <2>6
    <3>3. FlatTo(g[k + 1], c, k + 1)
      BY <3>1, <3>2, FlatOne
    <3>4. f[k + 1] = IF k + 1 = 1 THEN s[k + 1] ELSE f[(k + 1) - 1] \o s[k + 1]
      BY <3>1, <2>8, <1>1
    <3>5. f[k + 1] = g[k + 1]
      <4>1. CASE k = 0
        <5>1. 1 \in 1 .. n /\ k + 1 = 1 /\ 1 \in 1 .. Len(s)
          BY <4>1, <3>1, <1>1
        <5>2. g[1] = h[1] /\ h[1] = s[1] /\ k + 1 = 1
          <6>1. h[1] = g[1]
            BY <5>1
          <6> HIDE DEF h
          <6>2. h[1] = s[1]
            BY <2>7, <5>1
          <6> QED BY <5>1, <6>1, <6>2
        <5> HIDE DEF h
        <5> QED BY <5>2, <3>4
      <4>2. CASE k # 0
        <5>1. k + 1 # 1
          BY <4>2
        <5> QED BY <5>1, <4>2, <3>1, <3>2, <3>4, <1>1
      <4> QED BY <4>1, <4>2
    <3> QED BY <3>3, <3>5
  <2>11. \A k \in 0 .. n : k \in S
    <3> HIDE DEF S
    <3> QED BY <2>9, <2>10, UpTo
  <2>12. n \in 0 .. n
    OBVIOUS
  <2>13. FlatTo(f[n], c, n)
    BY <2>11, <2>12, <1>4
  <2> QED BY <2>1, <2>13 DEF s
<1> QED BY <1>3, <1>4

\* how many blocks a text fills
BlocksIn(text) == (Len(text) + BlockBytes - 1) \div BlockBytes
\* a block of ciphertext of any mode
NextC(mode, key, iv, text, ok, k, x) ==
    CASE mode = "ECB" -> encryptBlock(key, BlockAt(text, k))
      [] mode = "CBC" -> encryptBlock(key, xorBlock(BlockAt(text, k), x))
      [] mode = "CFB" -> xorBlock(BlockAt(text, k), encryptBlock(key, x))
      [] mode = "OFB" -> xorBlock(BlockAt(text, k), ok)
      [] OTHER        -> xorBlock(BlockAt(text, k), encryptBlock(key, CounterBlock(mode, iv, k)))
\* the functions of Textbook
TextRun(o, c, mode, key, iv, text, n) ==
    /\ o[0] = iv /\ c[0] = iv /\ \A k \in 0 .. n : o[k] \in BlockOf /\ c[k] \in BlockOf
    /\ \A k \in 1 .. n : /\ o[k] = encryptBlock(key, o[k - 1])
                         /\ c[k] = NextC(mode, key, iv, text, o[k], k, c[k - 1])

\* The blocks of a text are blocks.
LEMMA BlockAtTyped ==
    ASSUME NEW text \in Seq(Byte), NEW k \in Nat \ {0}
    PROVE  BlockAt(text, k) \in BlockOf /\ BlockAt(text, k) = Block(text, k - 1, BlockBytes)
<1>1. \A i \in 1 .. BlockBytes : ByteAt(text, (k - 1) * BlockBytes + i) \in Byte
  BY ByteInByte
<1> QED BY <1>1 DEF BlockAt, Block, BlockOf

\* A block of ciphertext is a block.
LEMMA NextCTyped ==
    ASSUME EncryptsBlocks, NEW mode \in Modes, NEW key \in AKey, NEW iv, AnIv(iv), NEW text \in Seq(Byte),
           NEW ok \in BlockOf, NEW k \in Nat \ {0}, NEW x \in BlockOf
    PROVE  NextC(mode, key, iv, text, ok, k, x) \in BlockOf
<1> DEFINE p == BlockAt(text, k)
<1>1. p \in BlockOf
  BY BlockAtTyped
<1>2. CounterBlock("CTR", iv, k) \in BlockOf /\ CounterBlock("CTRGladman", iv, k) \in BlockOf
  BY CtrBlock, GladmanBlock
<1> HIDE DEF p
<1>3. ASSUME NEW b \in BlockOf PROVE encryptBlock(key, b) \in BlockOf /\ xorBlock(p, b) \in BlockOf
  BY <1>1, XorIsBlock DEF EncryptsBlocks
<1>4. CASE mode = "ECB"
  BY <1>1, <1>3, <1>4 DEF NextC, p
<1>5. CASE mode = "CBC"
  BY <1>3, <1>5 DEF NextC, p
<1>6. CASE mode = "CFB"
  BY <1>3, <1>6 DEF NextC, p
<1>7. CASE mode = "OFB"
  BY <1>3, <1>7 DEF NextC, p
<1>8. CASE mode \in {"CTR", "CTRGladman"}
  BY <1>2, <1>3, <1>8 DEF NextC, p
<1> QED BY <1>4, <1>5, <1>6, <1>7, <1>8 DEF Modes

\* What the textbook computes.
LEMMA TextbookIs ==
    ASSUME EncryptsBlocks, NEW mode \in Modes, NEW key \in AKey, NEW iv, AnIv(iv), NEW text \in Seq(Byte)
    PROVE  \E o, c : /\ TextRun(o, c, mode, key, iv, text, BlocksIn(text))
                     /\ Textbook(mode, key, iv, text)
                            = SubSeq(FlattenSeq([k \in 1 .. BlocksIn(text) |-> c[k]]), 1, Len(text))
<1> DEFINE n == BlocksIn(text)
           IsO(f) == f = [k \in 0 .. n |-> IF k = 0 THEN iv ELSE encryptBlock(key, f[k - 1])]
           o == CHOOSE f : IsO(f)
           IsC(f) == f = [k \in 0 .. n |-> IF k = 0 THEN iv
                                           ELSE NextC(mode, key, iv, text, o[k], k, f[k - 1])]
           c == CHOOSE f : IsC(f)
<1>1. Textbook(mode, key, iv, text) = SubSeq(FlattenSeq([k \in 1 .. n |-> c[k]]), 1, Len(text))
  BY DEF Textbook, NextC, BlocksIn
<1>2. n \in Nat /\ iv \in BlockOf
  <2>1. Len(text) + BlockBytes - 1 \in Nat /\ BlockBytes \in Nat /\ BlockBytes > 0
    <3>1. Len(text) \in Nat /\ BlockBytes \in Nat /\ BlockBytes > 0
      BY BlockSize
    <3> HIDE DEF BlockBytes
    <3> QED BY <3>1
  <2>2. n \in Nat
    <3> HIDE DEF BlockBytes
    <3> QED BY <2>1, DivMod DEF BlocksIn
  <2> QED BY <2>2, IvWords
<1> HIDE DEF n
<1>3. IsO(o) /\ \A k \in 0 .. n : o[k] \in BlockOf
  <2> DEFINE G == [k \in 1 .. n |-> [x \in BlockOf |-> encryptBlock(key, x)]]
  <2>1. G \in [1 .. n -> [BlockOf -> BlockOf]]
    <3>1. \A x \in BlockOf : encryptBlock(key, x) \in BlockOf
      BY DEF EncryptsBlocks
    <3> HIDE DEF BlockOf
    <3> QED BY <3>1
  <2>2. PICK g : FunRun(g, BlockOf, n, iv, G)
    <3> HIDE DEF G
    <3> QED BY <2>1, <1>2, FunRunExists
  <2>3. IsO(g)
    <3>1. ASSUME NEW k \in 0 .. n PROVE g[k] = IF k = 0 THEN iv ELSE encryptBlock(key, g[k - 1])
      <4>1. CASE k = 0
        BY <4>1, <2>2 DEF FunRun
      <4>2. CASE k # 0
        <5>1. k \in 1 .. n /\ k - 1 \in 0 .. n
          BY <1>2, <4>2
        <5> QED BY <5>1, <4>2, <2>2 DEF FunRun
      <4> QED BY <4>1, <4>2
    <3>2. g = [k \in 0 .. n |-> g[k]]
      BY <2>2 DEF FunRun
    <3> QED BY <3>1, <3>2
  <2>4. IsO(o)
    <3> HIDE DEF IsO
    <3> QED BY <2>3
  <2> HIDE DEF o
  <2>5. \A k \in 0 .. n : o[k] = g[k]
    <3>1. o[0] = iv /\ g[0] = iv
      BY <2>3, <2>4, <1>2
    <3>2. ASSUME NEW k \in 1 .. n, o[k - 1] = g[k - 1] PROVE o[k] = g[k]
      <4>1. k \in 0 .. n /\ k # 0
        BY <1>2
      <4> QED BY <4>1, <2>3, <2>4, <3>2
    <3> QED BY <3>1, <3>2, <1>2, SameRun
  <2>6. \A k \in 0 .. n : o[k] \in BlockOf
    BY <2>5, <2>2 DEF FunRun
  <2> QED BY <2>4, <2>6
<1> HIDE DEF o
<1>4. IsC(c) /\ \A k \in 0 .. n : c[k] \in BlockOf
  <2> DEFINE G == [k \in 1 .. n |-> [x \in BlockOf |-> NextC(mode, key, iv, text, o[k], k, x)]]
  <2>1. G \in [1 .. n -> [BlockOf -> BlockOf]]
    <3>1. ASSUME NEW k \in 1 .. n, NEW x \in BlockOf PROVE NextC(mode, key, iv, text, o[k], k, x) \in BlockOf
      <4>1. k \in 0 .. n /\ k \in Nat \ {0}
        BY <1>2
      <4>2. o[k] \in BlockOf
        BY <4>1, <1>3
      <4> QED BY <4>1, <4>2, NextCTyped
    <3> HIDE DEF BlockOf
    <3> QED BY <3>1
  <2>2. PICK g : FunRun(g, BlockOf, n, iv, G)
    <3> HIDE DEF G
    <3> QED BY <2>1, <1>2, FunRunExists
  <2>3. IsC(g)
    <3>1. ASSUME NEW k \in 0 .. n
          PROVE  g[k] = IF k = 0 THEN iv ELSE NextC(mode, key, iv, text, o[k], k, g[k - 1])
      <4>1. CASE k = 0
        BY <4>1, <2>2 DEF FunRun
      <4>2. CASE k # 0
        <5>1. k \in 1 .. n /\ k - 1 \in 0 .. n
          BY <1>2, <4>2
        <5> QED BY <5>1, <4>2, <2>2 DEF FunRun
      <4> QED BY <4>1, <4>2
    <3>2. g = [k \in 0 .. n |-> g[k]]
      BY <2>2 DEF FunRun
    <3> QED BY <3>1, <3>2
  <2>4. IsC(c)
    <3> HIDE DEF IsC
    <3> QED BY <2>3
  <2> HIDE DEF c
  <2>5. \A k \in 0 .. n : c[k] = g[k]
    <3>1. c[0] = iv /\ g[0] = iv
      BY <2>3, <2>4, <1>2
    <3>2. ASSUME NEW k \in 1 .. n, c[k - 1] = g[k - 1] PROVE c[k] = g[k]
      <4>1. k \in 0 .. n /\ k # 0
        BY <1>2
      <4> QED BY <4>1, <2>3, <2>4, <3>2
    <3> QED BY <3>1, <3>2, <1>2, SameRun
  <2>6. \A k \in 0 .. n : c[k] \in BlockOf
    BY <2>5, <2>2 DEF FunRun
  <2> QED BY <2>4, <2>6
<1> HIDE DEF c
<1>5. TextRun(o, c, mode, key, iv, text, n)
  <2>1. o[0] = iv /\ c[0] = iv
    BY <1>2, <1>3, <1>4
  <2>2. ASSUME NEW k \in 1 .. n
        PROVE  o[k] = encryptBlock(key, o[k - 1]) /\ c[k] = NextC(mode, key, iv, text, o[k], k, c[k - 1])
    <3>1. k \in 0 .. n /\ k # 0
      BY <1>2
    <3> QED BY <3>1, <1>3, <1>4
  <2> QED BY <2>1, <2>2, <1>3, <1>4 DEF TextRun
<1> QED BY <1>1, <1>5 DEF n

\* the register of a mode after k blocks
RegOf(mode, iv, o, c, k) ==
    CASE mode = "ECB"            -> iv
      [] mode \in {"CBC", "CFB"} -> c[k]
      [] mode = "OFB"            -> o[k]
      [] mode = "CTR"            -> CounterBlock("CTR", iv, k + 1)
      [] mode = "CTRGladman"     -> CounterBlock("CTRGladman", iv, k)

\* The registers are blocks, and the first is the iv.
LEMMA RegTyped ==
    ASSUME NEW mode \in Modes, NEW iv, AnIv(iv), NEW k \in Nat, NEW o, NEW c, o[0] = iv, c[0] = iv,
           o[k] \in BlockOf, c[k] \in BlockOf
    PROVE  RegOf(mode, iv, o, c, k) \in BlockOf /\ RegOf(mode, iv, o, c, 0) = iv
<1>1. k + 1 \in Nat \ {0} /\ 0 + 1 = 1 /\ iv \in BlockOf
  BY IvWords
<1>2. CounterBlock("CTR", iv, k + 1) \in BlockOf /\ CounterBlock("CTRGladman", iv, k) \in BlockOf
  BY <1>1, CtrBlock, GladmanBlock
<1>3. CounterBlock("CTR", iv, 0 + 1) = iv /\ CounterBlock("CTRGladman", iv, 0) = iv
  <2>1. CounterBlock("CTR", iv, 1) = iv
    BY <1>1, CtrCounts
  <2>2. CounterBlock("CTRGladman", iv, 0) = iv
    BY GladmanCounts
  <2> QED BY <2>1, <2>2, <1>1
<1>4. CASE mode = "ECB"
  BY <1>1, <1>4 DEF RegOf
<1>5. CASE mode \in {"CBC", "CFB"}
  BY <1>5 DEF RegOf
<1>6. CASE mode = "OFB"
  BY <1>6 DEF RegOf
<1>7. CASE mode = "CTR"
  BY <1>2, <1>3, <1>7 DEF RegOf
<1>8. CASE mode = "CTRGladman"
  BY <1>2, <1>3, <1>8 DEF RegOf
<1> QED BY <1>4, <1>5, <1>6, <1>7, <1>8 DEF Modes

\* The code, one block after the other, does what the textbook says.
LEMMA BlockByTheBook ==
    ASSUME NEW mode \in Modes, NEW key, NEW iv, AnIv(iv), NEW text \in Seq(Byte), NEW k \in Nat \ {0},
           NEW o, NEW c, o[k] = encryptBlock(key, o[k - 1]),
           c[k] = NextC(mode, key, iv, text, o[k], k, c[k - 1])
    PROVE  LET e == Encrypt(mode, key, RegOf(mode, iv, o, c, k - 1), Block(text, k - 1, BlockBytes))
           IN  e.block = c[k] /\ e.state = RegOf(mode, iv, o, c, k)
<1> DEFINE p == BlockAt(text, k)
<1>1. Block(text, k - 1, BlockBytes) = p
  BY BlockAtTyped
<1>2. (k - 1) + 1 = k /\ k - 1 \in Nat
  OBVIOUS
<1>3. CtrNext(CounterBlock("CTR", iv, k)) = CounterBlock("CTR", iv, k + 1)
  BY CtrCounts
<1>4. incCounter(CounterBlock("CTRGladman", iv, k - 1)) = CounterBlock("CTRGladman", iv, k)
  <2>1. incCounter(CounterBlock("CTRGladman", iv, k - 1)) = CounterBlock("CTRGladman", iv, (k - 1) + 1)
    BY <1>2, GladmanCounts
  <2> QED BY <2>1, <1>2
<1> HIDE DEF p
<1>5. CASE mode = "ECB"
  <2>1. c[k] = encryptBlock(key, p)
    BY <1>5 DEF NextC, p
  <2> QED BY <2>1, <1>1, <1>5 DEF Encrypt, EcbEncrypt, Step, RegOf
<1>6. CASE mode = "CBC"
  <2>1. c[k] = encryptBlock(key, xorBlock(p, c[k - 1]))
    BY <1>6 DEF NextC, p
  <2> QED BY <2>1, <1>1, <1>6 DEF Encrypt, CbcEncrypt, Step, RegOf
<1>7. CASE mode = "CFB"
  <2>1. c[k] = xorBlock(p, encryptBlock(key, c[k - 1]))
    BY <1>7 DEF NextC, p
  <2> QED BY <2>1, <1>1, <1>7 DEF Encrypt, CfbEncrypt, Step, RegOf
<1>8. CASE mode = "OFB"
  <2>1. c[k] = xorBlock(p, o[k])
    BY <1>8 DEF NextC, p
  <2> QED BY <2>1, <1>1, <1>8 DEF Encrypt, OfbCrypt, Step, RegOf
<1>9. CASE mode = "CTR"
  <2>1. c[k] = xorBlock(p, encryptBlock(key, CounterBlock("CTR", iv, k)))
    BY <1>9 DEF NextC, p
  <2>2. RegOf(mode, iv, o, c, k - 1) = CounterBlock("CTR", iv, k)
        /\ RegOf(mode, iv, o, c, k) = CounterBlock("CTR", iv, k + 1)
    BY <1>2, <1>9 DEF RegOf
  <2> QED BY <2>1, <2>2, <1>1, <1>3, <1>9 DEF Encrypt, CtrCrypt, Step
<1>10. CASE mode = "CTRGladman"
  <2>1. c[k] = xorBlock(p, encryptBlock(key, CounterBlock("CTRGladman", iv, k)))
    BY <1>10 DEF NextC, p
  <2>2. RegOf(mode, iv, o, c, k - 1) = CounterBlock("CTRGladman", iv, k - 1)
        /\ RegOf(mode, iv, o, c, k) = CounterBlock("CTRGladman", iv, k)
    BY <1>10 DEF RegOf
  <2> QED BY <2>1, <2>2, <1>1, <1>4, <1>10 DEF Encrypt, GladmanCrypt, Step
<1> QED BY <1>5, <1>6, <1>7, <1>8, <1>9, <1>10 DEF Modes

\* The blocks of a text are enough for it.
LEMMA BlocksSuffice ==
    ASSUME NEW text \in Seq(Byte)
    PROVE  BlocksIn(text) \in Nat /\ Len(text) <= BlocksIn(text) * BlockBytes
<1> DEFINE B == BlockBytes
           m == Len(text) + B - 1
<1>1. Len(text) \in Nat /\ B \in Nat /\ B > 0
  BY BlockSize
<1> HIDE DEF BlockBytes
<1>2. m \in Nat
  BY <1>1
<1> HIDE DEF m
<1>3. m \div B \in Nat /\ m % B \in 0 .. B - 1 /\ (m \div B) * B + (m % B) = m
  BY <1>1, <1>2, DivMod
<1> DEFINE x == (m \div B) * B
<1>4. x \in Nat
  <2>1. B \in Nat /\ m \div B \in Nat
    BY <1>1, <1>3
  <2> QED BY <2>1, Times
<1>5. BlocksIn(text) = m \div B
  BY DEF BlocksIn, m
<1>6. Len(text) <= x
  <2>1. x + (m % B) = m /\ m % B \in 0 .. B - 1
    BY <1>3
  <2> HIDE DEF x
  <2> QED BY <2>1, <1>1, <1>4 DEF m
<1> QED BY <1>3, <1>5, <1>6

\* what the modes do with a text, and the textbook
ByTheBook(st, ou, L, mode, key, iv, text) ==
    /\ Ideal("enc", st, ou, L, mode, key, text) /\ st[0] = iv
    /\ IsRef(Textbook(mode, key, iv, text), ou, L, mode, text)

\* Whatever the mode is, it does what the textbook says.
LEMMA ModesByTheBook ==
    ASSUME EncryptsBlocks, NEW mode \in Modes, NEW key \in AKey, NEW iv, AnIv(iv), NEW text \in Seq(Byte)
    PROVE  \E st, ou, L : ByTheBook(st, ou, L, mode, key, iv, text)
<1> DEFINE L == BlocksIn(text)
           T == Textbook(mode, key, iv, text)
           B == BlockBytes
<1>1. PICK o, c : /\ TextRun(o, c, mode, key, iv, text, L)
                  /\ T = SubSeq(FlattenSeq([k \in 1 .. L |-> c[k]]), 1, Len(text))
  BY TextbookIs
<1>2. L \in Nat /\ Len(text) <= L * B
  BY BlocksSuffice
<1>3. SizeOf(mode) = B /\ StateOf(mode) = BlockOf /\ mode # "RC4"
  BY DEF SizeOf, StateOf, Modes
<1> DEFINE st == [k \in 0 .. L |-> RegOf(mode, iv, o, c, k)]
<1>4. o[0] = iv /\ c[0] = iv /\ \A k \in 0 .. L : o[k] \in BlockOf /\ c[k] \in BlockOf
  BY <1>1 DEF TextRun
<1>5. \A k \in 1 .. L : o[k] = encryptBlock(key, o[k - 1])
                        /\ c[k] = NextC(mode, key, iv, text, o[k], k, c[k - 1])
  BY <1>1 DEF TextRun
<1> HIDE DEF L, T, BlockBytes
<1>6. Ideal("enc", st, c, L, mode, key, text) /\ st[0] = iv
  <2>1. ASSUME NEW k \in 0 .. L PROVE st[k] \in BlockOf
    <3>1. k \in Nat
      BY <1>2
    <3> QED BY <3>1, <1>4, RegTyped
  <2>2. st[0] = iv
    <3>1. 0 \in 0 .. L /\ 0 \in Nat
      BY <1>2
    <3> QED BY <3>1, <1>4, RegTyped
  <2>3. ASSUME NEW k \in 1 .. L
        PROVE  LET e == Crypt("enc", mode, key, st[k - 1], Block(text, k - 1, B))
               IN  e.state = st[k] /\ e.block = c[k]
    <3>1. k \in Nat \ {0} /\ k \in 0 .. L /\ k - 1 \in 0 .. L
      BY <1>2
    <3>2. st[k - 1] = RegOf(mode, iv, o, c, k - 1) /\ st[k] = RegOf(mode, iv, o, c, k)
      BY <3>1
    <3>3. LET e == Encrypt(mode, key, RegOf(mode, iv, o, c, k - 1), Block(text, k - 1, B))
          IN  e.block = c[k] /\ e.state = RegOf(mode, iv, o, c, k)
      BY <3>1, <1>5, BlockByTheBook
    <3> HIDE DEF st
    <3> QED BY <3>2, <3>3, <1>3 DEF Crypt
  <2> HIDE DEF st
  <2> QED BY <2>1, <2>2, <2>3, <1>2, <1>3 DEF Ideal
<1>7. IsRef(T, c, L, mode, text)
  <2> DEFINE F == FlattenSeq([k \in 1 .. L |-> c[k]])
  <2>1. FlatTo(F, c, L)
    <3>1. \A k \in 1 .. L : c[k] \in BlockOf
      BY <1>2, <1>4
    <3> QED BY <3>1, <1>2, FlattenBlocks
  <2> HIDE DEF F
  <2>2. F \in Seq(Byte) /\ Len(F) = L * B /\ \A j \in 1 .. L, i \in 1 .. B : F[(j - 1) * B + i] = c[j][i]
    BY <2>1 DEF FlatTo
  <2>3. T = SubSeq(F, 1, Len(text)) /\ Len(text) \in 0 .. Len(F)
    <3>1. T = SubSeq(F, 1, Len(text))
      BY <1>1 DEF F
    <3>2. Len(text) \in Nat /\ Len(F) \in Nat
      BY <2>2
    <3> DEFINE x == L * B
    <3>3. Len(F) = x /\ Len(text) <= x
      BY <1>2, <2>2
    <3> HIDE DEF x
    <3> QED BY <3>1, <3>2, <3>3
  <2>4. T \in Seq(Byte) /\ Len(T) = Len(text) /\ \A i \in 1 .. Len(text) : T[i] = F[i]
    BY ONLY <2>2, <2>3
  <2>5. ASSUME NEW k \in 1 .. L, NEW i \in 1 .. B, (k - 1) * B + i <= Len(text)
        PROVE  T[(k - 1) * B + i] = c[k][i]
    <3> DEFINE x == (k - 1) * B
    <3>1. x \in Nat
      <4>1. k - 1 \in Nat /\ B \in Nat
        BY <1>2, BlockSize
      <4> QED BY <4>1, Times
    <3>2. x + i \in 1 .. Len(text)
      <4>1. x + i <= Len(text)
        BY <2>5
      <4> HIDE DEF x
      <4> QED BY <3>1, <4>1
    <3>3. F[x + i] = c[k][i]
      BY <2>2
    <3> HIDE DEF x
    <3>4. T[x + i] = c[k][i]
      BY <2>4, <3>2, <3>3
    <3> QED BY <3>4 DEF x
  <2> QED BY <2>4, <2>5, <1>3 DEF IsRef
<1> HIDE DEF st
<1>8. ByTheBook(st, c, L, mode, key, iv, text)
  BY <1>6, <1>7 DEF ByTheBook, T
<1> QED BY <1>8

-----------------------------------------------------------------------------
\* RC4 by the book.

\* a step of the key schedule
KsaStep(key, k, p) ==
    LET j == (p.j + p.S[k - 1] + key[((k - 1) % Len(key)) + 1]) % Base
    IN  [S |-> Swap(p.S, k - 1, j), j |-> j]
KsaState == [S : [Byte -> Byte], j : Byte]

\* A step of the key schedule gives such a state again.
LEMMA KsaTyped ==
    ASSUME NEW key \in AKey, NEW k \in 1 .. Base, NEW p \in KsaState
    PROVE  KsaStep(key, k, p) \in KsaState
<1> DEFINE x == key[((k - 1) % Len(key)) + 1]
           j == (p.j + p.S[k - 1] + x) % Base
<1>1. p.S \in [Byte -> Byte] /\ p.j \in Byte
  BY DEF KsaState
<1>2. k - 1 \in Byte /\ k - 1 \in Nat
  BY BaseIsPositive DEF Byte
<1>3. x \in Byte
  <2>1. key \in Seq(Byte) /\ Len(key) \in Nat \ {0}
    BY DEF AKey
  <2>2. (k - 1) % Len(key) \in 0 .. Len(key) - 1
    BY <2>1, <1>2, DivMod
  <2>3. ((k - 1) % Len(key)) + 1 \in 1 .. Len(key)
    BY <2>1, <2>2
  <2> QED BY <2>1, <2>3
<1> HIDE DEF x
<1>4. j \in Byte
  <2>1. p.S[k - 1] \in Byte
    BY <1>1, <1>2
  <2>2. p.j + p.S[k - 1] \in Nat /\ x \in Nat
    BY <1>1, <1>3, <2>1, ByteIsNat
  <2>3. (p.j + p.S[k - 1]) + x \in Nat
    BY <2>2
  <2> QED BY <2>3, RestIsByte
<1>5. KsaStep(key, k, p) = [S |-> Swap(p.S, k - 1, j), j |-> j]
  BY DEF KsaStep, x
<1> HIDE DEF j
<1> QED BY <1>1, <1>2, <1>4, <1>5, SwapTyped DEF KsaState

\* What RC4 starts with.
LEMMA Rc4InitTyped ==
    ASSUME NEW key \in AKey
    PROVE  Rc4Init(key) \in Rc4State /\ Rc4Init(key).i = 0 /\ Rc4Init(key).j = 0
<1> DEFINE z == [S |-> [b \in Byte |-> b], j |-> 0]
           Is(f) == f = [k \in 0 .. Base |-> IF k = 0 THEN z ELSE KsaStep(key, k, f[k - 1])]
           ksa == CHOOSE f : Is(f)
           G == [k \in 1 .. Base |-> [x \in KsaState |-> KsaStep(key, k, x)]]
<1>1. Rc4Init(key) = [S |-> ksa[Base].S, i |-> 0, j |-> 0]
  BY DEF Rc4Init, KsaStep
<1>2. Base \in Nat /\ 0 \in Byte
  BY BaseIsPositive, ByteZero
<1>3. z \in KsaState
  BY <1>2 DEF KsaState
<1>4. G \in [1 .. Base -> [KsaState -> KsaState]]
  <2> HIDE DEF Base
  <2> QED BY KsaTyped
<1> HIDE DEF z, Base
<1>5. PICK g : FunRun(g, KsaState, Base, z, G)
  <2> HIDE DEF G
  <2> QED BY <1>2, <1>3, <1>4, FunRunExists
<1>6. Is(g)
  <2>1. ASSUME NEW k \in 0 .. Base PROVE g[k] = IF k = 0 THEN z ELSE KsaStep(key, k, g[k - 1])
    <3>1. CASE k = 0
      BY <3>1, <1>5 DEF FunRun
    <3>2. CASE k # 0
      <4>1. k \in 1 .. Base /\ k - 1 \in 0 .. Base
        BY <1>2, <3>2
      <4>2. g[k] = G[k][g[k - 1]] /\ g[k - 1] \in KsaState
        BY <4>1, <1>5 DEF FunRun
      <4> QED BY <4>1, <4>2, <3>2
    <3> QED BY <3>1, <3>2
  <2>2. g = [k \in 0 .. Base |-> g[k]]
    BY <1>5 DEF FunRun
  <2> HIDE DEF G
  <2> QED BY <2>1, <2>2
<1>7. Is(ksa)
  <2> HIDE DEF Is, G
  <2> QED BY <1>6
<1> HIDE DEF ksa
<1>8. \A k \in 0 .. Base : ksa[k] = g[k]
  <2>1. ksa[0] = g[0]
    BY <1>2, <1>6, <1>7
  <2>2. ASSUME NEW k \in 1 .. Base, ksa[k - 1] = g[k - 1] PROVE ksa[k] = g[k]
    <3>1. k \in 0 .. Base /\ k # 0
      BY <1>2
    <3> QED BY <3>1, <2>2, <1>6, <1>7
  <2> QED BY <2>1, <2>2, <1>2, SameRun
<1>9. ksa[Base] \in KsaState
  <2>1. Base \in 0 .. Base
    BY <1>2
  <2> QED BY <2>1, <1>8, <1>5 DEF FunRun
<1>10. ksa[Base].S \in [Byte -> Byte]
  BY <1>9 DEF KsaState
<1> QED BY <1>1, <1>2, <1>10 DEF Rc4State

\* The first of the two places of RC4 counts.
LEMMA RcCounts ==
    ASSUME NEW h, NEW m \in Nat, RcRun(h, 0, m), h[0].i = 0
    PROVE  \A n \in 0 .. m : h[n].i = n % Base
<1> DEFINE X == {n \in Nat : h[n].i = n % Base}
<1>1. 0 \in X
  <2>1. 0 % Base = 0
    BY BaseIsPositive, SmallRest
  <2> QED BY <2>1
<1>2. ASSUME NEW n \in Nat, n < m /\ n \in X PROVE n + 1 \in X
  <2>1. n + 1 \in 0 + 1 .. m /\ (n + 1) - 1 = n /\ h[n].i = n % Base
    BY <1>2
  <2>2. h[n + 1] = RcStep(h[n])
    BY <2>1 DEF RcRun
  <2>3. h[n + 1].i = (h[n].i + 1) % Base
    BY <2>2 DEF RcStep
  <2>4. (n + 1) % Base = ((n % Base) + 1) % Base
    BY NextQuotient
  <2> HIDE DEF Base
  <2> QED BY <2>1, <2>3, <2>4
<1>3. \A n \in 0 .. m : n \in X
  <2> HIDE DEF X
  <2> QED BY <1>1, <1>2, UpTo
<1> QED BY <1>3

\* a step of Keystream
KeyNextByte(n, p) ==
    LET i == n % Base
        j == (p.j + p.S[i]) % Base
        S == Swap(p.S, i, j)
    IN  [S |-> S, j |-> j, out |-> Append(p.out, S[(S[i] + S[j]) % Base])]

\* The keystream, of the states of RC4.
LEMMA KeystreamIs ==
    ASSUME NEW key \in AKey, NEW m \in Nat, NEW h, h[0] = Rc4Init(key), RcRun(h, 0, m), NEW len \in 0 .. m
    PROVE  Keystream(key, len) = [x \in 1 .. len |-> RcOut(h[x])]
<1> DEFINE z == [S |-> Rc4Init(key).S, j |-> 0, out |-> << >>]
           Is(f) == f = [n \in 0 .. len |-> IF n = 0 THEN z ELSE KeyNextByte(n, f[n - 1])]
           f == CHOOSE a : Is(a)
           g == [n \in 0 .. len |-> [S |-> h[n].S, j |-> h[n].j, out |-> [x \in 1 .. n |-> RcOut(h[x])]]]
<1>1. Keystream(key, len) = f[len].out
  BY DEF Keystream, KeyNextByte
<1>2. len \in Nat /\ Rc4Init(key).i = 0 /\ Rc4Init(key).j = 0
  BY Rc4InitTyped
<1>3. \A n \in 0 .. m : h[n].i = n % Base
  BY <1>2, RcCounts
<1>4. g[0] = z
  <2>1. [x \in 1 .. 0 |-> RcOut(h[x])] = << >> /\ 0 \in 0 .. len
    BY <1>2
  <2> QED BY <2>1, <1>2
<1>5. ASSUME NEW n \in 1 .. len PROVE g[n] = KeyNextByte(n, g[n - 1])
  <2> DEFINE l == n - 1
             u == [S |-> h[l].S, j |-> h[l].j, out |-> [x \in 1 .. l |-> RcOut(h[x])]]
  <2>1. l \in Nat /\ l \in 0 .. len /\ l + 1 = n /\ n \in 0 + 1 .. m /\ n \in 0 .. len /\ n \in 0 .. m
    BY <1>2
  <2>2. g[l] = u
    BY <2>1
  <2>3. h[n] = RcStep(h[l])
    BY <2>1 DEF RcRun
  <2>4. u.S = h[l].S /\ u.j = h[l].j /\ u.out = [x \in 1 .. l |-> RcOut(h[x])]
    OBVIOUS
  <2>5. Append(u.out, RcOut(h[n])) = [x \in 1 .. n |-> RcOut(h[x])]
    <3>1. Append([x \in 1 .. l |-> RcOut(h[x])], RcOut(h[l + 1])) = [x \in 1 .. l + 1 |-> RcOut(h[x])]
      <4> HIDE DEF l
      <4> QED BY <2>1, AppendOne
    <3> QED BY <2>1, <2>4, <3>1
  <2>6. g[n] = [S |-> h[n].S, j |-> h[n].j, out |-> [x \in 1 .. n |-> RcOut(h[x])]]
    BY <2>1
  <2>7. (h[l].i + 1) % Base = n % Base
    <3>1. RcStep(h[l]).i = (h[l].i + 1) % Base
      BY DEF RcStep
    <3>2. h[n].i = n % Base
      BY <1>3, <2>1
    <3> HIDE DEF Base, l
    <3> QED BY <2>3, <3>1, <3>2
  <2> HIDE DEF u, l, g, Base
  <2>8. KeyNextByte(n, u) = [S |-> RcStep(h[l]).S, j |-> RcStep(h[l]).j,
                             out |-> Append(u.out, RcOut(RcStep(h[l])))]
    BY <2>4, <2>7 DEF KeyNextByte, RcStep, RcOut
  <2>9. KeyNextByte(n, u) = g[n]
    BY <2>3, <2>5, <2>6, <2>8
  <2> QED BY <2>2, <2>9 DEF l
<1> HIDE DEF z
<1>6. Is(g)
  <2>1. ASSUME NEW n \in 0 .. len PROVE g[n] = IF n = 0 THEN z ELSE KeyNextByte(n, g[n - 1])
    <3>1. n = 0 \/ n \in 1 .. len
      BY <1>2
    <3> HIDE DEF g
    <3> QED BY <3>1, <1>4, <1>5
  <2>2. g = [n \in 0 .. len |-> g[n]]
    OBVIOUS
  <2> HIDE DEF g
  <2> QED BY <2>1, <2>2
<1>7. Is(f)
  <2> HIDE DEF Is, g
  <2> QED BY <1>6
<1> HIDE DEF f
<1>8. f[len] = g[len]
  <2> HIDE DEF g
  <2>1. f[0] = g[0]
    BY <1>2, <1>4, <1>7
  <2>2. ASSUME NEW n \in 1 .. len, f[n - 1] = g[n - 1] PROVE f[n] = g[n]
    <3>1. n \in 0 .. len /\ n # 0
      BY <1>2
    <3>2. f[n] = KeyNextByte(n, f[n - 1])
      BY <3>1, <1>7
    <3> QED BY <2>2, <3>2, <1>5
  <2>3. \A n \in 0 .. len : f[n] = g[n]
    BY <1>2, <2>1, <2>2, SameRun
  <2> QED BY <2>3, <1>2
<1>9. g[len].out = [x \in 1 .. len |-> RcOut(h[x])]
  BY <1>2
<1> HIDE DEF g
<1> QED BY <1>1, <1>8, <1>9

\* how many words a text fills
WordsIn(text) == (Len(text) + WordBytes - 1) \div WordBytes

\* The words of a text are enough for it.
LEMMA WordsSuffice ==
    ASSUME NEW text \in Seq(Byte)
    PROVE  WordsIn(text) \in Nat /\ Len(text) <= WordsIn(text) * WordBytes
<1> DEFINE B == WordBytes
           m == Len(text) + B - 1
           x == (m \div B) * B
<1>1. Len(text) \in Nat /\ B \in Nat /\ B > 0
  BY Sizes3, BlockSize
<1>2. m \in Nat
  BY <1>1
<1>3. WordsIn(text) = m \div B
  BY DEF WordsIn
<1> HIDE DEF m
<1>4. m \div B \in Nat /\ m % B \in 0 .. B - 1 /\ x + (m % B) = m
  BY <1>1, <1>2, DivMod
<1>5. x \in Nat
  BY <1>1, <1>4, Times
<1>6. Len(text) <= x
  <2> HIDE DEF x
  <2> QED BY <1>1, <1>4, <1>5 DEF m
<1> QED BY <1>3, <1>4, <1>6

\* A word of RC4, at any place of a run.
LEMMA Rc4At ==
    ASSUME NEW h, NEW a \in Nat, NEW n \in Nat, RcRun(h, 0, n), a + WordBytes <= n, NEW b
    PROVE  /\ Rc4Crypt(h[a], b).state = h[a + WordBytes]
           /\ \A i \in 1 .. WordBytes : Rc4Crypt(h[a], b).block[i] = Xor(b[i], RcOut(h[a + i]))
<1> DEFINE W == WordBytes
           g == [x \in 0 .. W |-> h[a + x]]
<1>1. W \in Nat /\ \A k \in 0 .. n : h[k] \in Rc4State
  BY Sizes3, RcRunTyped
<1>2. g[0] = h[a] /\ g[W] = h[a + W] /\ h[a] \in Rc4State
  <2>1. a \in 0 .. n /\ a + 0 = a /\ 0 \in 0 .. W /\ W \in 0 .. W
    BY <1>1
  <2> QED BY <2>1, <1>1
<1>3. RcRun(g, 0, W)
  <2>1. ASSUME NEW x \in 0 + 1 .. W PROVE g[x] = RcStep(g[x - 1])
    <3>1. x \in 0 .. W /\ x - 1 \in 0 .. W /\ a + x \in 0 + 1 .. n /\ (a + x) - 1 = a + (x - 1)
      BY <1>1
    <3>2. h[a + x] = RcStep(h[(a + x) - 1])
      BY <3>1 DEF RcRun
    <3> QED BY <3>1, <3>2
  <2> HIDE DEF g
  <2> QED BY <2>1, <1>2 DEF RcRun
<1>4. \A i \in 1 .. W : g[i] = h[a + i]
  BY <1>1
<1> HIDE DEF g
<1>5. /\ Rc4Crypt(h[a], b).state = g[W]
      /\ Rc4Crypt(h[a], b).block = [i \in 1 .. W |-> Xor(b[i], RcOut(g[i]))]
  BY <1>2, <1>3, Rc4CryptIs
<1> QED BY <1>2, <1>4, <1>5

\* RC4, a word at a time, is its keystream XORed with the text.
LEMMA Rc4ByTheBook ==
    ASSUME NEW key \in AKey, NEW text \in Seq(Byte)
    PROVE  \E st, ou, L : /\ Ideal("enc", st, ou, L, "RC4", key, text) /\ st[0] = Rc4Init(key)
                          /\ IsRef(XorWords(text, Keystream(key, Len(text))), ou, L, "RC4", text)
<1> DEFINE W == WordBytes
           L == WordsIn(text)
           m == L * W
<1>1. W \in Nat /\ L \in Nat /\ Len(text) <= m /\ m \in Nat /\ Len(text) \in Nat
  <2>1. W \in Nat /\ L \in Nat /\ Len(text) <= m /\ Len(text) \in Nat
    BY Sizes3, WordsSuffice
  <2> HIDE DEF L
  <2> QED BY <2>1, Times
<1> HIDE DEF L
<1>2. PICK h : h[0] = Rc4Init(key) /\ RcRun(h, 0, m)
  <2> HIDE DEF m
  <2> QED BY <1>1, Rc4InitTyped, RcRunExists
<1>3. \A n \in 0 .. m : h[n] \in Rc4State
  <2> HIDE DEF m
  <2> QED BY <1>1, <1>2, RcRunTyped
<1> DEFINE st == [k \in 0 .. L |-> h[k * W]]
           ou == [k \in 1 .. L |-> Rc4Crypt(h[(k - 1) * W], Block(text, k - 1, W)).block]
<1>4. ASSUME NEW k \in 0 .. L PROVE k * W \in 0 .. m
  <2>1. k \in Nat /\ k <= L
    BY <1>1
  <2>2. k * W \in Nat /\ k * W <= L * W
    BY <2>1, <1>1, Times
  <2> DEFINE y == k * W
  <2> HIDE DEF y, m
  <2>3. y \in Nat /\ y <= m
    BY <2>2 DEF y, m
  <2>4. y \in 0 .. m
    BY <2>3, <1>1
  <2> QED BY <2>4 DEF y
<1>5. ASSUME NEW k \in 1 .. L
      PROVE  (k - 1) * W \in Nat /\ (k - 1) * W + W = k * W /\ k * W <= m /\ k - 1 \in 0 .. L /\ k \in 0 .. L
  <2>1. k - 1 \in 0 .. L /\ k \in 0 .. L /\ (k - 1) + 1 = k /\ k - 1 \in Nat
    BY <1>1
  <2>2. (k - 1) * W \in 0 .. m /\ k * W \in 0 .. m
    BY <2>1, <1>4
  <2>3. ((k - 1) + 1) * W = (k - 1) * W + 1 * W /\ 1 * W = W
    BY <2>1, <1>1, Times
  <2> DEFINE x == (k - 1) * W
             y == k * W
  <2>4. y = x + W /\ x \in 0 .. m /\ y \in 0 .. m
    BY <2>1, <2>2, <2>3
  <2> HIDE DEF x, y, m
  <2>5. x \in Nat /\ x + W = y /\ y <= m
    BY <2>4, <1>1
  <2> QED BY <2>1, <2>5 DEF x, y
<1>6. ASSUME NEW k \in 1 .. L
      PROVE  /\ Rc4Crypt(h[(k - 1) * W], Block(text, k - 1, W)).state = h[k * W]
             /\ \A i \in 1 .. W : ou[k][i] = Xor(Block(text, k - 1, W)[i], RcOut(h[(k - 1) * W + i]))
  <2> DEFINE x == (k - 1) * W
             b == Block(text, k - 1, W)
  <2>1. x \in Nat /\ x + W <= m /\ x + W = k * W
    BY <1>5
  <2>2. ou[k] = Rc4Crypt(h[x], b).block
    OBVIOUS
  <2> HIDE DEF x, b, m, ou
  <2>3. /\ Rc4Crypt(h[x], b).state = h[x + W]
        /\ \A i \in 1 .. W : Rc4Crypt(h[x], b).block[i] = Xor(b[i], RcOut(h[x + i]))
    <3>1. x \in Nat /\ m \in Nat /\ RcRun(h, 0, m) /\ x + WordBytes <= m
      BY <2>1, <1>1, <1>2
    <3>2. /\ Rc4Crypt(h[x], b).state = h[x + WordBytes]
          /\ \A i \in 1 .. WordBytes : Rc4Crypt(h[x], b).block[i] = Xor(b[i], RcOut(h[x + i]))
      BY ONLY <3>1, Rc4At
    <3> QED BY <3>2
  <2>4. Rc4Crypt(h[x], b).state = h[k * W] /\ \A i \in 1 .. W : ou[k][i] = Xor(b[i], RcOut(h[x + i]))
    BY <2>1, <2>2, <2>3
  <2> QED BY <2>4 DEF x, b
<1>7. Ideal("enc", st, ou, L, "RC4", key, text) /\ st[0] = Rc4Init(key)
  <2>1. SizeOf("RC4") = W /\ StateOf("RC4") = Rc4State
    BY DEF SizeOf, StateOf
  <2>2. \A k \in 0 .. L : st[k] \in Rc4State
    BY <1>3, <1>4
  <2>3. st[0] = Rc4Init(key)
    <3>1. 0 * W = 0 /\ 0 \in 0 .. L
      BY <1>1
    <3> QED BY <3>1, <1>2
  <2>4. ASSUME NEW k \in 1 .. L
        PROVE  LET c == Crypt("enc", "RC4", key, st[k - 1], Block(text, k - 1, W))
               IN  c.state = st[k] /\ c.block = ou[k]
    <3>1. st[k - 1] = h[(k - 1) * W] /\ st[k] = h[k * W]
      BY <1>5
    <3>2. ou[k] = Rc4Crypt(h[(k - 1) * W], Block(text, k - 1, W)).block
      OBVIOUS
    <3>3. Rc4Crypt(h[(k - 1) * W], Block(text, k - 1, W)).state = h[k * W]
      BY <1>6
    <3> HIDE DEF st, ou
    <3> QED BY <3>1, <3>2, <3>3 DEF Crypt
  <2> HIDE DEF st, ou
  <2> QED BY <2>1, <2>2, <2>3, <2>4, <1>1 DEF Ideal
<1>8. IsRef(XorWords(text, Keystream(key, Len(text))), ou, L, "RC4", text)
  <2> DEFINE K == Keystream(key, Len(text))
             R == XorWords(text, K)
  <2>1. K = [x \in 1 .. Len(text) |-> RcOut(h[x])]
    <3>1. Len(text) \in 0 .. m
      <4> HIDE DEF m
      <4> QED BY <1>1
    <3> HIDE DEF m
    <3> QED BY <3>1, <1>1, <1>2, KeystreamIs
  <2> HIDE DEF K
  <2>2. DOMAIN text = 1 .. Len(text)
    OBVIOUS
  <2>3. R = [x \in 1 .. Len(text) |-> Xor(text[x], RcOut(h[x]))]
    BY <2>1, <2>2 DEF XorWords
  <2> HIDE DEF R
  <2>4. ASSUME NEW x \in 1 .. Len(text) PROVE Xor(text[x], RcOut(h[x])) \in Byte
    <3>1. x \in 0 .. m
      <4> HIDE DEF m
      <4> QED BY <1>1
    <3>2. RcOut(h[x]) \in Byte
      BY <3>1, <1>3, RcTyped
    <3> QED BY <3>2, ByteAssumption
  <2>5. R \in Seq(Byte) /\ Len(R) = Len(text)
    <3> HIDE DEF Byte
    <3> QED BY <2>3, <2>4, <1>1
  <2>6. ASSUME NEW k \in 1 .. L, NEW i \in 1 .. W, (k - 1) * W + i <= Len(text)
        PROVE  R[(k - 1) * W + i] = ou[k][i]
    <3> DEFINE x == (k - 1) * W
               b == Block(text, k - 1, W)
    <3>1. x \in Nat /\ x + i <= Len(text)
      BY <2>6, <1>5
    <3>2. b[i] = ByteAt(text, x + i)
      BY DEF Block
    <3>3. ou[k][i] = Xor(b[i], RcOut(h[x + i]))
      BY <1>6
    <3> HIDE DEF x, ou, b
    <3>4. x + i \in 1 .. Len(text)
      BY <3>1, <1>1
    <3>5. b[i] = text[x + i]
      BY <3>2, <3>4 DEF ByteAt
    <3>6. R[x + i] = ou[k][i]
      BY <2>3, <3>3, <3>4, <3>5
    <3> QED BY <3>6 DEF x
  <2>7. SizeOf("RC4") = W
    BY DEF SizeOf
  <2> HIDE DEF ou
  <2> QED BY <2>5, <2>6, <2>7 DEF IsRef, R, K
<1> HIDE DEF st, ou
<1> QED BY <1>7, <1>8

\* The three digests of EvpKDF.
LEMMA EvpKeyIs ==
    ASSUME NEW pw, NEW s
    PROVE  \E d1, d2, d3 : /\ d1 = Digest((<< >> \o pw) \o s) /\ d2 = Digest((d1 \o pw) \o s)
                           /\ d3 = Digest((d2 \o pw) \o s) /\ EvpKey(pw, s) = (d1 \o d2) \o d3
<1> DEFINE IsD(d) == d = [k \in 0 .. 3 |-> IF k = 0 THEN << >> ELSE Digest((d[k - 1] \o pw) \o s)]
           d == CHOOSE a : IsD(a)
           d1 == Digest((<< >> \o pw) \o s)
           d2 == Digest((d1 \o pw) \o s)
           d3 == Digest((d2 \o pw) \o s)
           c == [k \in 0 .. 3 |-> IF k = 0 THEN << >> ELSE IF k = 1 THEN d1 ELSE IF k = 2 THEN d2 ELSE d3]
<1>1. d[1] = d1 /\ d[2] = d2 /\ d[3] = d3
  <2>1. IsD(c)
    <3>1. ASSUME NEW k \in 0 .. 3 PROVE c[k] = IF k = 0 THEN << >> ELSE Digest((c[k - 1] \o pw) \o s)
      <4>1. k = 0 \/ k = 1 \/ k = 2 \/ k = 3
        OBVIOUS
      <4> HIDE DEF d1, d2, d3
      <4>2. c[0] = << >> /\ c[1] = d1 /\ c[2] = d2 /\ c[3] = d3 /\ 1 - 1 = 0 /\ 2 - 1 = 1 /\ 3 - 1 = 2
        OBVIOUS
      <4>3. d1 = Digest((<< >> \o pw) \o s) /\ d2 = Digest((d1 \o pw) \o s) /\ d3 = Digest((d2 \o pw) \o s)
        BY DEF d1, d2, d3
      <4> HIDE DEF c
      <4> QED BY <4>1, <4>2, <4>3
    <3> HIDE DEF d1, d2, d3
    <3> QED BY <3>1
  <2>2. IsD(d)
    <3> HIDE DEF IsD, c
    <3> QED BY <2>1
  <2> HIDE DEF d
  <2>3. d[0] = << >> /\ d[1] = Digest((d[0] \o pw) \o s) /\ d[2] = Digest((d[1] \o pw) \o s)
        /\ d[3] = Digest((d[2] \o pw) \o s)
    <3> HIDE DEF d1, d2, d3
    <3>1. \A k \in 0 .. 3 : d[k] = IF k = 0 THEN << >> ELSE Digest((d[k - 1] \o pw) \o s)
      BY <2>2
    <3>2. /\ 0 \in 0 .. 3 /\ 1 \in 0 .. 3 /\ 2 \in 0 .. 3 /\ 3 \in 0 .. 3
          /\ 1 - 1 = 0 /\ 2 - 1 = 1 /\ 3 - 1 = 2 /\ 1 # 0 /\ 2 # 0 /\ 3 # 0
      OBVIOUS
    <3> QED BY ONLY <3>1, <3>2
  <2> QED BY <2>3
<1>2. EvpKey(pw, s) = (d1 \o d2) \o d3
  <2> DEFINE q == [k \in 1 .. 3 |-> d[k]]
  <2>1. EvpKey(pw, s) = FlattenSeq(q)
    BY DEF EvpKey, KeyWords
  <2> HIDE DEF d, d1, d2, d3
  <2>2. Len(q) = 3 /\ q[1] = d1 /\ q[2] = d2 /\ q[3] = d3
    BY <1>1
  <2> HIDE DEF q
  <2> QED BY <2>1, <2>2, FlattenThree
<1> QED BY <1>2

\* A derived key is three words: the key, and an iv of a block.
LEMMA EvpKeyTyped ==
    ASSUME CompressGivesWords, NEW pw \in Seq(Byte), NEW s \in Seq(Byte)
    PROVE  EvpKey(pw, s) \in Seq(Byte) /\ Len(EvpKey(pw, s)) = WordBytes + BlockBytes
<1>1. PICK d1, d2, d3 : /\ d1 = Digest((<< >> \o pw) \o s) /\ d2 = Digest((d1 \o pw) \o s)
                        /\ d3 = Digest((d2 \o pw) \o s) /\ EvpKey(pw, s) = (d1 \o d2) \o d3
  BY EvpKeyIs
<1>2. \A x \in Seq(Byte) : (x \o pw) \o s \in Seq(Byte)
  OBVIOUS
<1>3. << >> \in Seq(Byte)
  OBVIOUS
<1>4. d1 \in Seq(Byte) /\ Len(d1) = WordBytes
  BY <1>1, <1>2, <1>3, DigestIsWord
<1>5. d2 \in Seq(Byte) /\ Len(d2) = WordBytes
  BY <1>1, <1>2, <1>4, DigestIsWord
<1>6. d3 \in Seq(Byte) /\ Len(d3) = WordBytes
  BY <1>1, <1>2, <1>5, DigestIsWord
<1>7. d1 \o d2 \in Seq(Byte) /\ Len(d1 \o d2) = WordBytes + WordBytes
  BY <1>4, <1>5, TwoLong
<1>8. (d1 \o d2) \o d3 \in Seq(Byte) /\ Len((d1 \o d2) \o d3) = (WordBytes + WordBytes) + WordBytes
  BY <1>6, <1>7, TwoLong
<1>9. (WordBytes + WordBytes) + WordBytes = WordBytes + BlockBytes
  BY BlockSize
<1> QED BY <1>1, <1>8, <1>9

-----------------------------------------------------------------------------
\* The job's cipher.

\* key and iv of a job, where d is the key that was derived, if one was needed
KeyOf(j, d)   == IF j.iv # << >> THEN j.secret ELSE SubSeq(d, 1, WordBytes)
IvOf(j, d)    == IF j.iv # << >> THEN j.iv ELSE SubSeq(d, WordBytes + 1, WordBytes + BlockBytes)
Fits(j, d)    == j.iv = << >> => d \in Seq(Byte) /\ Len(d) = WordBytes + BlockBytes
\* the message as it is encrypted, and its ciphertext
WholeOf(j)    == IF j.mode = "RC4" THEN j.text ELSE PaddedText(j.pad, j.text, j.random)
RefOf(j, d)   == IF j.mode = "RC4" THEN XorWords(j.text, Keystream(KeyOf(j, d), Len(j.text)))
                 ELSE Textbook(j.mode, KeyOf(j, d), IvOf(j, d), WholeOf(j))
FirstOf(j, d) == IF j.mode = "RC4" THEN Rc4Init(KeyOf(j, d)) ELSE IvOf(j, d)
\* the blocks of the ciphertext, and the states between them
Sealing(st, ou, L, j, d) ==
    /\ Ideal("enc", st, ou, L, j.mode, KeyOf(j, d), WholeOf(j)) /\ st[0] = FirstOf(j, d)
    /\ IsRef(RefOf(j, d), ou, L, j.mode, WholeOf(j))

\* What a job for a cipher is made of.
LEMMA CipherJob ==
    ASSUME NEW j \in Jobs, j.use = "cipher"
    PROVE  /\ j.mode \in AllModes /\ j.pad \in Kinds /\ j.text \in Seq(Byte) /\ j.left \in Byte
           /\ j.random \in Seq(Byte) /\ Len(j.random) >= BlockBytes - 1 /\ Len(j.text) \in Nat
           /\ j.secret \in AKey /\ j.iv \in Seq(Byte) /\ (j.iv = << >> \/ Len(j.iv) = BlockBytes)
           /\ j.pad = "No" /\ j.mode \in {"ECB", "CBC"} => Len(j.text) % BlockBytes = 0
<1>1. j \in Job
  BY JobAssumption
<1>2. /\ j.mode \in Modes \cup {"RC4"} /\ j.pad \in Kinds /\ j.text \in Seq(Byte) /\ j.left \in Byte
      /\ j.random \in Seq(Byte) /\ j.secret \in Seq(Byte) /\ j.iv \in Seq(Byte)
  BY <1>1 DEF Job, Kinds
<1>3. /\ j.secret # << >> /\ (j.iv = << >> \/ Len(j.iv) = BlockBytes) /\ Len(j.random) >= BlockBytes - 1
      /\ j.pad = "No" /\ j.mode \in {"ECB", "CBC"} => Len(j.text) % BlockBytes = 0
  BY CallerAssumption
<1>4. Len(j.text) \in Nat
  BY <1>2
<1> QED BY <1>2, <1>3, <1>4 DEF AllModes, AKey

\* Key and iv are what a cipher needs.
LEMMA KeysFit ==
    ASSUME NEW j \in Jobs, j.use = "cipher", NEW d, Fits(j, d)
    PROVE  KeyOf(j, d) \in AKey /\ AnIv(IvOf(j, d))
<1>1. j.secret \in AKey /\ j.iv \in Seq(Byte) /\ (j.iv = << >> \/ Len(j.iv) = BlockBytes)
  BY CipherJob
<1>2. WordBytes \in Nat \ {0} /\ BlockBytes = WordBytes + WordBytes
  BY BlockSize
<1> HIDE DEF BlockBytes
<1>3. CASE j.iv # << >>
  BY <1>1, <1>3 DEF KeyOf, IvOf, AnIv
<1>4. CASE j.iv = << >>
  <2> DEFINE k == SubSeq(d, 1, WordBytes)
             v == SubSeq(d, WordBytes + 1, WordBytes + BlockBytes)
  <2>1. d \in Seq(Byte) /\ Len(d) = WordBytes + BlockBytes
    BY <1>4 DEF Fits
  <2>2. KeyOf(j, d) = k /\ IvOf(j, d) = v
    BY <1>4 DEF KeyOf, IvOf
  <2>3. k \in Seq(Byte) /\ Len(k) = WordBytes
    BY <2>1, <1>2
  <2>4. v \in Seq(Byte) /\ Len(v) = BlockBytes
    BY <2>1, <1>2
  <2> HIDE DEF k, v
  <2>5. k # << >>
    BY <2>3, <1>2
  <2> QED BY <2>2, <2>3, <2>4, <2>5 DEF AKey, AnIv
<1> QED BY <1>3, <1>4

\* The whole message: bytes that begin with the text, as many as the mode needs.
LEMMA WholeFits ==
    ASSUME NEW j \in Jobs, j.use = "cipher"
    PROVE  /\ WholeOf(j) \in Seq(Byte) /\ Len(j.text) <= Len(WholeOf(j)) /\ Len(WholeOf(j)) \in Nat
           /\ \A i \in 1 .. Len(j.text) : WholeOf(j)[i] = j.text[i]
           /\ j.mode \in {"ECB", "CBC"} => Len(WholeOf(j)) % SizeOf(j.mode) = 0
<1>1. /\ j.pad \in Kinds /\ j.text \in Seq(Byte) /\ Len(j.text) \in Nat
      /\ j.random \in Seq(Byte) /\ Len(j.random) >= BlockBytes - 1
      /\ j.pad = "No" /\ j.mode \in {"ECB", "CBC"} => Len(j.text) % BlockBytes = 0
  BY CipherJob
<1>2. CASE j.mode = "RC4"
  BY <1>1, <1>2 DEF WholeOf
<1>3. CASE j.mode # "RC4"
  <2> DEFINE P == PaddedText(j.pad, j.text, j.random)
  <2>1. WholeOf(j) = P /\ SizeOf(j.mode) = BlockBytes
    BY <1>3 DEF WholeOf, SizeOf
  <2>2. /\ P \in Seq(Byte) /\ Len(j.text) <= Len(P)
        /\ \A i \in 1 .. Len(j.text) : P[i] = j.text[i]
        /\ j.pad # "No" \/ Len(j.text) % BlockBytes = 0 => Len(P) % BlockBytes = 0
    BY <1>1, PaddedTextBytes
  <2> HIDE DEF P
  <2>3. Len(P) \in Nat
    BY <2>2
  <2> QED BY <2>1, <2>2, <2>3, <1>1
<1> QED BY <1>2, <1>3

\* Every job has its ciphertext by the textbook.
LEMMA SealingExists ==
    ASSUME EncryptsBlocks, NEW j \in Jobs, j.use = "cipher", NEW d, Fits(j, d)
    PROVE  \E st, ou, L : Sealing(st, ou, L, j, d)
<1>1. KeyOf(j, d) \in AKey /\ AnIv(IvOf(j, d)) /\ WholeOf(j) \in Seq(Byte)
  BY KeysFit, WholeFits
<1>2. CASE j.mode = "RC4"
  <2>1. WholeOf(j) = j.text
    BY <1>2 DEF WholeOf
  <2>2. RefOf(j, d) = XorWords(WholeOf(j), Keystream(KeyOf(j, d), Len(WholeOf(j))))
        /\ FirstOf(j, d) = Rc4Init(KeyOf(j, d))
    BY <2>1, <1>2 DEF RefOf, FirstOf
  <2>3. PICK st, ou, L : /\ Ideal("enc", st, ou, L, "RC4", KeyOf(j, d), WholeOf(j))
                         /\ st[0] = Rc4Init(KeyOf(j, d))
                         /\ IsRef(XorWords(WholeOf(j), Keystream(KeyOf(j, d), Len(WholeOf(j)))),
                                  ou, L, "RC4", WholeOf(j))
    BY <1>1, Rc4ByTheBook
  <2>4. Sealing(st, ou, L, j, d)
    BY <2>2, <2>3, <1>2 DEF Sealing
  <2> QED BY <2>4
<1>3. CASE j.mode # "RC4"
  <2>1. j.mode \in Modes
    BY <1>3, CipherJob DEF AllModes
  <2>2. RefOf(j, d) = Textbook(j.mode, KeyOf(j, d), IvOf(j, d), WholeOf(j)) /\ FirstOf(j, d) = IvOf(j, d)
    BY <1>3 DEF RefOf, FirstOf
  <2>3. PICK st, ou, L : ByTheBook(st, ou, L, j.mode, KeyOf(j, d), IvOf(j, d), WholeOf(j))
    BY <1>1, <2>1, ModesByTheBook
  <2>4. Sealing(st, ou, L, j, d)
    BY <2>2, <2>3 DEF Sealing, ByTheBook
  <2> QED BY <2>4
<1> QED BY <1>2, <1>3

-----------------------------------------------------------------------------
\* The encryptor that gets a message in pieces.

\* the encryptor of a job
EncryptorOf(o, j, d) == IsCipher("enc", o, j.mode, j.pad, KeyOf(j, d), IvOf(j, d))
\* it has taken the first e bytes, and w is what it has put out
HasSealed(o, w, st, j, d, e) ==
    \E q \in Nat : /\ HasTaken(o, st, WholeOf(j), q, e) /\ e - q * SizeOf(j.mode) < SizeOf(j.mode)
                   /\ Keeps(w, RefOf(j, d), 0, q * SizeOf(j.mode))
\* the ciphertext is what was put out before, w, and what the last call, f, puts out
AllSealed(f, w, j, d) ==
    /\ EncryptorOf(f.o, j, d) /\ IsWords(f.o.data)
    /\ Keeps(concat(w, f.out), RefOf(j, d), 0, Len(RefOf(j, d)))

\* It stays one, whatever is put in for _data.
LEMMA CipherTakes ==
    ASSUME NEW xf, NEW o, NEW mode, NEW padding, NEW key, NEW iv,
           IsCipher(xf, o, mode, padding, key, iv), NEW x
    PROVE  /\ IsCipher(xf, [o EXCEPT !.data = x], mode, padding, key, iv)
           /\ [o EXCEPT !.data = x].data = x /\ [o EXCEPT !.data = x].reg = o.reg
  BY DEF IsCipher

\* It is fresh after cipher and after reset.
LEMMA FreshCipher ==
    ASSUME NEW xf, NEW mode, NEW padding, NEW key, NEW iv
    PROVE  LET o == cipher(xf, mode, padding, key, iv)
           IN  /\ IsCipher(xf, o, mode, padding, key, iv) /\ o.data = Create(<< >>)
               /\ o.reg = IF mode = "RC4" THEN Rc4Init(key) ELSE iv
  BY DEF cipher, reset, IsCipher, IsStream

\* reset makes it fresh.
LEMMA ResetCipherIs ==
    ASSUME NEW xf, NEW o, NEW mode, NEW padding, NEW key, NEW iv,
           IsCipher(xf, o, mode, padding, key, iv)
    PROVE  /\ IsCipher(xf, reset(o), mode, padding, key, iv) /\ reset(o).data = Create(<< >>)
           /\ reset(o).reg = IF mode = "RC4" THEN Rc4Init(key) ELSE iv
  BY DEF reset, IsCipher, IsStream

\* A fresh encryptor has sealed nothing.
LEMMA SealsNothing ==
    ASSUME NEW j \in Jobs, j.use = "cipher", NEW d, NEW st, NEW ou, NEW L, Sealing(st, ou, L, j, d),
           NEW o, EncryptorOf(o, j, d), o.data = Create(<< >>), o.reg = FirstOf(j, d)
    PROVE  HasSealed(o, Nothing, st, j, d, 0)
<1> DEFINE size == SizeOf(j.mode)
<1>1. size \in Nat \ {0} /\ 0 * size = 0
  BY SizeIs
<1>2. o.mode = j.mode
  BY CipherFields DEF EncryptorOf
<1>3. ASSUME NEW t PROVE Keeps(Create(<< >>), t, 0, 0)
  <2>1. << >> \in Seq(Byte) /\ Len(<< >>) = 0
    OBVIOUS
  <2>2. Create(<< >>).words \in Seq(Byte) /\ Create(<< >>).sigBytes = 0
    BY <2>1, CreateWords DEF IsWords
  <2> QED BY <2>2 DEF Keeps
<1>4. st[0] = FirstOf(j, d) /\ Len(WholeOf(j)) \in Nat
  BY WholeFits DEF Sealing
<1> HIDE DEF size
<1>5. HasTaken(o, st, WholeOf(j), 0, 0)
  BY <1>1, <1>2, <1>3, <1>4 DEF HasTaken, size
<1>6. 0 - 0 * size < size /\ Keeps(Nothing, RefOf(j, d), 0, 0 * size)
  BY <1>1, <1>3 DEF Nothing
<1> QED BY <1>5, <1>6 DEF HasSealed, size

\* What is appended to _data.
LEMMA TakesMore ==
    ASSUME NEW xf, NEW o, NEW mode, NEW padding, NEW key, NEW iv,
           IsCipher(xf, o, mode, padding, key, iv),
           NEW st, NEW P, NEW q, NEW e \in Nat, HasTaken(o, st, P, q, e),
           NEW f \in Nat, e <= f, f <= Len(P), NEW x, Keeps(x, P, e, f)
    PROVE  HasTaken([o EXCEPT !.data = concat(o.data, x)], st, P, q, f)
<1> DEFINE a == [o EXCEPT !.data = concat(o.data, x)]
           m == q * SizeOf(mode)
<1>1. IsCipher(xf, a, mode, padding, key, iv) /\ a.data = concat(o.data, x) /\ a.reg = o.reg
  <2> DEFINE y == concat(o.data, x)
  <2> HIDE DEF y
  <2>1. LET b == [o EXCEPT !.data = y]
        IN  IsCipher(xf, b, mode, padding, key, iv) /\ b.data = y /\ b.reg = o.reg
    BY DEF IsCipher
  <2> QED BY <2>1 DEF y
<1>2. o.mode = mode /\ a.mode = mode
  BY <1>1, CipherFields
<1> HIDE DEF a
<1>3. q \in Nat /\ m <= e /\ o.reg = st[q] /\ Keeps(o.data, P, m, e)
  BY <1>2 DEF HasTaken
<1>4. m \in Nat
  <2>1. SizeOf(mode) \in Nat
    BY SizeIs
  <2> QED BY <2>1, <1>3, Times
<1> HIDE DEF m
<1>5. Keeps(concat(o.data, x), P, m, f)
  BY <1>3, <1>4, ConcatKeeps
<1>6. m <= f
  BY <1>3, <1>4
<1>7. HasTaken(a, st, P, q, f)
  BY <1>1, <1>2, <1>3, <1>5, <1>6 DEF HasTaken, m
<1> QED BY <1>7 DEF a

\* A piece more is taken: the whole blocks are put out.
LEMMA SealsPiece ==
    ASSUME EncryptsBlocks, NEW j \in Jobs, j.use = "cipher", NEW d, Fits(j, d),
           NEW st, NEW ou, NEW L, Sealing(st, ou, L, j, d),
           NEW o, EncryptorOf(o, j, d), NEW w, NEW e \in Nat, HasSealed(o, w, st, j, d, e),
           NEW f \in Nat, e <= f, f <= Len(WholeOf(j)), NEW x, Keeps(x, WholeOf(j), e, f)
    PROVE  /\ EncryptorOf(cipherProcess(o, x).o, j, d)
           /\ HasSealed(cipherProcess(o, x).o, concat(w, cipherProcess(o, x).out), st, j, d, f)
<1> DEFINE size == SizeOf(j.mode)
           P == WholeOf(j)
           R == RefOf(j, d)
           a == [o EXCEPT !.data = concat(o.data, x)]
           p == process(a, FALSE)
           key == KeyOf(j, d)
           iv == IvOf(j, d)
<1>1. cipherProcess(o, x) = p
  BY DEF cipherProcess
<1>2. PICK q \in Nat : HasTaken(o, st, P, q, e) /\ Keeps(w, R, 0, q * size)
  BY DEF HasSealed
<1>3. IsCipher("enc", o, j.mode, j.pad, key, iv)
  BY DEF EncryptorOf
<1>4. IsCipher("enc", a, j.mode, j.pad, key, iv)
  BY <1>3, CipherTakes
<1>5. HasTaken(a, st, P, q, f)
  BY <1>2, <1>3, TakesMore
<1> HIDE DEF a
<1>6. /\ Ideal("enc", st, ou, L, j.mode, key, P) /\ IsRef(R, ou, L, j.mode, P)
      /\ key \in AKey /\ j.mode \in AllModes
  BY KeysFit, CipherJob DEF Sealing
<1> HIDE DEF P, R, key, iv
<1>7. PICK m \in Nat : /\ IsCipher("enc", p.o, j.mode, j.pad, key, iv)
                       /\ HasTaken(p.o, st, P, m, f) /\ f - m * size < size
                       /\ q * size <= m * size /\ Keeps(p.out, R, q * size, m * size)
  <2>1. "enc" \in Xforms /\ Works("enc")
    BY EncWorks
  <2>2. Kept(Back("enc", j.mode), size) = 0
    BY DEF Back, Kept
  <2>3. PICK m \in Nat : /\ IsCipher("enc", p.o, j.mode, j.pad, key, iv)
                         /\ HasTaken(p.o, st, P, m, f)
                         /\ f - m * size < size + Kept(Back("enc", j.mode), size)
                         /\ q * size <= m * size /\ Keeps(p.out, R, q * size, m * size)
    <3> DEFINE mode == j.mode
               padding == j.pad
    <3>1. /\ Ideal("enc", st, ou, L, mode, key, P) /\ IsRef(R, ou, L, mode, P)
          /\ key \in AKey /\ mode \in AllModes /\ IsCipher("enc", a, mode, padding, key, iv)
      BY <1>4, <1>6
    <3> HIDE DEF mode, padding
    <3>2. \E m \in Nat : WholePutOut("enc", process(a, FALSE), st, P, R, mode, padding, key, iv, q, m, f)
      BY <3>1, <1>5, <2>1, ProcessWhole
    <3> QED BY <3>2 DEF mode, padding, WholePutOut
  <2>4. size \in Nat
    BY SizeIs
  <2>5. size + Kept(Back("enc", j.mode), size) = size
    BY <2>2, <2>4
  <2> QED BY <2>3, <2>5
<1> HIDE DEF p
<1>8. Keeps(concat(w, p.out), R, 0, m * size)
  <2>1. size \in Nat
    BY SizeIs
  <2>2. q * size \in Nat /\ m * size \in Nat
    BY <2>1, Times
  <2> DEFINE y == q * size
             z == m * size
  <2>3. y \in Nat /\ z \in Nat /\ y <= z /\ Keeps(w, R, 0, y) /\ Keeps(p.out, R, y, z)
    BY <2>2, <1>2, <1>7
  <2> HIDE DEF y, z
  <2>4. 0 \in Nat /\ 0 <= y
    BY <2>3
  <2>5. Keeps(concat(w, p.out), R, 0, z)
    BY <2>3, <2>4, ConcatKeeps
  <2> QED BY <2>5 DEF z
<1>9. HasSealed(p.o, concat(w, p.out), st, j, d, f)
  BY <1>7, <1>8 DEF HasSealed, P, R
<1> QED BY <1>1, <1>7, <1>9 DEF EncryptorOf, key, iv

\* So is what process leaves in _data.
LEMMA ProcessIsWords ==
    ASSUME NEW xf \in Xforms, NEW o, NEW mode, NEW padding, NEW key, NEW iv,
           IsCipher(xf, o, mode, padding, key, iv), IsWords(o.data), NEW flush \in BOOLEAN
    PROVE  IsWords(process(o, flush).o.data)
<1> DEFINE t == Taken(o.data, Size(o), keepBack(o), flush)
<1>1. Size(o) \in Nat \ {0} /\ keepBack(o) \in {0, 1}
  BY BlockSize DEF Size, keepBack
<1>2. IsWords(t.rest)
  BY <1>1, RestIsWords
<1>3. \E r : process(o, flush).o = [o EXCEPT !.data = t.rest, !.reg = r]
  BY DEF process
<1> HIDE DEF t
<1>4. ASSUME NEW x, NEW r PROVE [o EXCEPT !.data = x, !.reg = r].data = x
  BY DEF IsCipher
<1>5. process(o, flush).o.data = t.rest
  BY <1>3, <1>4
<1> QED BY <1>2, <1>5

\* And so is _data of an object that has taken something.
LEMMA TakenIsWords ==
    ASSUME NEW o, NEW st, NEW P, NEW q, NEW e, HasTaken(o, st, P, q, e)
    PROVE  IsWords(o.data)
<1> DEFINE m == q * SizeOf(o.mode)
<1>1. q \in Nat /\ e \in Nat /\ m <= e /\ Keeps(o.data, P, m, e)
  BY DEF HasTaken
<1>2. m \in Nat
  <2>1. SizeOf(o.mode) \in Nat
    BY SizeIs
  <2> QED BY <1>1, <2>1, Times
<1> HIDE DEF m
<1>3. o.data.words \in Seq(Byte) /\ o.data.sigBytes = e - m
  BY <1>1 DEF Keeps
<1>4. e - m \in Nat
  BY <1>1, <1>2
<1> QED BY <1>3, <1>4 DEF IsWords

\* The rest is taken: what has been put out is the ciphertext.
LEMMA SealsRest ==
    ASSUME EncryptsBlocks, NEW j \in Jobs, j.use = "cipher", NEW d, Fits(j, d),
           NEW st, NEW ou, NEW L, Sealing(st, ou, L, j, d),
           NEW o, EncryptorOf(o, j, d), NEW w, NEW e \in Nat, HasSealed(o, w, st, j, d, e),
           e <= Len(j.text), NEW x, Keeps(x, WholeOf(j), e, Len(j.text))
    PROVE  AllSealed(cipherFinalize(o, x, j.random), w, j, d)
<1> DEFINE size == SizeOf(j.mode)
           P == WholeOf(j)
           R == RefOf(j, d)
           f == Len(j.text)
           g == Len(P)
           a == [o EXCEPT !.data = concat(o.data, x)]
           b == [a EXCEPT !.data = pad(a.padding, a.data, j.random)]
           c == IF IsStream(o) THEN a ELSE b
           p == process(c, TRUE)
           key == KeyOf(j, d)
           iv == IvOf(j, d)
<1>1. IsCipher("enc", o, j.mode, j.pad, key, iv)
  BY DEF EncryptorOf
<1>2. o.xform = "enc" /\ o.mode = j.mode
  BY <1>1, CipherFields
<1>3. cipherFinalize(o, x, j.random) = p
  BY <1>2 DEF cipherFinalize
<1>4. PICK q \in Nat : HasTaken(o, st, P, q, e) /\ Keeps(w, R, 0, q * size)
  BY DEF HasSealed
<1>5. f \in Nat /\ f <= g /\ g \in Nat /\ e <= f /\ Keeps(x, P, e, f)
  BY WholeFits, CipherJob
<1>6. j.mode \in {"ECB", "CBC"} => g % size = 0
  BY WholeFits
<1>7. IsCipher("enc", a, j.mode, j.pad, key, iv)
  BY <1>1, CipherTakes
<1>8. HasTaken(a, st, P, q, f)
  <2>1. HasTaken(o, st, P, q, e) /\ f <= Len(P)
    BY <1>4, <1>5
  <2> HIDE DEF f, g, P, key, iv
  <2> QED BY <2>1, <1>1, <1>5, TakesMore
<1> HIDE DEF a
<1>9. a.padding = j.pad /\ a.mode = j.mode
  BY <1>7, CipherFields
<1>10. IsCipher("enc", c, j.mode, j.pad, key, iv) /\ HasTaken(c, st, P, q, g)
  <2>1. CASE j.mode = "RC4"
    <3>1. c = a /\ g = f
      BY <2>1, <1>2 DEF IsStream, WholeOf
    <3> HIDE DEF c
    <3> QED BY <3>1, <1>7, <1>8
  <2>2. CASE j.mode # "RC4"
    <3>1. c = b
      BY <2>2, <1>2 DEF IsStream
    <3>2. P = PaddedText(j.pad, j.text, j.random) /\ size = BlockBytes
      BY <2>2 DEF WholeOf, SizeOf
    <3> DEFINE x1 == pad(j.pad, a.data, j.random)
    <3>3. b = [a EXCEPT !.data = x1]
      BY <1>9
    <3>4. IsCipher("enc", b, j.mode, j.pad, key, iv) /\ b.data = x1 /\ b.reg = a.reg
      <4> HIDE DEF x1, b, key, iv
      <4> QED BY <3>3, <1>7, CipherTakes
    <3>5. b.mode = j.mode
      <4> HIDE DEF b
      <4> QED BY <3>4, CipherFields
    <3>6. q * BlockBytes <= f /\ a.reg = st[q] /\ Keeps(a.data, P, q * BlockBytes, f)
      BY <1>8, <3>2, <1>9 DEF HasTaken
    <3>7. Keeps(x1, P, q * BlockBytes, g)
      <4>1. /\ j.pad \in Kinds /\ j.text \in Seq(Byte) /\ j.random \in Seq(Byte)
            /\ Len(j.random) >= BlockBytes - 1
        BY CipherJob
      <4> HIDE DEF P
      <4> QED BY <4>1, <3>2, <3>6, PadKeeps
    <3>8. q * BlockBytes <= g
      <4>1. BlockBytes \in Nat
        BY BlockSize
      <4> DEFINE y == q * BlockBytes
      <4>2. y \in Nat /\ y <= f
        BY <4>1, <3>6, Times
      <4> HIDE DEF y, f, g
      <4>3. y <= g
        BY <4>2, <1>5
      <4> QED BY <4>3 DEF y
    <3> HIDE DEF b, x1, g, P
    <3>9. HasTaken(b, st, P, q, g)
      BY <3>2, <3>4, <3>5, <3>6, <3>7, <3>8, <1>5 DEF HasTaken, g
    <3> QED BY <3>1, <3>4, <3>9
  <2> QED BY <2>1, <2>2
<1> HIDE DEF c
<1>11. /\ Ideal("enc", st, ou, L, j.mode, key, P) /\ IsRef(R, ou, L, j.mode, P)
      /\ key \in AKey /\ j.mode \in AllModes
  BY KeysFit, CipherJob DEF Sealing
<1> HIDE DEF P, R, key, iv
<1>12. /\ IsCipher("enc", p.o, j.mode, j.pad, key, iv)
       /\ Keeps(p.out, R, q * size, g)
  <2>1. HasTaken(c, st, P, q, Len(P)) /\ (j.mode \in {"ECB", "CBC"} => Len(P) % size = 0)
    BY <1>6, <1>10
  <2>2. "enc" \in Xforms /\ Works("enc")
    BY EncWorks
  <2> QED BY <2>1, <2>2, <1>10, <1>11, ProcessAll
<1>13. R \in Seq(Byte) /\ Len(R) = g
  BY <1>11 DEF IsRef
<1>13a. IsWords(p.o.data)
  <2>1. IsWords(c.data)
    BY <1>10, TakenIsWords
  <2>2. "enc" \in Xforms
    BY EncWorks
  <2> QED BY <1>10, <2>1, <2>2, ProcessIsWords
<1> HIDE DEF p
<1>14. Keeps(concat(w, p.out), R, 0, g)
  <2> DEFINE y == q * size
  <2>1. y \in Nat /\ y <= g
    <3>1. size \in Nat /\ o.mode = j.mode
      BY <1>2, SizeIs
    <3>2. c.mode = j.mode
      BY <1>10, CipherFields
    <3> QED BY <3>1, <3>2, <1>10, Times DEF HasTaken
  <2>2. Keeps(w, R, 0, y) /\ Keeps(p.out, R, y, g)
    BY <1>4, <1>12
  <2> HIDE DEF y, g
  <2>3. 0 \in Nat /\ 0 <= y
    BY <2>1
  <2> QED BY <2>1, <2>2, <2>3, <1>5, ConcatKeeps
<1>15. Keeps(concat(w, p.out), R, 0, Len(R))
  BY <1>13, <1>14
<1> QED BY <1>3, <1>12, <1>13a, <1>15 DEF AllSealed, EncryptorOf, key, iv, R

\* The encryptor has taken the first pos bytes of the message, keeps what is no whole
\* block of them, and has put out the beginning of the ciphertext, up to there.
CipherInv ==
    /\ job \in Jobs
    /\ stage = "new" => job.use = "cipher" /\ pos = 0 /\ sealed = Nothing
    /\ stage \in {"enc", "sealed", "dec", "done"} =>
           job.use = "cipher" /\ Fits(job, dkey) /\ EncryptorOf(enc, job, dkey)
    /\ stage = "enc" =>
           /\ pos \in Nat /\ pos <= Len(job.text)
           /\ \E st, ou, L : Sealing(st, ou, L, job, dkey) /\ HasSealed(enc, sealed, st, job, dkey, pos)
    /\ stage \in {"sealed", "dec", "done"} =>
           Keeps(sealed, RefOf(job, dkey), 0, Len(RefOf(job, dkey))) /\ IsWords(enc.data)
    /\ stage \in {"sealed", "done"} => pos = 0

\* Nothing has been encrypted at first.
LEMMA CipherInit == Init => CipherInv
<1> SUFFICES ASSUME Init PROVE CipherInv
  OBVIOUS
<1>1. job \in Jobs /\ pos = 0 /\ sealed = Nothing /\ stage = (IF job.use = "cipher" THEN "new" ELSE job.use)
  BY DEF Init
<1>2. job.use \in {"cipher", "hash", "kdf"}
  BY <1>1, JobAssumption DEF Job
<1>3. stage \in {"new", "hash", "kdf"} /\ (stage = "new" => job.use = "cipher")
  BY <1>1, <1>2
<1> QED BY <1>1, <1>3 DEF CipherInv

\* The encryptor that is created has sealed nothing.
LEMMA CipherCreate ==
    ASSUME CompressGivesWords, EncryptsBlocks, CipherInv, CreateEncryptor
    PROVE  CipherInv'
<1>1. /\ job \in Jobs /\ job' = job /\ job.use = "cipher" /\ stage' = "enc" /\ pos' = pos /\ sealed' = sealed
      /\ pos = 0 /\ sealed = Nothing /\ dkey' = Derived(salt') /\ enc' = Cipher("enc", dkey')
      /\ salt' \in (IF job.iv = << >> THEN Salts ELSE {NoSalt})
  BY DEF CipherInv, CreateEncryptor
<1> DEFINE j == job
           d == dkey'
           o == enc'
           key == KeyOf(j, d)
           iv == IvOf(j, d)
<1>2. Fits(j, d)
  <2>1. CASE j.iv = << >>
    <3>1. j.secret \in Seq(Byte) /\ salt' \in Seq(Byte)
      BY <1>1, <2>1, JobFacts, MagicAssumption
    <3>2. Derived(salt') = EvpKDF(Create(j.secret), Create(salt'), KeyWords).words
      BY <2>1 DEF Derived
    <3>3. d = EvpKey(j.secret, salt')
      BY <1>1, <3>1, <3>2, EvpIsFunction
    <3> QED BY <3>1, <3>3, EvpKeyTyped DEF Fits
  <2>2. CASE j.iv # << >>
    BY <2>2 DEF Fits
  <2> QED BY <2>1, <2>2
<1>3. o = cipher("enc", j.mode, j.pad, key, iv)
  BY <1>1 DEF Cipher, KeyOf, IvOf
<1>4. /\ IsCipher("enc", o, j.mode, j.pad, key, iv) /\ o.data = Create(<< >>)
      /\ o.reg = IF j.mode = "RC4" THEN Rc4Init(key) ELSE iv
  BY <1>3, FreshCipher
<1> HIDE DEF d, o
<1>5. EncryptorOf(o, j, d) /\ o.reg = FirstOf(j, d)
  BY <1>4 DEF EncryptorOf, FirstOf
<1>6. PICK st, ou, L : Sealing(st, ou, L, j, d)
  BY <1>1, <1>2, SealingExists
<1>7. HasSealed(o, Nothing, st, j, d, 0)
  BY <1>1, <1>4, <1>5, <1>6, SealsNothing
<1>8. 0 \in Nat /\ 0 <= Len(j.text)
  BY <1>1, JobFacts
<1> QED BY <1>1, <1>2, <1>5, <1>6, <1>7, <1>8 DEF CipherInv, d, o

\* One piece more.
LEMMA CipherPiece ==
    ASSUME EncryptsBlocks, CipherInv, NEW n \in Sizes, EncryptPiece(n)
    PROVE  CipherInv'
<1> DEFINE x == Piece(job.text, n, job.left)
           r == cipherProcess(enc, x)
           w == concat(sealed, r.out)
           f == pos + n
<1>1. /\ job \in Jobs /\ job.use = "cipher" /\ Fits(job, dkey) /\ EncryptorOf(enc, job, dkey)
      /\ stage = "enc" /\ pos \in Nat /\ f <= Len(job.text)
  BY DEF CipherInv, EncryptPiece
<1>2. /\ enc' = r.o /\ sealed' = w /\ pos' = f /\ job' = job /\ dkey' = dkey /\ stage' = stage
  BY DEF EncryptPiece
<1>3. PICK st, ou, L : Sealing(st, ou, L, job, dkey) /\ HasSealed(enc, sealed, st, job, dkey, pos)
  BY <1>1 DEF CipherInv
<1>4. n \in Nat /\ f \in Nat /\ pos <= f
  BY <1>1, SizesAssumption
<1>5. Keeps(x, WholeOf(job), pos, f) /\ f <= Len(WholeOf(job))
  <2>1. /\ job.text \in Seq(Byte) /\ job.left \in Byte
        /\ \A i \in 1 .. Len(job.text) : WholeOf(job)[i] = job.text[i]
    BY <1>1, CipherJob, WholeFits
  <2>2. Len(job.text) <= Len(WholeOf(job)) /\ Len(WholeOf(job)) \in Nat /\ Len(job.text) \in Nat
    BY <1>1, CipherJob, WholeFits
  <2>3. Keeps(x, WholeOf(job), pos, f)
    BY <2>1, <1>1, <1>4, PieceKeeps
  <2> QED BY <2>2, <2>3, <1>1, <1>4
<1> HIDE DEF x, f
<1>6. EncryptorOf(r.o, job, dkey) /\ HasSealed(r.o, w, st, job, dkey, f)
  BY <1>1, <1>3, <1>4, <1>5, SealsPiece
<1> HIDE DEF r, w
<1> QED BY <1>1, <1>2, <1>3, <1>4, <1>6 DEF CipherInv

\* The rest.
LEMMA CipherRest ==
    ASSUME EncryptsBlocks, CipherInv, EncryptRest
    PROVE  CipherInv'
<1> DEFINE n == Len(job.text) - pos
           x == Piece(job.text, n, job.left)
           r == cipherFinalize(enc, x, job.random)
           w == concat(sealed, r.out)
<1>1. /\ job \in Jobs /\ job.use = "cipher" /\ Fits(job, dkey) /\ EncryptorOf(enc, job, dkey)
      /\ stage = "enc" /\ pos \in Nat /\ pos <= Len(job.text)
  BY DEF CipherInv, EncryptRest
<1>2. enc' = r.o /\ sealed' = w /\ job' = job /\ dkey' = dkey /\ stage' = "sealed" /\ pos' = 0
  BY DEF EncryptRest
<1>3. PICK st, ou, L : Sealing(st, ou, L, job, dkey) /\ HasSealed(enc, sealed, st, job, dkey, pos)
  BY <1>1 DEF CipherInv
<1>4. /\ job.text \in Seq(Byte) /\ job.left \in Byte
      /\ \A i \in 1 .. Len(job.text) : WholeOf(job)[i] = job.text[i]
  BY <1>1, CipherJob, WholeFits
<1>5. n \in Nat /\ pos + n = Len(job.text) /\ pos + n <= Len(job.text)
  BY <1>1, <1>4
<1>6. Keeps(x, WholeOf(job), pos, Len(job.text))
  <2> HIDE DEF n
  <2>1. Keeps(x, WholeOf(job), pos, pos + n)
    BY <1>1, <1>4, <1>5, PieceKeeps
  <2> QED BY <2>1, <1>5
<1> HIDE DEF x
<1>7. /\ EncryptorOf(r.o, job, dkey) /\ IsWords(r.o.data)
      /\ Keeps(w, RefOf(job, dkey), 0, Len(RefOf(job, dkey)))
  <2>1. Sealing(st, ou, L, job, dkey) /\ HasSealed(enc, sealed, st, job, dkey, pos)
    BY <1>3
  <2> HIDE DEF n
  <2>2. AllSealed(r, sealed, job, dkey)
    BY <1>1, <1>6, <2>1, SealsRest
  <2> QED BY <2>2 DEF AllSealed
<1> HIDE DEF r, w
<1> QED BY <1>1, <1>2, <1>7 DEF CipherInv

\* The same encryptor once more.
LEMMA CipherReset ==
    ASSUME EncryptsBlocks, CipherInv, ResetEncryptor
    PROVE  CipherInv'
<1> DEFINE o == reset(enc)
<1>1. /\ job \in Jobs /\ job.use = "cipher" /\ Fits(job, dkey) /\ EncryptorOf(enc, job, dkey) /\ pos = 0
  BY DEF CipherInv, ResetEncryptor
<1>2. /\ enc' = o /\ sealed' = Nothing /\ job' = job /\ dkey' = dkey /\ stage' = "enc" /\ pos' = pos
  BY DEF ResetEncryptor
<1>3. EncryptorOf(o, job, dkey) /\ o.data = Create(<< >>) /\ o.reg = FirstOf(job, dkey)
  BY <1>1, ResetCipherIs DEF EncryptorOf, FirstOf
<1> HIDE DEF o
<1>4. PICK st, ou, L : Sealing(st, ou, L, job, dkey)
  BY <1>1, SealingExists
<1>5. HasSealed(o, Nothing, st, job, dkey, 0)
  BY <1>1, <1>3, <1>4, SealsNothing
<1>6. 0 \in Nat /\ 0 <= Len(job.text)
  BY <1>1, JobFacts
<1> QED BY <1>1, <1>2, <1>3, <1>4, <1>5, <1>6 DEF CipherInv

\* Every step keeps the invariant.
LEMMA CipherNext == ASSUME CompressGivesWords, EncryptsBlocks, CipherInv, [Next]_vars PROVE CipherInv'
<1>1. CASE CreateEncryptor
  BY <1>1, CipherCreate
<1>2. CASE EncryptRest
  BY <1>2, CipherRest
<1>3. CASE ResetEncryptor
  BY <1>3, CipherReset
<1>4. CASE CreateDecryptor
  BY <1>4 DEF CipherInv, CreateDecryptor
<1>5. CASE DecryptRest
  BY <1>5 DEF CipherInv, DecryptRest
<1>6. CASE HashRest
  BY <1>6 DEF CipherInv, HashRest
<1>7. CASE ResetMac
  BY <1>7 DEF CipherInv, ResetMac
<1>8. CASE DeriveKey
  BY <1>8 DEF CipherInv, DeriveKey
<1>9. ASSUME NEW n \in Sizes, EncryptPiece(n) PROVE CipherInv'
  BY <1>9, CipherPiece
<1>10. ASSUME NEW n \in Sizes, DecryptPiece(n) PROVE CipherInv'
  BY <1>10 DEF CipherInv, DecryptPiece
<1>11. ASSUME NEW n \in Sizes, HashPiece(n) PROVE CipherInv'
  BY <1>11 DEF CipherInv, HashPiece
<1>12. CASE UNCHANGED vars
  BY <1>12 DEF CipherInv, vars
<1> QED BY <1>1, <1>2, <1>3, <1>4, <1>5, <1>6, <1>7, <1>8, <1>9, <1>10, <1>11, <1>12 DEF Next

\* What the run calls the reference is that of the job and its derived key.
LEMMA ReferenceIs == Reference = RefOf(job, dkey)
<1> DEFINE key == KeyOf(job, dkey)
           iv == IvOf(job, dkey)
           o == cipher("enc", job.mode, job.pad, key, iv)
<1>1. Cipher("enc", dkey) = o
  BY DEF Cipher, KeyOf, IvOf
<1>2. o.key = key /\ o.iv = iv
  BY FreshCipher, CipherFields
<1> HIDE DEF o, key, iv
<1> QED BY <1>1, <1>2 DEF Reference, RefOf, WholeOf, PaddedText, key, iv

\* What has been put out is the beginning of the ciphertext.
LEMMA CipherGives == ASSUME EncryptsBlocks PROVE CipherInv => CiphertextIsReference
<1> SUFFICES ASSUME CipherInv PROVE CiphertextIsReference
  OBVIOUS
<1> DEFINE R == RefOf(job, dkey)
<1>1. CASE stage = "sealed"
  <2>1. PICK st, ou, L : Sealing(st, ou, L, job, dkey)
    BY <1>1, SealingExists DEF CipherInv
  <2>2. R \in Seq(Byte) /\ Keeps(sealed, R, 0, Len(R))
    BY <1>1, <2>1 DEF Sealing, IsRef, CipherInv
  <2> HIDE DEF R
  <2>3. Bytes(sealed) = R
    BY <2>2, KeepsBytes
  <2> QED BY <1>1, <2>3, ReferenceIs DEF CiphertextIsReference, R
<1>2. CASE stage = "enc"
  <2>1. PICK st, ou, L : Sealing(st, ou, L, job, dkey) /\ HasSealed(enc, sealed, st, job, dkey, pos)
    BY <1>2 DEF CipherInv
  <2>2. PICK q \in Nat : /\ HasTaken(enc, st, WholeOf(job), q, pos)
                         /\ Keeps(sealed, R, 0, q * SizeOf(job.mode))
    BY <2>1 DEF HasSealed
  <2>3. R \in Seq(Byte) /\ Len(R) = Len(WholeOf(job))
    BY <2>1 DEF Sealing, IsRef
  <2>4. enc.mode = job.mode
    BY <1>2, CipherFields DEF CipherInv, EncryptorOf
  <2> DEFINE y == q * SizeOf(job.mode)
  <2>5. y \in Nat
    <3>1. SizeOf(job.mode) \in Nat
      BY SizeIs
    <3> QED BY <3>1, Times
  <2>6. pos \in Nat /\ y <= pos /\ pos <= Len(WholeOf(job))
    BY <2>2, <2>4 DEF HasTaken
  <2>7. Keeps(sealed, R, 0, y)
    BY <2>2
  <2> HIDE DEF y, R
  <2>8. y \in 0 .. Len(R)
    <3>1. Len(R) \in Nat
      BY <2>3
    <3> QED BY <3>1, <2>3, <2>5, <2>6
  <2>9. IsPrefix(Bytes(sealed), R)
    BY <2>3, <2>7, <2>8, KeepsPrefix
  <2> QED BY <2>9, <1>2, ReferenceIs DEF CiphertextIsReference, R
<1> QED BY <1>1, <1>2 DEF CiphertextIsReference

\* Whatever pieces a message comes in, and whatever lies behind them, what the encryptor
\* (cipher-core.js with any mode and padding, rc4.js) has put out is the beginning of
\* the one ciphertext of the message, and in the end all of it; again after reset.
THEOREM AlwaysReference ==
    ASSUME CompressGivesWords, EncryptsBlocks
    PROVE  Spec => []CiphertextIsReference
<1>1. Init => CipherInv
  BY CipherInit
<1>2. CipherInv /\ [Next]_vars => CipherInv'
  BY CipherNext
<1>3. CipherInv => CiphertextIsReference
  BY CipherGives
<1> QED BY <1>1, <1>2, <1>3, PTL DEF Spec

-----------------------------------------------------------------------------
\* Decryption undoes encryption, block by block.

\* A block is the bytes of a sequence, and 0 behind them.
LEMMA BlockTyped ==
    ASSUME NEW mode \in AllModes, NEW P \in Seq(Byte), NEW k
    PROVE  Block(P, k, SizeOf(mode)) \in BlocksOf(mode)
<1>1. \A i \in 1 .. SizeOf(mode) : ByteAt(P, k * SizeOf(mode) + i) \in Byte
  BY ByteInByte
<1> QED BY <1>1 DEF Block, BlocksOf

\* The keystream of RC4 twice is nothing, with the same state.
LEMMA Rc4Undone ==
    ASSUME NEW s \in Rc4State, NEW b \in [1 .. WordBytes -> Byte]
    PROVE  LET e == Rc4Crypt(s, b)
               d == Rc4Crypt(s, e.block)
           IN  d.block = b /\ d.state = e.state
<1> DEFINE e == Rc4Crypt(s, b)
           d == Rc4Crypt(s, e.block)
<1>1. PICK h : h[0] = s /\ RcRun(h, 0, WordBytes)
  BY RcRunExists, Sizes3
<1>2. e.state = h[WordBytes] /\ d.state = h[WordBytes]
  BY <1>1, Rc4CryptIs
<1>3. e.block = [n \in 1 .. WordBytes |-> Xor(b[n], RcOut(h[n]))]
  BY <1>1, Rc4CryptIs
<1>4. d.block = [n \in 1 .. WordBytes |-> Xor(e.block[n], RcOut(h[n]))]
  BY <1>1, Rc4CryptIs
<1> HIDE DEF e, d
<1>5. ASSUME NEW n \in 1 .. WordBytes PROVE Xor(e.block[n], RcOut(h[n])) = b[n]
  <2>1. RcOut(h[n]) \in Byte
    <3>1. h[n - 1] \in Rc4State /\ h[n] = RcStep(h[n - 1])
      <4>1. \A k \in 0 .. WordBytes : h[k] \in Rc4State
        BY <1>1, RcRunTyped, Sizes3
      <4>2. n - 1 \in 0 .. WordBytes /\ n \in 0 + 1 .. WordBytes
        BY Sizes3
      <4> QED BY <4>1, <4>2, <1>1 DEF RcRun
    <3> QED BY <3>1, RcTyped
  <2>2. b[n] \in Byte /\ e.block[n] = Xor(b[n], RcOut(h[n]))
    BY <1>3
  <2> QED BY <2>1, <2>2, ByteAssumption
<1>6. d.block = [n \in 1 .. WordBytes |-> b[n]]
  BY <1>4, <1>5
<1>7. b = [n \in 1 .. WordBytes |-> b[n]]
  OBVIOUS
<1> QED BY <1>2, <1>6, <1>7 DEF e, d

\* What is encrypted and decrypted with the same state.
CryptBack(mode, key, s, b) ==
    LET e == Crypt("enc", mode, key, s, b)
        d == Crypt("dec", mode, key, s, e.block)
    IN  d.block = b /\ d.state = e.state

\* A block comes back, and both ciphers have the same state afterwards.
LEMMA CryptUndone ==
    ASSUME Works("dec"), NEW mode \in AllModes, NEW key \in AKey, NEW s \in StateOf(mode),
           NEW b \in BlocksOf(mode)
    PROVE  CryptBack(mode, key, s, b)
<1>1. CASE mode = "RC4"
  <2>1. s \in Rc4State /\ b \in [1 .. WordBytes -> Byte]
    BY <1>1 DEF StateOf, BlocksOf, SizeOf
  <2> QED BY <2>1, <1>1, Rc4Undone DEF CryptBack, Crypt
<1>2. CASE mode # "RC4"
  <2>1. mode \in Modes /\ s \in BlockOf /\ b \in BlockOf
    BY <1>2 DEF AllModes, StateOf, BlocksOf, SizeOf, BlockOf
  <2>2. Undoes(key)
    BY DEF Undoes, Works, EncryptsBlocks, DecryptsBlocks
  <2> QED BY <2>1, <2>2, <1>2, BlockUndone DEF CryptBack, Crypt
<1> QED BY <1>1, <1>2

\* There are such states and results.
LEMMA IdealExists ==
    ASSUME NEW xf \in Xforms, Works(xf), NEW mode \in AllModes, NEW key \in AKey, NEW s \in StateOf(mode),
           NEW R \in Seq(Byte), NEW L \in Nat, Len(R) <= L * SizeOf(mode)
    PROVE  \E st, ou : Ideal(xf, st, ou, L, mode, key, R) /\ st[0] = s
<1> DEFINE X == StateOf(mode)
           size == SizeOf(mode)
           G == [k \in 1 .. L |-> [x \in X |-> Crypt(xf, mode, key, x, Block(R, k - 1, size)).state]]
<1>1. ASSUME NEW x \in X, NEW k PROVE Crypt(xf, mode, key, x, Block(R, k - 1, size)).state \in X
  BY BlockTyped, CryptTyped
<1>2. G \in [1 .. L -> [X -> X]]
  BY <1>1
<1>3. PICK st : FunRun(st, X, L, s, G)
  <2> HIDE DEF G, X
  <2> QED BY <1>2, FunRunExists DEF X
<1> DEFINE ou == [k \in 1 .. L |-> Crypt(xf, mode, key, st[k - 1], Block(R, k - 1, size)).block]
<1>4. st \in [0 .. L -> X] /\ st[0] = s /\ \A k \in 1 .. L : st[k] = G[k][st[k - 1]]
  BY <1>3 DEF FunRun
<1>5. ASSUME NEW k \in 1 .. L
      PROVE  LET c == Crypt(xf, mode, key, st[k - 1], Block(R, k - 1, size))
             IN  c.state = st[k] /\ c.block = ou[k]
  <2>1. k - 1 \in 0 .. L
    OBVIOUS
  <2>2. st[k - 1] \in X
    BY <2>1, <1>4
  <2> QED BY <2>2, <1>4
<1> HIDE DEF ou, G
<1>6. Ideal(xf, st, ou, L, mode, key, R)
  BY <1>4, <1>5 DEF Ideal, X, size
<1> QED BY <1>4, <1>6

\* Where the blocks of a sequence are, and what they hold.
LEMMA BlockAtPlace ==
    ASSUME NEW mode \in AllModes, NEW P \in Seq(Byte), NEW k \in Nat \ {0}, NEW i \in 1 .. SizeOf(mode)
    PROVE  LET x == (k - 1) * SizeOf(mode) + i
           IN  /\ x \in Nat \ {0} /\ x <= k * SizeOf(mode) /\ (k - 1) * SizeOf(mode) < x
               /\ (k - 1) * SizeOf(mode) \in Nat /\ k * SizeOf(mode) \in Nat
               /\ x <= Len(P) => Block(P, k - 1, SizeOf(mode))[i] = P[x]
<1> DEFINE size == SizeOf(mode)
           x == (k - 1) * size + i
<1>1. size \in Nat /\ k - 1 \in Nat /\ 1 \in Nat /\ (k - 1) + 1 = k
  BY SizeIs
<1>2. (k - 1) * size \in Nat /\ ((k - 1) + 1) * size = (k - 1) * size + 1 * size /\ 1 * size = size
  BY <1>1, Times
<1>3. i \in Nat /\ 1 <= i /\ i <= size
  BY <1>1
<1>4. Block(P, k - 1, size)[i] = ByteAt(P, x)
  BY DEF Block
<1> DEFINE y == (k - 1) * size
           z == k * size
<1>5. y \in Nat /\ z = y + size /\ x = y + i
  BY <1>1, <1>2
<1> HIDE DEF y, z, x, size
<1>6. x \in Nat \ {0} /\ x <= z /\ y < x /\ z \in Nat
  BY <1>1, <1>3, <1>5
<1>7. x <= Len(P) => ByteAt(P, x) = P[x]
  BY <1>6 DEF ByteAt
<1> QED BY <1>4, <1>5, <1>6, <1>7 DEF y, z, x, size

\* If the ciphertext is decrypted with the first state of the encryptor, the states follow those
\* of the encryptor, and the results are the message.
LEMMA Undoing ==
    ASSUME Works("dec"), NEW mode \in AllModes, NEW key \in AKey, NEW P, NEW L, NEW st, NEW ou, NEW R,
           Ideal("enc", st, ou, L, mode, key, P), IsRef(R, ou, L, mode, P),
           mode \in {"ECB", "CBC"} => Len(P) % SizeOf(mode) = 0
    PROVE  \E su, pu : Ideal("dec", su, pu, L, mode, key, R) /\ IsRef(P, pu, L, mode, R) /\ su[0] = st[0]
<1> DEFINE size == SizeOf(mode)
           n == Len(P)
           E(k) == Crypt("enc", mode, key, st[k - 1], Block(P, k - 1, size))
           B(k) == Crypt("dec", mode, key, st[k - 1], ou[k])
<1>1. /\ P \in Seq(Byte) /\ R \in Seq(Byte) /\ Len(R) = n /\ L \in Nat /\ n <= L * size /\ n \in Nat
      /\ \A k \in 0 .. L : st[k] \in StateOf(mode)
      /\ \A k \in 1 .. L : E(k).state = st[k] /\ E(k).block = ou[k]
      /\ \A k \in 1 .. L, i \in 1 .. size : (k - 1) * size + i <= n => R[(k - 1) * size + i] = ou[k][i]
  BY DEF Ideal, IsRef
<1>2. size \in Nat \ {0}
  BY SizeIs
<1>3. PICK su, pu : Ideal("dec", su, pu, L, mode, key, R) /\ su[0] = st[0]
  <2>1. st[0] \in StateOf(mode)
    BY <1>1
  <2>2. "dec" \in Xforms
    BY DEF Xforms
  <2> HIDE DEF n
  <2> QED BY <2>1, <2>2, <1>1, IdealExists
<1>4. \A k \in 1 .. L : /\ Crypt("dec", mode, key, su[k - 1], Block(R, k - 1, size)).state = su[k]
                        /\ Crypt("dec", mode, key, su[k - 1], Block(R, k - 1, size)).block = pu[k]
  BY <1>3 DEF Ideal
<1> HIDE DEF size, n
<1>5. ASSUME NEW k \in 1 .. L
      PROVE  B(k).block = Block(P, k - 1, size) /\ B(k).state = st[k] /\ ou[k] \in BlocksOf(mode)
             /\ st[k - 1] \in StateOf(mode)
  <2> DEFINE b == Block(P, k - 1, size)
             s == st[k - 1]
  <2>1. b \in BlocksOf(mode)
    BY <1>1, BlockTyped DEF size
  <2>2. k - 1 \in 0 .. L
    BY <1>1
  <2>3. s \in StateOf(mode)
    BY <1>1, <2>2
  <2>4. ou[k] = Crypt("enc", mode, key, s, b).block /\ st[k] = Crypt("enc", mode, key, s, b).state
    BY <1>1
  <2> HIDE DEF b, s
  <2>5. CryptBack(mode, key, s, b)
    BY <2>1, <2>3, CryptUndone
  <2>6. ou[k] \in BlocksOf(mode)
    <3>1. "enc" \in Xforms /\ Works("enc")
      BY EncWorks DEF Works
    <3> QED BY <3>1, <2>1, <2>3, <2>4, CryptTyped
  <2> QED BY <2>3, <2>4, <2>5, <2>6 DEF CryptBack, b, s
<1> HIDE DEF E, B
<1>6. ASSUME NEW k \in 1 .. L, k * size <= n PROVE Block(R, k - 1, size) = ou[k]
  <2>1. ASSUME NEW i \in 1 .. size PROVE Block(R, k - 1, size)[i] = ou[k][i]
    <3> DEFINE x == (k - 1) * size + i
    <3>1. /\ x \in Nat /\ x <= k * size /\ k * size \in Nat
          /\ x <= Len(R) => Block(R, k - 1, size)[i] = R[x]
      <4>1. k \in Nat \ {0}
        BY <1>1
      <4> QED BY <4>1, <1>1, BlockAtPlace DEF size
    <3>2. x <= n
      <4> DEFINE z == k * size
      <4>1. x \in Nat /\ x <= z /\ z \in Nat /\ z <= n
        BY <3>1, <1>6
      <4> HIDE DEF x, z
      <4> QED BY <4>1, <1>1
    <3> QED BY <3>1, <3>2, <1>1
  <2>2. Block(R, k - 1, size) = [i \in 1 .. size |-> Block(R, k - 1, size)[i]]
    BY DEF Block
  <2>3. ou[k] = [i \in 1 .. size |-> ou[k][i]]
    <3>1. ou[k] \in [1 .. size -> Byte]
      BY <1>5 DEF BlocksOf, size
    <3> QED BY <3>1
  <2> QED BY <2>1, <2>2, <2>3
<1>7. \A k \in 0 .. L : k * size <= n => su[k] = st[k]
  <2> DEFINE S == {k \in Nat : k <= L /\ k * size <= n => su[k] = st[k]}
  <2>1. 0 \in S
    BY <1>3
  <2>2. ASSUME NEW k \in Nat, k \in S PROVE k + 1 \in S
    <3> SUFFICES ASSUME k + 1 <= L, (k + 1) * size <= n PROVE su[k + 1] = st[k + 1]
      OBVIOUS
    <3>1. k + 1 \in 1 .. L /\ (k + 1) - 1 = k /\ k <= L
      BY <1>1
    <3>2. k * size <= n
      <4>1. (k + 1) * size = k * size + 1 * size /\ 1 * size = size /\ k * size \in Nat
        BY <1>2, Times
      <4> DEFINE y == k * size
                 z == (k + 1) * size
      <4>2. y \in Nat /\ z = y + size /\ z <= n
        BY <4>1
      <4> HIDE DEF y, z
      <4>3. y <= n
        BY <4>2, <1>1, <1>2
      <4> QED BY <4>3 DEF y
    <3>3. su[k] = st[k]
      BY <2>2, <3>1, <3>2
    <3>4. Block(R, k, size) = ou[k + 1]
      BY <3>1, <1>6
    <3>5. su[k + 1] = Crypt("dec", mode, key, su[k], Block(R, k, size)).state
      BY <3>1, <1>4
    <3>6. Crypt("dec", mode, key, st[k], ou[k + 1]).state = st[k + 1]
      BY <3>1, <1>5 DEF B
    <3> QED BY <3>3, <3>4, <3>5, <3>6
  <2> HIDE DEF S
  <2>3. Nat \subseteq S
    BY <2>1, <2>2, SetInduction
  <2> QED BY <2>3, <1>1 DEF S
<1>8. ASSUME NEW k \in 1 .. L, NEW i \in 1 .. size, (k - 1) * size + i <= n
      PROVE  P[(k - 1) * size + i] = pu[k][i]
  <2> DEFINE x == (k - 1) * size + i
  <2>1. /\ x \in Nat \ {0} /\ x <= k * size /\ (k - 1) * size < x /\ (k - 1) * size \in Nat /\ k * size \in Nat
        /\ Block(P, k - 1, size)[i] = P[x] /\ Block(R, k - 1, size)[i] = R[x]
    <3>1. k \in Nat \ {0}
      BY <1>1
    <3>2. n = Len(P) /\ n = Len(R) /\ P \in Seq(Byte) /\ R \in Seq(Byte) /\ x <= n
      BY <1>1, <1>8 DEF n
    <3>3. /\ x \in Nat \ {0} /\ x <= k * size /\ (k - 1) * size < x /\ (k - 1) * size \in Nat
          /\ k * size \in Nat
          /\ x <= Len(P) => Block(P, k - 1, size)[i] = P[x]
          /\ x <= Len(R) => Block(R, k - 1, size)[i] = R[x]
      <4>1. i \in 1 .. SizeOf(mode)
        BY DEF size
      <4>2. P \in Seq(Byte) /\ R \in Seq(Byte) /\ mode \in AllModes
        BY <3>2
      <4> DEFINE z == SizeOf(mode)
                 y == (k - 1) * z + i
      <4>3. /\ y \in Nat \ {0} /\ y <= k * z /\ (k - 1) * z < y /\ (k - 1) * z \in Nat /\ k * z \in Nat
            /\ y <= Len(P) => Block(P, k - 1, z)[i] = P[y]
        BY ONLY <3>1, <4>1, <4>2, BlockAtPlace
      <4>4. /\ y \in Nat \ {0} /\ y <= k * z /\ (k - 1) * z < y /\ (k - 1) * z \in Nat /\ k * z \in Nat
            /\ y <= Len(R) => Block(R, k - 1, z)[i] = R[y]
        BY ONLY <3>1, <4>1, <4>2, BlockAtPlace
      <4> QED BY <4>3, <4>4 DEF size
    <3> HIDE DEF x
    <3> QED BY <3>2, <3>3
  <2>2. (k - 1) * size <= n
    <3> DEFINE y == (k - 1) * size
    <3>1. y \in Nat /\ x \in Nat /\ y < x /\ x <= n
      BY <2>1, <1>8
    <3> HIDE DEF x, y
    <3>2. y <= n
      BY <3>1, <1>1
    <3> QED BY <3>2 DEF y
  <2>3. su[k - 1] = st[k - 1]
    <3>1. k - 1 \in 0 .. L
      BY <1>1
    <3> QED BY <3>1, <2>2, <1>7
  <2>4. pu[k] = Crypt("dec", mode, key, st[k - 1], Block(R, k - 1, size)).block
    BY <1>4, <2>3
  <2>5. Crypt("dec", mode, key, st[k - 1], ou[k]).block[i] = P[x]
    BY <1>5, <2>1 DEF B
  <2>6. CASE k * size <= n
    BY <2>4, <2>5, <2>6, <1>6
  <2>7. CASE ~(k * size <= n)
    <3>1. mode \notin {"ECB", "CBC"}
      <4> SUFFICES ASSUME mode \in {"ECB", "CBC"} PROVE FALSE
        OBVIOUS
      <4> DEFINE m == n \div size
      <4>1. n % size = 0
        BY DEF n, size
      <4>2. m \in Nat /\ m * size + (n % size) = n
        <5>1. n \in Nat /\ size \in Nat /\ size > 0
          BY <1>1, <1>2
        <5> HIDE DEF n, size
        <5> QED BY ONLY <5>1, DivMod
      <4>3. m * size = n
        <5> DEFINE y == m * size
        <5>1. y \in Nat
          BY <4>2, <1>2, Times
        <5>2. y + (n % size) = n
          BY <4>2
        <5> HIDE DEF y
        <5>3. y = n
          BY <4>1, <5>1, <5>2
        <5> QED BY <5>3 DEF y
      <4> HIDE DEF m
      <4>4. (k - 1) * size < m * size
        <5> DEFINE y == (k - 1) * size
        <5>1. y \in Nat /\ x \in Nat /\ y < x /\ x <= n
          BY <2>1, <1>8
        <5> HIDE DEF x, y
        <5>2. y < n
          BY <5>1, <1>1
        <5> QED BY <5>2, <4>3 DEF y
      <4>5. k - 1 \in Nat /\ k \in Nat
        BY <1>1
      <4>6. k - 1 < m
        BY <4>2, <4>4, <4>5, <1>2, FewerBlocks
      <4>7. k <= m
        BY <4>2, <4>5, <4>6
      <4>8. k * size <= m * size
        BY <4>2, <4>5, <4>7, <1>2, Times
      <4> QED BY <4>3, <4>8, <2>7
    <3> DEFINE b == Block(R, k - 1, size)
               s == st[k - 1]
               c == ou[k]
    <3>2. b[i] = c[i]
      BY <2>1, <1>1, <1>8
    <3>3. s \in StateOf(mode) /\ mode \in AllModes \ {"ECB", "CBC"} /\ i \in 1 .. SizeOf(mode)
      BY <3>1, <1>5 DEF size
    <3> HIDE DEF b, s, c
    <3>4. Crypt("dec", mode, key, s, b).block[i] = Crypt("dec", mode, key, s, c).block[i]
      BY ONLY <3>2, <3>3, CryptAgrees
    <3> QED BY <3>4, <2>4, <2>5 DEF b, s, c
  <2> QED BY <2>6, <2>7
<1>9. IsRef(P, pu, L, mode, R)
  BY <1>1, <1>8 DEF IsRef, n, size
<1> QED BY <1>3, <1>9

-----------------------------------------------------------------------------
\* Paddings are found again.

\* The byte that Iso97971 puts behind the message is not 0.
LEMMA MarkIsNotZero == Mark # 0
<1>1. \A a, b \in Nat : a >= 2 /\ b >= 2 => a * b \in Nat /\ a * b >= 2
  <2> SUFFICES ASSUME NEW a \in Nat, NEW b \in Nat, a >= 2, b >= 2 PROVE a * b \in Nat /\ a * b >= 2
    OBVIOUS
  <2>1. 2 * b <= a * b /\ 2 * b \in Nat /\ a * b \in Nat
    BY Times
  <2> DEFINE x == a * b
             y == 2 * b
  <2>2. x \in Nat /\ y \in Nat /\ y <= x /\ y >= 2
    BY <2>1
  <2> HIDE DEF x, y
  <2>3. x >= 2
    BY <2>2
  <2> QED BY <2>1, <2>3 DEF x
<1>2. Quarter \in Nat /\ Quarter >= 2
  BY SizeAssumption
<1>3. Quarter * Quarter \in Nat /\ Quarter * Quarter >= 2
  BY <1>1, <1>2
<1> DEFINE h == Quarter * Quarter
<1> HIDE DEF h
<1>4. h * Quarter \in Nat /\ h * Quarter >= 2
  BY <1>1, <1>2, <1>3 DEF h
<1> DEFINE g == h * Quarter
<1> HIDE DEF g
<1>5. g * Quarter \in Nat /\ g * Quarter >= 2
  BY <1>1, <1>2, <1>4 DEF g
<1>6. Base = g * Quarter
  BY DEF Base, g, h
<1>7. Base \in Nat /\ Base >= 2
  BY <1>5, <1>6
<1> HIDE DEF Base
<1> QED BY <1>7 DEF Mark

Counted == {"Pkcs7", "AnsiX923", "Iso10126"}

\* what is behind the message, in the l bytes of the padding
PadShape(kind, p, l) ==
    /\ l = Len(p) /\ l \in 0 .. BlockBytes
    /\ kind \in Counted => l >= 1 /\ p[l] = l
    /\ kind = "Iso97971" => l >= 1 /\ p[1] = Mark /\ \A i \in 2 .. l : p[i] = 0
    /\ kind = "Zero" => l < BlockBytes /\ \A i \in 1 .. l : p[i] = 0
    /\ kind = "No" => l = 0

\* The paddings have such a shape.
LEMMA PadShapes ==
    ASSUME NEW kind \in Kinds, NEW n \in 1 .. BlockBytes, NEW r \in Seq(Byte), Len(r) >= BlockBytes - 1
    PROVE  LET p == PadBytes(kind, n, r) IN PadShape(kind, p, Len(p))
<1> DEFINE d == BlockBytes
           p == PadBytes(kind, n, r)
<1> SUFFICES PadShape(kind, p, Len(p))
  OBVIOUS
<1>1. d \in Nat \ {0}
  BY BlockSize
<1>2. n \in Nat \ {0} /\ n <= d /\ n - 1 \in Nat
  BY <1>1
<1>3. Zeros(n - 1) = [i \in 1 .. n - 1 |-> 0] /\ Len(Zeros(n - 1)) = n - 1 /\ Zeros(n - 1) \in Seq(Byte)
  BY <1>2, ZerosSeq DEF Zeros
<1> HIDE DEF d
<1>4. ASSUME NEW q \in Seq(Byte), Len(q) = n - 1 PROVE Len(q \o <<n>>) = n /\ (q \o <<n>>)[n] = n
  BY <1>2, <1>4
<1>5. CASE kind = "Pkcs7"
  <2>1. p = [i \in 1 .. n |-> n]
    BY <1>5 DEF PadBytes
  <2>2. Len(p) = n /\ p[n] = n
    BY <2>1, <1>2
  <2> HIDE DEF p
  <2> QED BY <2>2, <1>1, <1>2, <1>5 DEF PadShape, Counted, d
<1>6. CASE kind = "AnsiX923"
  <2>1. p = Zeros(n - 1) \o <<n>>
    BY <1>6 DEF PadBytes
  <2>2. Len(p) = n /\ p[n] = n
    BY <2>1, <1>3, <1>4
  <2> HIDE DEF p
  <2> QED BY <2>2, <1>1, <1>2, <1>6 DEF PadShape, Counted, d
<1>7. CASE kind = "Iso10126"
  <2>1. p = SubSeq(r, 1, n - 1) \o <<n>>
    BY <1>7 DEF PadBytes
  <2>2. SubSeq(r, 1, n - 1) \in Seq(Byte) /\ Len(SubSeq(r, 1, n - 1)) = n - 1
    <3>1. n - 1 <= Len(r)
      BY <1>1, <1>2 DEF d
    <3> QED BY <3>1, <1>2, RandomBytes
  <2>3. Len(p) = n /\ p[n] = n
    BY <2>1, <2>2, <1>4
  <2> HIDE DEF p
  <2> QED BY <2>3, <1>1, <1>2, <1>7 DEF PadShape, Counted, d
<1>8. CASE kind = "Iso97971"
  <2> DEFINE z == Zeros(n - 1)
  <2>1. p = <<Mark>> \o z
    BY <1>8 DEF PadBytes
  <2>2. z \in Seq(Byte) /\ Len(z) = n - 1 /\ \A i \in 1 .. n - 1 : z[i] = 0
    BY <1>3
  <2> HIDE DEF z, p
  <2>3. Len(p) = n /\ p[1] = Mark /\ \A i \in 2 .. n : p[i] = 0
    BY <2>1, <2>2, <1>2
  <2> QED BY <2>3, <1>1, <1>2, <1>8 DEF PadShape, Counted, d
<1>9. CASE kind = "Zero"
  <2>1. p = Zeros(n % d)
    BY <1>9 DEF PadBytes, d
  <2>2. n % d \in Nat /\ n % d < d
    BY <1>1, <1>2, DivMod
  <2> DEFINE m == n % d
  <2>3. Len(p) = m /\ \A i \in 1 .. m : p[i] = 0
    BY <2>1, <2>2 DEF Zeros
  <2> HIDE DEF m, p
  <2>4. m \in Nat /\ m < d
    BY <2>2 DEF m
  <2> QED BY <2>3, <2>4, <1>1, <1>9 DEF PadShape, Counted, d
<1>10. CASE kind = "No"
  <2>1. p = << >>
    BY <1>10 DEF PadBytes
  <2> HIDE DEF p
  <2> QED BY <2>1, <1>1, <1>10 DEF PadShape, Counted, d
<1> QED BY <1>5, <1>6, <1>7, <1>8, <1>9, <1>10 DEF Kinds

\* The last byte that is not 0 is found.
LEMMA LastFound ==
    ASSUME NEW u, u.sigBytes \in Nat, NEW x \in 1 .. u.sigBytes, ByteAt(u.words, x) # 0,
           \A i \in x + 1 .. u.sigBytes : ByteAt(u.words, i) = 0
    PROVE  ZeroUnpad(u) = [u EXCEPT !.sigBytes = x]
<1> DEFINE s == u.sigBytes
           IsLast(i) == ByteAt(u.words, i) # 0 /\ \A j \in i + 1 .. s : ByteAt(u.words, j) = 0
           c == CHOOSE i \in 1 .. s : IsLast(i)
<1>1. IsLast(x)
  OBVIOUS
<1>2. ASSUME NEW i \in 1 .. s, IsLast(i) PROVE i = x
  <2>1. ~(i < x)
    BY <1>2
  <2>2. ~(x < i)
    BY <1>2
  <2> QED BY <2>1, <2>2
<1>3. ZeroUnpad(u) = [u EXCEPT !.sigBytes = c]
  BY DEF ZeroUnpad
<1> HIDE DEF IsLast
<1>4. c \in 1 .. s /\ IsLast(c)
  BY <1>1
<1>5. c = x
  BY <1>2, <1>4
<1> QED BY <1>3, <1>5

\* What is kept of a word array of which fewer bytes are significant.
LEMMA KeepsFewer ==
    ASSUME NEW u, NEW P, NEW m \in Nat, NEW e \in Nat, NEW l \in Nat, m <= l, l <= e, Keeps(u, P, m, e),
           NEW v, v.words = u.words, v.sigBytes = l - m
    PROVE  Keeps(v, P, m, l)
<1>1. u.words \in Seq(Byte) /\ \A i \in 1 .. e - m : ByteAt(u.words, i) = P[m + i]
  BY DEF Keeps
<1>2. \A i \in 1 .. l - m : i \in 1 .. e - m
  OBVIOUS
<1> QED BY <1>1, <1>2 DEF Keeps

\* P is t with l bytes of padding behind it
IsPadded(P, kind, t, p, l) ==
    /\ P \in Seq(Byte) /\ Len(P) = Len(t) + l /\ PadShape(kind, p, l)
    /\ \A i \in 1 .. Len(t) : P[i] = t[i]
    /\ \A i \in 1 .. l : P[Len(t) + i] = p[i]

\* What the padded text is made of.
LEMMA PaddedHasShape ==
    ASSUME NEW kind \in Kinds, NEW t \in Seq(Byte), NEW r \in Seq(Byte), Len(r) >= BlockBytes - 1
    PROVE  \E p, l : IsPadded(PaddedText(kind, t, r), kind, t, p, l)
<1> DEFINE n == Missing(Create(t))
           p == PadBytes(kind, n, r)
           P == PaddedText(kind, t, r)
<1>1. IsWords(Create(t))
  BY CreateWords
<1>2. n \in 1 .. BlockBytes
  BY <1>1, MissingIs
<1>3. P = t \o p
  BY PaddedTextIs
<1>4. p \in Seq(Byte)
  BY <1>1, PadJoins
<1> HIDE DEF n, P
<1>5. PadShape(kind, p, Len(p))
  BY <1>2, PadShapes
<1> HIDE DEF p
<1>6. /\ t \o p \in Seq(Byte) /\ Len(t \o p) = Len(t) + Len(p)
      /\ \A i \in 1 .. Len(t) : (t \o p)[i] = t[i]
      /\ \A i \in 1 .. Len(p) : (t \o p)[Len(t) + i] = p[i]
  BY <1>4, ConcatAt, TwoLong
<1>7. IsPadded(P, kind, t, p, Len(p))
  BY <1>3, <1>5, <1>6 DEF IsPadded
<1> QED BY <1>7 DEF P

\* a word array, and nothing else
WordArray(u) == u = [words |-> u.words, sigBytes |-> u.sigBytes]

\* What a word array is of which another number of bytes is significant.
LEMMA OtherCount ==
    ASSUME NEW u, WordArray(u), NEW x
    PROVE  LET v == [u EXCEPT !.sigBytes = x] IN v.words = u.words /\ v.sigBytes = x /\ WordArray(v)
<1>1. [u EXCEPT !.sigBytes = x] = [words |-> u.words, sigBytes |-> x]
  BY DEF WordArray
<1> QED BY <1>1 DEF WordArray

\* What is decrypted last is more than the padding, or everything: the padding is taken off it.
LEMMA UnpadKeeps ==
    ASSUME NEW kind \in Kinds, NEW t \in Seq(Byte), kind = "Zero" => t # << >> /\ t[Len(t)] # 0,
           NEW P, NEW p, NEW l, IsPadded(P, kind, t, p, l), NEW u, WordArray(u),
           NEW m \in Nat, m <= Len(P), m = 0 \/ m + BlockBytes <= Len(P), Keeps(u, P, m, Len(P))
    PROVE  m <= Len(t) /\ Keeps(unpad(kind, u), P, m, Len(t))
<1> DEFINE n == Len(t)
           s == u.sigBytes
           d == BlockBytes
<1>1. n \in Nat /\ d \in Nat \ {0} /\ l \in Nat /\ l <= d /\ Len(P) = n + l
  BY BlockSize DEF IsPadded, PadShape
<1> HIDE DEF n, d
<1>2. m <= n
  BY <1>1 DEF d
<1>3. u.words \in Seq(Byte) /\ s = (n + l) - m /\ \A i \in 1 .. (n + l) - m : ByteAt(u.words, i) = P[m + i]
  BY <1>1 DEF Keeps
<1>4. s \in Nat
  BY <1>1, <1>2, <1>3
<1> HIDE DEF s
<1>5. \A v : v.words = u.words /\ v.sigBytes = n - m => Keeps(v, P, m, n)
  BY <1>1, <1>2, KeepsFewer
\* the bytes behind the message
<1>6. ASSUME NEW i \in 1 .. l PROVE ByteAt(u.words, (n - m) + i) = p[i] /\ (n - m) + i \in 1 .. s
  <2>1. (n - m) + i \in 1 .. (n + l) - m /\ m + ((n - m) + i) = n + i
    BY <1>1, <1>2
  <2>2. P[n + i] = p[i]
    BY DEF IsPadded, n
  <2> QED BY <2>1, <2>2, <1>3
<1>7. CASE kind \in Counted
  <2>1. l >= 1 /\ p[l] = l
    BY <1>7 DEF IsPadded, PadShape
  <2>2. l \in 1 .. l /\ (n - m) + l = s /\ s - l = n - m
    BY <2>1, <1>1, <1>2, <1>3
  <2>3. ByteAt(u.words, s) = l
    BY <2>1, <2>2, <1>6
  <2>4. unpad(kind, u) = [u EXCEPT !.sigBytes = s - l]
    <3>1. unpad(kind, u) = CountUnpad(u)
      BY <1>7 DEF unpad, Counted
    <3> QED BY <3>1, <2>3 DEF CountUnpad, s
  <2> DEFINE v == unpad(kind, u)
  <2>5. v.words = u.words /\ v.sigBytes = n - m
    BY <2>2, <2>4, OtherCount
  <2> HIDE DEF v
  <2> QED BY <2>5, <1>2, <1>5 DEF v, n
<1>8. CASE kind = "Iso97971"
  <2> DEFINE x == (n - m) + 1
             w == [u EXCEPT !.sigBytes = x]
             v == [w EXCEPT !.sigBytes = @ - 1]
  <2>1. l >= 1 /\ p[1] = Mark /\ \A i \in 2 .. l : p[i] = 0
    BY <1>8 DEF IsPadded, PadShape
  <2>2. 1 \in 1 .. l
    BY <2>1, <1>1
  <2>3. ByteAt(u.words, x) # 0 /\ x \in 1 .. s /\ x - 1 = n - m
    BY <2>1, <2>2, <1>1, <1>2, <1>6, MarkIsNotZero
  <2>4. ASSUME NEW i \in x + 1 .. s PROVE ByteAt(u.words, i) = 0
    <3> DEFINE k == i - (n - m)
    <3>1. k \in 2 .. l /\ k \in 1 .. l /\ (n - m) + k = i
      BY <1>1, <1>2, <1>3
    <3> HIDE DEF k
    <3> QED BY <3>1, <2>1, <1>6
  <2> HIDE DEF x
  <2>5. ZeroUnpad(u) = w
    BY <2>3, <2>4, <1>4, LastFound DEF s
  <2>6. unpad(kind, u) = v
    BY <2>5, <1>8 DEF unpad, Iso97971Unpad
  <2>7. w.words = u.words /\ w.sigBytes = x /\ WordArray(w)
    BY OtherCount
  <2> HIDE DEF w
  <2>8. v.words = u.words /\ v.sigBytes = n - m
    BY <2>3, <2>7, OtherCount
  <2> HIDE DEF v
  <2> QED BY <2>6, <2>8, <1>2, <1>5 DEF n
<1>9. CASE kind = "Zero"
  <2> DEFINE x == n - m
             w == [u EXCEPT !.sigBytes = x]
  <2>1. l < d /\ \A i \in 1 .. l : p[i] = 0
    BY <1>9 DEF IsPadded, PadShape, d
  <2>2. n >= 1 /\ t[n] # 0
    BY <1>9, <1>1 DEF n
  <2>3. x \in 1 .. s /\ x \in 1 .. (n + l) - m /\ m + x = n
    BY <2>1, <2>2, <1>1, <1>2, <1>3 DEF d
  <2>4. ByteAt(u.words, x) # 0
    <3>1. P[n] = t[n]
      BY <2>2, <1>1 DEF IsPadded, n
    <3> QED BY <3>1, <2>2, <2>3, <1>3
  <2>5. ASSUME NEW i \in x + 1 .. s PROVE ByteAt(u.words, i) = 0
    <3> DEFINE k == i - (n - m)
    <3>1. k \in 1 .. l /\ (n - m) + k = i
      BY <1>1, <1>2, <1>3
    <3> HIDE DEF k
    <3> QED BY <3>1, <2>1, <1>6
  <2>6. ZeroUnpad(u) = w
    <3> HIDE DEF x
    <3> QED BY <2>3, <2>4, <2>5, <1>4, LastFound DEF s
  <2>7. unpad(kind, u) = w
    BY <2>6, <1>9 DEF unpad
  <2>8. w.words = u.words /\ w.sigBytes = x
    BY OtherCount
  <2> HIDE DEF w
  <2> QED BY <2>7, <2>8, <1>2, <1>5 DEF n
<1>10. CASE kind = "No"
  <2>1. unpad(kind, u) = u /\ l = 0
    BY <1>10 DEF unpad, IsPadded, PadShape
  <2>2. u.sigBytes = n - m
    BY <2>1, <1>1, <1>2, <1>3 DEF s
  <2> QED BY <2>1, <2>2, <1>2, <1>5 DEF n
<1> QED BY <1>7, <1>8, <1>9, <1>10 DEF Kinds, Counted

-----------------------------------------------------------------------------
\* The decryptor that gets a ciphertext in pieces.

\* the decryptor of a job
DecryptorOf(o, j, d) == IsCipher("dec", o, j.mode, j.pad, KeyOf(j, d), IvOf(j, d))
\* the blocks of the message, and the states between them
Opening(st, ou, L, j, d) ==
    /\ Ideal("dec", st, ou, L, j.mode, KeyOf(j, d), RefOf(j, d)) /\ st[0] = FirstOf(j, d)
    /\ IsRef(WholeOf(j), ou, L, j.mode, RefOf(j, d))
\* a block is kept back, if the mode needs it
KeptBack(mode) == Kept(Back("dec", mode), SizeOf(mode))
IsBehind(q, mode, e) == q = 0 \/ q * SizeOf(mode) + KeptBack(mode) <= e
\* it has taken the first e bytes, and w is what it has put out
HasOpened(o, w, st, j, d, e) ==
    \E q \in Nat : /\ HasTaken(o, st, RefOf(j, d), q, e) /\ IsBehind(q, j.mode, e)
                   /\ e - q * SizeOf(j.mode) < SizeOf(j.mode) + KeptBack(j.mode)
                   /\ Keeps(w, WholeOf(j), 0, q * SizeOf(j.mode))

\* What is left to whoever calls.
LEMMA CipherCaller ==
    ASSUME NEW j \in Jobs, j.use = "cipher"
    PROVE  /\ j.pad = "Zero" /\ j.mode # "RC4" => j.text # << >> /\ j.text[Len(j.text)] # 0
           /\ j.iv = << >> => j.format = "OpenSSL"
  BY CallerAssumption

\* Every ciphertext by the textbook has the message it is of.
LEMMA OpeningExists ==
    ASSUME Works("dec"), NEW j \in Jobs, j.use = "cipher", NEW d, Fits(j, d)
    PROVE  /\ \E st, ou, L : Opening(st, ou, L, j, d)
           /\ RefOf(j, d) \in Seq(Byte) /\ Len(RefOf(j, d)) = Len(WholeOf(j))
<1> DEFINE mode == j.mode
           key == KeyOf(j, d)
           P == WholeOf(j)
           R == RefOf(j, d)
<1>1. EncryptsBlocks
  BY DEF Works
<1>2. PICK st, ou, L : Sealing(st, ou, L, j, d)
  BY <1>1, SealingExists
<1>3. mode \in AllModes /\ key \in AKey /\ (mode \in {"ECB", "CBC"} => Len(P) % SizeOf(mode) = 0)
  BY KeysFit, CipherJob, WholeFits
<1>4. Ideal("enc", st, ou, L, mode, key, P) /\ IsRef(R, ou, L, mode, P) /\ st[0] = FirstOf(j, d)
  BY <1>2 DEF Sealing
<1> HIDE DEF mode, key, P, R
<1>5. PICK su, pu : Ideal("dec", su, pu, L, mode, key, R) /\ IsRef(P, pu, L, mode, R) /\ su[0] = st[0]
  BY <1>3, <1>4, Undoing
<1>6. Opening(su, pu, L, j, d)
  BY <1>4, <1>5 DEF Opening, mode, key, P, R
<1>7. R \in Seq(Byte) /\ Len(R) = Len(P)
  BY <1>4 DEF IsRef
<1> QED BY <1>6, <1>7 DEF P, R

\* A fresh cipher object has put out nothing.
LEMMA OpensNothing ==
    ASSUME NEW j \in Jobs, j.use = "cipher", NEW d, NEW st, NEW ou, NEW L, Opening(st, ou, L, j, d),
           Len(RefOf(j, d)) \in Nat, NEW o, DecryptorOf(o, j, d), o.data = Create(<< >>), o.reg = FirstOf(j, d)
    PROVE  HasOpened(o, Nothing, st, j, d, 0)
<1> DEFINE size == SizeOf(j.mode)
<1>1. size \in Nat \ {0} /\ 0 * size = 0
  BY SizeIs
<1>2. o.mode = j.mode
  BY CipherFields DEF DecryptorOf
<1>3. ASSUME NEW t PROVE Keeps(Create(<< >>), t, 0, 0)
  <2>1. << >> \in Seq(Byte) /\ Len(<< >>) = 0
    OBVIOUS
  <2>2. Create(<< >>).words \in Seq(Byte) /\ Create(<< >>).sigBytes = 0
    BY <2>1, CreateWords DEF IsWords
  <2> QED BY <2>2 DEF Keeps
<1>4. st[0] = FirstOf(j, d)
  BY DEF Opening
<1>5. KeptBack(j.mode) \in Nat
  BY <1>1 DEF KeptBack, Kept
<1> HIDE DEF size
<1>6. HasTaken(o, st, RefOf(j, d), 0, 0)
  BY <1>1, <1>2, <1>3, <1>4 DEF HasTaken, size
<1>7. 0 - 0 * size < size + KeptBack(j.mode) /\ Keeps(Nothing, WholeOf(j), 0, 0 * size)
  BY <1>1, <1>3, <1>5 DEF Nothing
<1>8. IsBehind(0, j.mode, 0)
  BY DEF IsBehind
<1> QED BY <1>6, <1>7, <1>8 DEF HasOpened, size

\* What is kept back is enough for the padding: what has been put out is of the message itself.
LEMMA StaysWithin ==
    ASSUME NEW j \in Jobs, j.use = "cipher", NEW q \in Nat, NEW e \in Nat, e <= Len(WholeOf(j)),
           IsBehind(q, j.mode, e), q * SizeOf(j.mode) <= e
    PROVE  q * SizeOf(j.mode) <= Len(j.text)
<1> DEFINE m == q * SizeOf(j.mode)
           n == Len(j.text)
<1>1. n \in Nat /\ m \in Nat /\ 0 * SizeOf(j.mode) = 0
  BY CipherJob, SizeIs, Times
<1>2. CASE j.mode = "RC4"
  <2>1. e <= n
    BY <1>2 DEF WholeOf
  <2> HIDE DEF m, n
  <2>2. m <= n
    BY <2>1, <1>1 DEF m
  <2> QED BY <2>2 DEF m, n
<1>3. CASE j.mode # "RC4"
  <2>1. WholeOf(j) = PaddedText(j.pad, j.text, j.random)
    BY <1>3 DEF WholeOf
  <2>2. PICK p, l : IsPadded(WholeOf(j), j.pad, j.text, p, l)
    BY <2>1, CipherJob, PaddedHasShape
  <2>3. Len(WholeOf(j)) = n + l /\ l \in Nat /\ l <= BlockBytes /\ BlockBytes \in Nat
    BY <2>2, BlockSize DEF IsPadded, PadShape
  <2>4. KeptBack(j.mode) = BlockBytes
    BY <1>3 DEF KeptBack, Kept, Back, SizeOf
  <2>5. m = 0 \/ m + BlockBytes <= e
    BY <2>4, <1>1 DEF IsBehind
  <2> HIDE DEF m, n
  <2>6. m <= n
    BY <2>3, <2>5, <1>1
  <2> QED BY <2>6 DEF m, n
<1> QED BY <1>2, <1>3

\* The message and what is encrypted agree as far as the message goes.
LEMMA KeepsText ==
    ASSUME NEW j \in Jobs, j.use = "cipher", NEW w, NEW e \in Nat, e <= Len(j.text), Keeps(w, WholeOf(j), 0, e)
    PROVE  Keeps(w, j.text, 0, e)
<1>1. Len(j.text) \in Nat /\ \A i \in 1 .. Len(j.text) : WholeOf(j)[i] = j.text[i]
  BY CipherJob, WholeFits
<1>2. w.words \in Seq(Byte) /\ w.sigBytes = e - 0 /\ \A i \in 1 .. e - 0 : ByteAt(w.words, i) = WholeOf(j)[0 + i]
  BY DEF Keeps
<1>3. ASSUME NEW i \in 1 .. e - 0 PROVE ByteAt(w.words, i) = j.text[0 + i]
  <2>1. 0 + i = i /\ i \in 1 .. Len(j.text)
    BY <1>1
  <2> QED BY <2>1, <1>1, <1>2
<1> QED BY <1>2, <1>3 DEF Keeps

\* What keeps more has what keeps less for a prefix.
LEMMA KeepsGrows ==
    ASSUME NEW P, NEW w, NEW v, NEW a \in Nat, NEW b \in Nat, a <= b, Keeps(w, P, 0, a), Keeps(v, P, 0, b)
    PROVE  IsPrefix(Bytes(w), Bytes(v))
<1> DEFINE t == Bytes(v)
<1>1. /\ v.words \in Seq(Byte) /\ v.sigBytes = b /\ \A i \in 1 .. b : ByteAt(v.words, i) = P[i]
      /\ w.words \in Seq(Byte) /\ w.sigBytes = a /\ \A i \in 1 .. a : ByteAt(w.words, i) = P[i]
  BY DEF Keeps
<1>2. t = [i \in 1 .. b |-> ByteAt(v.words, i)]
  BY <1>1 DEF Bytes
<1>3. \A i \in 1 .. b : ByteAt(v.words, i) \in Byte
  BY <1>1, ByteInByte
<1>4. t \in Seq(Byte) /\ Len(t) = b
  BY <1>2, <1>3
<1>5. ASSUME NEW i \in 1 .. a PROVE ByteAt(w.words, i) = t[i]
  BY <1>1, <1>2
<1> HIDE DEF t
<1>6. a \in 0 .. Len(t)
  BY <1>4
<1>7. Keeps(w, t, 0, a)
  BY <1>1, <1>5 DEF Keeps
<1>8. IsPrefix(Bytes(w), t)
  BY <1>4, <1>6, <1>7, KeepsPrefix
<1> QED BY <1>8 DEF t

\* p is what a decryptor gives that has taken the first f bytes, where w was put out before
OpensMore(p, w, st, j, d, f) ==
    /\ DecryptorOf(p.o, j, d) /\ HasOpened(p.o, concat(w, p.out), st, j, d, f)
    /\ IsPrefix(Bytes(w), Bytes(concat(w, p.out))) /\ IsPrefix(Bytes(concat(w, p.out)), j.text)

\* A piece more is taken: the whole blocks are put out, but for the one that is kept back.
LEMMA OpensPiece ==
    ASSUME Works("dec"), NEW j \in Jobs, j.use = "cipher", NEW d, Fits(j, d),
           NEW st, NEW ou, NEW L, Opening(st, ou, L, j, d),
           NEW o, DecryptorOf(o, j, d), NEW w, NEW e \in Nat, HasOpened(o, w, st, j, d, e),
           NEW f \in Nat, e <= f, f <= Len(RefOf(j, d)), NEW x, Keeps(x, RefOf(j, d), e, f)
    PROVE  OpensMore(cipherProcess(o, x), w, st, j, d, f)
<1> DEFINE mode == j.mode
           padding == j.pad
           size == SizeOf(mode)
           P == WholeOf(j)
           R == RefOf(j, d)
           a == [o EXCEPT !.data = concat(o.data, x)]
           p == process(a, FALSE)
           key == KeyOf(j, d)
           iv == IvOf(j, d)
           back == KeptBack(mode)
<1>1. cipherProcess(o, x) = p
  BY DEF cipherProcess
<1>2. PICK q \in Nat : HasTaken(o, st, R, q, e) /\ IsBehind(q, mode, e) /\ Keeps(w, P, 0, q * size)
  BY DEF HasOpened
<1>3. IsCipher("dec", o, mode, padding, key, iv)
  BY DEF DecryptorOf
<1>4. Len(P) \in Nat /\ R \in Seq(Byte) /\ Len(R) = Len(P)
  BY WholeFits, OpeningExists
<1>5. /\ Ideal("dec", st, ou, L, mode, key, R) /\ IsRef(P, ou, L, mode, R)
      /\ key \in AKey /\ mode \in AllModes /\ f <= Len(R) /\ Keeps(x, R, e, f)
  BY KeysFit, CipherJob DEF Opening
<1> HIDE DEF P, R, key, iv, mode, padding
<1>6. IsCipher("dec", a, mode, padding, key, iv)
  BY <1>3, CipherTakes
<1>7. HasTaken(a, st, R, q, f)
  BY <1>2, <1>3, <1>5, TakesMore
<1> HIDE DEF a
<1>8. PICK m \in Nat : WholePutOut("dec", p, st, R, P, mode, padding, key, iv, q, m, f)
  <2>1. "dec" \in Xforms
    BY DEF Xforms
  <2> QED BY <2>1, <1>5, <1>6, <1>7, ProcessWhole
<1> HIDE DEF p
<1>9. /\ IsCipher("dec", p.o, mode, padding, key, iv) /\ HasTaken(p.o, st, R, m, f)
      /\ f - m * size < size + back /\ (m = q \/ m * size + back <= f)
      /\ q * size <= m * size /\ Keeps(p.out, P, q * size, m * size)
  BY <1>8 DEF WholePutOut, KeptBack
<1>10. size \in Nat /\ q * size \in Nat /\ m * size \in Nat /\ back \in Nat
  <2>1. size \in Nat
    BY SizeIs
  <2> QED BY <2>1, Times DEF KeptBack, Kept
<1>11. p.o.mode = mode /\ m * size <= f
  <2>1. p.o.mode = mode
    BY <1>9, CipherFields
  <2> QED BY <2>1, <1>9 DEF HasTaken
<1> DEFINE y == q * size
           z == m * size
           v == concat(w, p.out)
<1>12. y \in Nat /\ z \in Nat /\ 0 \in Nat /\ 0 <= y /\ y <= z
  BY <1>9, <1>10
<1>13. Keeps(v, P, 0, z)
  <2>1. Keeps(w, P, 0, y) /\ Keeps(p.out, P, y, z)
    BY <1>2, <1>9
  <2> HIDE DEF y, z
  <2> QED BY <2>1, <1>12, ConcatKeeps
<1>14. IsBehind(m, mode, f)
  <2>1. CASE m = q
    <3>1. y = 0 \/ y + back <= e
      <4>1. 0 * size = 0
        BY <1>10
      <4> QED BY <4>1, <1>2 DEF IsBehind
    <3>2. CASE q = 0
      BY <3>2, <2>1 DEF IsBehind
    <3>3. CASE y + back <= e
      <4> HIDE DEF y
      <4>1. y + back <= f
        BY <3>3, <1>10, <1>12
      <4> QED BY <4>1, <2>1 DEF IsBehind, y
    <3> QED BY <3>2, <3>3, <1>2 DEF IsBehind
  <2>2. CASE m * size + back <= f
    BY <2>2 DEF IsBehind
  <2> QED BY <2>1, <2>2, <1>9
<1> HIDE DEF v
<1>15. HasOpened(p.o, v, st, j, d, f)
  BY <1>9, <1>13, <1>14 DEF HasOpened, P, R, mode
<1>16. IsPrefix(Bytes(w), Bytes(v))
  <2>1. Keeps(w, P, 0, y)
    BY <1>2
  <2> HIDE DEF y, z
  <2> QED BY <2>1, <1>12, <1>13, KeepsGrows
<1>17. IsPrefix(Bytes(v), j.text)
  <2>1. z <= Len(j.text)
    <3>1. f <= Len(WholeOf(j)) /\ m * SizeOf(j.mode) <= f /\ IsBehind(m, j.mode, f)
      BY <1>4, <1>5, <1>11, <1>14 DEF P, mode
    <3>2. m * SizeOf(j.mode) <= Len(j.text)
      BY <3>1, StaysWithin
    <3> QED BY <3>2 DEF mode
  <2>2. Keeps(v, WholeOf(j), 0, z)
    BY <1>13 DEF P
  <2> HIDE DEF z, y
  <2>3. Keeps(v, j.text, 0, z)
    BY <2>1, <2>2, <1>12, KeepsText
  <2>4. j.text \in Seq(Byte) /\ Len(j.text) \in Nat
    BY CipherJob
  <2>5. z \in 0 .. Len(j.text)
    BY <2>1, <2>4, <1>12
  <2> QED BY <2>3, <2>4, <2>5, KeepsPrefix
<1>18. DecryptorOf(p.o, j, d)
  BY <1>9 DEF DecryptorOf, mode, padding, key, iv
<1> QED BY <1>1, <1>15, <1>16, <1>17, <1>18 DEF OpensMore, v

\* f is what a decryptor gives at the end, where w was put out before
AllOpened(f, w, j, d) ==
    DecryptorOf(f.o, j, d) /\ IsWords(f.o.data) /\ Keeps(concat(w, f.out), j.text, 0, Len(j.text))

\* What process returns.
LEMMA ProcessGives ==
    ASSUME NEW o, NEW flush
    PROVE  LET p == process(o, flush) IN p = [o |-> p.o, out |-> p.out] /\ WordArray(p.out)
<1> DEFINE t == Taken(o.data, Size(o), keepBack(o), flush)
<1>1. \E y, z, s : process(o, flush) = [o |-> y, out |-> [words |-> z, sigBytes |-> s]]
  BY DEF process
<1> QED BY <1>1 DEF WordArray

\* What a decryptor does at the end.
LEMMA FinalizeOpens ==
    ASSUME NEW o, o.xform = "dec", NEW x, NEW r
    PROVE  LET p == process([o EXCEPT !.data = concat(o.data, x)], TRUE)
               f == cipherFinalize(o, x, r)
           IN  f.o = p.o /\ f.out = IF IsStream(o) THEN p.out ELSE unpad(o.padding, p.out)
<1> DEFINE a == [o EXCEPT !.data = concat(o.data, x)]
           p == process(a, TRUE)
<1>1. cipherFinalize(o, x, r) = IF IsStream(o) THEN p ELSE [p EXCEPT !.out = unpad(o.padding, @)]
  BY DEF cipherFinalize
<1>2. p = [o |-> p.o, out |-> p.out]
  BY ProcessGives
<1> HIDE DEF p
<1>3. [p EXCEPT !.out = unpad(o.padding, @)] = [o |-> p.o, out |-> unpad(o.padding, p.out)]
  BY <1>2
<1> QED BY <1>1, <1>3 DEF p

\* The rest is taken: what has been put out is the message.
LEMMA OpensRest ==
    ASSUME Works("dec"), NEW j \in Jobs, j.use = "cipher", NEW d, Fits(j, d),
           NEW st, NEW ou, NEW L, Opening(st, ou, L, j, d),
           NEW o, DecryptorOf(o, j, d), NEW w, NEW e \in Nat, HasOpened(o, w, st, j, d, e),
           e <= Len(RefOf(j, d)), NEW x, Keeps(x, RefOf(j, d), e, Len(RefOf(j, d)))
    PROVE  AllOpened(cipherFinalize(o, x, j.random), w, j, d)
<1> DEFINE mode == j.mode
           padding == j.pad
           size == SizeOf(mode)
           P == WholeOf(j)
           R == RefOf(j, d)
           g == Len(R)
           a == [o EXCEPT !.data = concat(o.data, x)]
           p == process(a, TRUE)
           key == KeyOf(j, d)
           iv == IvOf(j, d)
           f == cipherFinalize(o, x, j.random)
           n == Len(j.text)
<1>1. PICK q \in Nat : HasTaken(o, st, R, q, e) /\ IsBehind(q, mode, e) /\ Keeps(w, P, 0, q * size)
  BY DEF HasOpened
<1>2. IsCipher("dec", o, mode, padding, key, iv)
  BY DEF DecryptorOf
<1>3. o.xform = "dec" /\ o.mode = mode /\ o.padding = padding
  BY <1>2, CipherFields
<1>4. Len(P) \in Nat /\ R \in Seq(Byte) /\ g = Len(P) /\ e <= g /\ Keeps(x, R, e, g)
  BY WholeFits, OpeningExists
<1>5. /\ Ideal("dec", st, ou, L, mode, key, R) /\ IsRef(P, ou, L, mode, R)
      /\ key \in AKey /\ mode \in AllModes
      /\ mode \in {"ECB", "CBC"} => g % size = 0
  BY <1>4, KeysFit, CipherJob, WholeFits DEF Opening
<1>6. f.o = p.o /\ f.out = IF mode = "RC4" THEN p.out ELSE unpad(padding, p.out)
  <2> DEFINE r == j.random
             z == process([o EXCEPT !.data = concat(o.data, x)], TRUE)
  <2> HIDE DEF r
  <2>1. LET h == cipherFinalize(o, x, r)
        IN  h.o = z.o /\ h.out = IF IsStream(o) THEN z.out ELSE unpad(o.padding, z.out)
    BY <1>3, FinalizeOpens
  <2>2. IsStream(o) <=> mode = "RC4"
    BY <1>3 DEF IsStream
  <2> HIDE DEF z, mode, padding
  <2>3. LET h == cipherFinalize(o, x, r)
        IN  h.o = z.o /\ h.out = IF mode = "RC4" THEN z.out ELSE unpad(padding, z.out)
    BY <2>1, <2>2, <1>3
  <2> QED BY <2>3 DEF z, r
<1>7. WordArray(p.out)
  BY ProcessGives
<1> HIDE DEF P, R, key, iv, mode, padding, f
<1>8. IsCipher("dec", a, mode, padding, key, iv)
  BY <1>2, CipherTakes
<1>9. HasTaken(a, st, R, q, g)
  <2>1. g \in Nat /\ g <= Len(R)
    BY <1>4
  <2> HIDE DEF g
  <2> QED BY <2>1, <1>1, <1>2, <1>4, TakesMore
<1> HIDE DEF a
<1>10. IsCipher("dec", p.o, mode, padding, key, iv) /\ Keeps(p.out, P, q * size, g)
  <2>1. "dec" \in Xforms
    BY DEF Xforms
  <2> QED BY <2>1, <1>5, <1>8, <1>9, ProcessAll
<1>10a. IsWords(p.o.data)
  <2>1. IsWords(a.data) /\ "dec" \in Xforms
    BY <1>9, TakenIsWords DEF Xforms
  <2> QED BY <1>8, <2>1, ProcessIsWords
<1> HIDE DEF p
<1> DEFINE y == q * size
<1>11. y \in Nat /\ y <= g /\ n \in Nat /\ 0 \in Nat /\ 0 <= y
  <2>1. size \in Nat /\ a.mode = mode
    BY <1>8, SizeIs, CipherFields
  <2>2. y \in Nat
    BY <2>1, Times
  <2>3. y <= g
    BY <2>1, <1>9 DEF HasTaken
  <2>4. n \in Nat
    BY CipherJob
  <2> HIDE DEF y
  <2> QED BY <2>2, <2>3, <2>4
<1>12. y <= n
  <2>1. e <= Len(WholeOf(j)) /\ IsBehind(q, j.mode, e)
    BY <1>1, <1>4 DEF P, mode
  <2>2. q * SizeOf(j.mode) <= e
    BY <1>1, <1>3 DEF HasTaken, mode
  <2>3. q * SizeOf(j.mode) <= Len(j.text)
    BY <2>1, <2>2, StaysWithin
  <2> QED BY <2>3 DEF mode
<1>13. Keeps(f.out, P, y, n)
  <2>1. CASE mode = "RC4"
    <3>1. g = n
      BY <2>1, <1>4 DEF P, WholeOf, mode
    <3> QED BY <3>1, <2>1, <1>6, <1>10
  <2>2. CASE mode # "RC4"
    <3>1. P = PaddedText(j.pad, j.text, j.random) /\ size = BlockBytes
      BY <2>2 DEF P, WholeOf, mode, SizeOf
    <3>2. PICK t, l : IsPadded(P, j.pad, j.text, t, l)
      BY <3>1, CipherJob, PaddedHasShape
    <3>3. y = 0 \/ y + BlockBytes <= Len(P)
      <4>1. KeptBack(mode) = BlockBytes
        BY <2>2 DEF KeptBack, Kept, Back, SizeOf
      <4>2. 0 * size = 0 /\ BlockBytes \in Nat
        BY <3>1, BlockSize
      <4>3. y = 0 \/ y + BlockBytes <= e
        BY <4>1, <4>2, <1>1 DEF IsBehind
      <4> HIDE DEF y, g
      <4> QED BY <4>2, <4>3, <1>4, <1>11
    <3>4. /\ j.pad \in Kinds /\ j.text \in Seq(Byte)
          /\ j.pad = "Zero" => j.text # << >> /\ j.text[Len(j.text)] # 0
      BY <2>2, CipherJob, CipherCaller DEF mode
    <3> DEFINE u == p.out
    <3>5. Keeps(u, P, y, Len(P)) /\ y <= Len(P)
      BY <1>4, <1>10, <1>11
    <3>6. WordArray(u)
      BY <1>7
    <3> HIDE DEF u, y, n
    <3>7. Keeps(unpad(j.pad, u), P, y, Len(j.text))
      BY <3>2, <3>3, <3>4, <3>5, <3>6, <1>11, UnpadKeeps
    <3> QED BY <3>7, <2>2, <1>6 DEF u, padding, n
  <2> QED BY <2>1, <2>2
<1> DEFINE v == concat(w, f.out)
<1>14. Keeps(v, P, 0, n)
  <2>1. Keeps(w, P, 0, y)
    BY <1>1
  <2> HIDE DEF y, n
  <2> QED BY <2>1, <1>11, <1>12, <1>13, ConcatKeeps
<1> HIDE DEF v
<1>15. Keeps(v, j.text, 0, n)
  <2>1. n <= Len(j.text) /\ Keeps(v, WholeOf(j), 0, n)
    BY <1>11, <1>14 DEF P
  <2> HIDE DEF n
  <2> QED BY <2>1, <1>11, KeepsText
<1> QED BY <1>6, <1>10, <1>10a, <1>15 DEF AllOpened, DecryptorOf, v, f, mode, padding, key, iv

-----------------------------------------------------------------------------
\* Formats.

\* Two digits, of which the second is below d, are below e * d if the first is below e.
LEMMA TwoBelow ==
    ASSUME NEW a \in Nat, NEW b \in Nat, NEW d \in Nat, NEW e \in Nat, a < e, b < d
    PROVE  a * d + b \in Nat /\ a * d + b < e * d
<1>1. a + 1 \in Nat /\ a + 1 <= e /\ (a + 1) * d = a * d + 1 * d /\ 1 * d = d /\ a * d \in Nat
  BY Times
<1>2. (a + 1) * d <= e * d /\ e * d \in Nat
  BY <1>1, Times
<1> DEFINE x == a * d
           y == (a + 1) * d
           z == e * d
<1>3. x \in Nat /\ y = x + d /\ y <= z /\ z \in Nat
  BY <1>1, <1>2
<1> HIDE DEF x, y, z
<1>4. x + b \in Nat /\ x + b < z
  BY <1>3
<1> QED BY <1>4 DEF x, z

\* A number below e * d is two digits.
LEMMA TwoAre ==
    ASSUME NEW n \in Nat, NEW d \in Nat \ {0}, NEW e \in Nat, n < e * d
    PROVE  /\ n \div d \in Nat /\ n % d \in Nat /\ n % d < d /\ n \div d < e
           /\ n = (n \div d) * d + (n % d)
<1> DEFINE a == n \div d
           b == n % d
<1>1. a \in Nat /\ b \in 0 .. d - 1 /\ a * d + b = n
  BY DivMod
<1> HIDE DEF a, b
<1>2. b \in Nat /\ b < d
  BY <1>1
<1>3. a < e
  <2> SUFFICES ASSUME e <= a PROVE FALSE
    BY <1>1
  <2>1. e * d <= a * d /\ e * d \in Nat /\ a * d \in Nat
    BY <1>1, Times
  <2> DEFINE x == e * d
             y == a * d
  <2>2. x \in Nat /\ y \in Nat /\ x <= y /\ y + b = n /\ n < x
    BY <2>1, <1>1
  <2> HIDE DEF x, y
  <2> QED BY <2>2, <1>2
<1> QED BY <1>1, <1>2, <1>3 DEF a, b

\* The sizes of digits.
LEMMA DigitSizes ==
    /\ Quarter \in Nat \ {0} /\ HexDigit \in Nat \ {0} /\ Digit64 \in Nat \ {0} /\ Base \in Nat \ {0}
    /\ HexDigit = Quarter * Quarter /\ Digit64 = HexDigit * Quarter /\ Base = Digit64 * Quarter
<1>1. \A a, b \in Nat \ {0} : a * b \in Nat \ {0}
  OBVIOUS
<1>2. Quarter \in Nat \ {0}
  BY SizeAssumption
<1>3. HexDigit = Quarter * Quarter /\ Digit64 = HexDigit * Quarter /\ Base = Digit64 * Quarter
  BY DEF HexDigit, Digit64, Base
<1> QED BY <1>1, <1>2, <1>3

\* Three bytes are four digits.
LEMMA ThreeIsFour ==
    ASSUME NEW Q \in Nat, NEW H, NEW F, NEW E, H = Q * Q, F = H * Q, E = F * Q,
           NEW u \in Nat, NEW v \in Nat, NEW x \in Nat, NEW y \in Nat, NEW s \in Nat, NEW t \in Nat
    PROVE  LET T == ((u * Q + v) * E + (x * H + y)) * E + (s * F + t)
           IN  /\ T = ((u * F + (v * H + x)) * F + (y * Q + s)) * F + t
               /\ (v * H + x) * H + y = v * E + (x * H + y)
               /\ (y * Q + s) * F + t = y * E + (s * F + t)
  OBVIOUS

\* what four digits are worth together, and each of them in it
Four(F, a, b, c, d) == ((a * F + b) * F + c) * F + d
FourParts(F, a, b, c, d) ==
    LET T == Four(F, a, b, c, d)
    IN  /\ T \div (F * F * F) = a /\ (T \div (F * F)) % F = b /\ (T \div F) % F = c /\ T % F = d

\* Each of four digits is found again.
LEMMA FourAre ==
    ASSUME NEW F \in Nat \ {0}, NEW a \in Nat, NEW b \in Nat, NEW c \in Nat, NEW d \in Nat,
           a < F, b < F, c < F, d < F
    PROVE  FourParts(F, a, b, c, d)
<1> DEFINE T == ((a * F + b) * F + c) * F + d
<1>0. SUFFICES /\ T \div (F * F * F) = a /\ (T \div (F * F)) % F = b /\ (T \div F) % F = c /\ T % F = d
  BY DEF FourParts, Four
<1> DEFINE p == a * F + b
           q == p * F + c
<1>1. p \in Nat /\ q \in Nat /\ T = q * F + d
  BY Times
<1>2. T \div F = q /\ T % F = d
  <2> HIDE DEF q
  <2> QED BY <1>1, DivIs
<1>3. q % F = c
  <2> HIDE DEF p
  <2> QED BY <1>1, DivIs
<1>4. T \div (F * F) = p
  <2> DEFINE r == c * F + d
             g == F * F
  <2>1. r \in Nat /\ r < g /\ g \in Nat
    BY TwoBelow
  <2>2. T = p * g + r
    OBVIOUS
  <2> HIDE DEF r, g, p
  <2>3. T \div g = p
    BY <2>1, <2>2, <1>1, DivIs
  <2> QED BY <2>3 DEF g
<1>5. p % F = b
  BY DivIs
<1>6. T \div (F * F * F) = a
  <2> DEFINE r == c * F + d
             g == F * F
             s == b * g + r
             h == g * F
  <2>1. r \in Nat /\ r < g /\ g \in Nat
    BY TwoBelow
  <2>2. s \in Nat /\ s < F * g
    <3> HIDE DEF r, g
    <3> QED BY <2>1, TwoBelow
  <2>3. h = F * g /\ h \in Nat
    OBVIOUS
  <2>4. T = a * h + s
    OBVIOUS
  <2> HIDE DEF s, h, r, g
  <2>5. T \div h = a
    <3>1. s < h
      BY <2>2, <2>3
    <3>2. (a * h + s) \div h = a
      BY ONLY <2>2, <2>3, <3>1, a \in Nat, DivIs
    <3> QED BY <2>4, <3>2
  <2> QED BY <2>5 DEF h, g
<1> QED BY <1>2, <1>3, <1>4, <1>5, <1>6

\* the four digits of the bytes a, b and c
TripleOf(a, b, c) == (a * Base + b) * Base + c
DigitOf(t, k) == CASE k % 4 = 0 -> t \div (Digit64 * Digit64 * Digit64)
                   [] k % 4 = 1 -> (t \div (Digit64 * Digit64)) % Digit64
                   [] k % 4 = 2 -> (t \div Digit64) % Digit64
                   [] OTHER     -> t % Digit64
\* what is read of digit x, that completes byte i of three, and the next, y
ByteOfDigits(x, y, i) == (x * Pow(i) + y \div Pow(3 - i)) % Base

\* A rest is what it is of.
LEMMA RestOf ==
    ASSUME NEW b \in Byte, NEW m \in Nat
    PROVE  (m * Base + b) % Base = b
<1>1. Base \in Nat \ {0}
  BY BaseIsPositive
<1> HIDE DEF Base
<1>2. b \in Nat /\ b < Base
  BY <1>1 DEF Byte
<1> QED BY <1>1, <1>2, DivIs

\* Three bytes come back.
LEMMA TripleBack ==
    ASSUME NEW a \in Byte, NEW b \in Byte, NEW c \in Byte
    PROVE  LET t == TripleOf(a, b, c)
           IN  /\ \A k \in Nat : DigitOf(t, k) \in 0 .. Digit64 - 1
               /\ ByteOfDigits(DigitOf(t, 0), DigitOf(t, 1), 1) = a
               /\ ByteOfDigits(DigitOf(t, 1), DigitOf(t, 2), 2) = b
               /\ ByteOfDigits(DigitOf(t, 2), DigitOf(t, 3), 3) = c
<1> DEFINE Q == Quarter
           H == HexDigit
           F == Digit64
           E == Base
           u == a \div Q
           v == a % Q
           x == b \div H
           y == b % H
           s == c \div F
           r == c % F
           t == TripleOf(a, b, c)
           c1 == v * H + x
           c2 == y * Q + s
<1>1. /\ Q \in Nat \ {0} /\ H \in Nat \ {0} /\ F \in Nat \ {0} /\ E \in Nat \ {0}
      /\ H = Q * Q /\ F = H * Q /\ E = F * Q
  BY DigitSizes
<1>2. a \in Nat /\ b \in Nat /\ c \in Nat /\ a < E /\ b < E /\ c < E
  <2> HIDE DEF E
  <2> QED BY <1>1 DEF Byte, E
<1>3. H * H = E /\ Q * F = E /\ Q * H = F
  <2> HIDE DEF Q, H, F, E
  <2> QED BY <1>1
<1>4. u \in Nat /\ v \in Nat /\ v < Q /\ u < F /\ a = u * Q + v
  <2> HIDE DEF Q, H, F, E
  <2>1. a < F * Q
    BY <1>1, <1>2
  <2> QED BY <2>1, <1>1, <1>2, TwoAre
<1>5. x \in Nat /\ y \in Nat /\ y < H /\ x < H /\ b = x * H + y
  <2> HIDE DEF Q, H, F, E
  <2>1. b < H * H
    BY <1>2, <1>3
  <2> QED BY <2>1, <1>1, <1>2, TwoAre
<1>6. s \in Nat /\ r \in Nat /\ r < F /\ s < Q /\ c = s * F + r
  <2> HIDE DEF Q, H, F, E
  <2>1. c < Q * F
    BY <1>2, <1>3
  <2> QED BY <2>1, <1>1, <1>2, TwoAre
<1>7. t = (a * E + b) * E + c
  BY DEF TripleOf
<1> HIDE DEF Q, H, F, E, u, v, x, y, s, r, t
<1>8. /\ t = ((u * F + c1) * F + c2) * F + r
      /\ c1 * H + y = v * E + b
      /\ c2 * F + r = y * E + c
  BY <1>1, <1>4, <1>5, <1>6, <1>7, ThreeIsFour
<1>9. c1 \in Nat /\ c1 < F
  BY <1>1, <1>3, <1>4, <1>5, TwoBelow
<1>10. c2 \in Nat /\ c2 < F
  <2>1. c2 \in Nat /\ c2 < H * Q
    BY <1>1, <1>5, <1>6, TwoBelow
  <2> QED BY <2>1, <1>1
<1>11. c1 \div H = v /\ c2 \div Q = y /\ r \div 1 = r
  <2>1. c1 = v * H + x /\ c2 = y * Q + s
    OBVIOUS
  <2> HIDE DEF c1, c2
  <2>2. (v * H + x) \div H = v
    BY ONLY <1>1, <1>4, <1>5, DivIs
  <2>3. (y * Q + s) \div Q = y
    BY ONLY <1>1, <1>5, <1>6, DivIs
  <2>4. (r * 1 + 0) \div 1 = r /\ r * 1 + 0 = r
    BY ONLY <1>6, DivIs
  <2> QED BY <2>1, <2>2, <2>3, <2>4
<1> HIDE DEF c1, c2
<1>12. t \div (F * F * F) = u /\ (t \div (F * F)) % F = c1 /\ (t \div F) % F = c2 /\ t % F = r
  <2>1. F \in Nat \ {0} /\ u \in Nat /\ u < F /\ r \in Nat /\ r < F
    BY <1>1, <1>4, <1>6
  <2>2. t = Four(F, u, c1, c2, r)
    BY <1>8 DEF Four
  <2>3. FourParts(F, u, c1, c2, r)
    BY ONLY <2>1, <1>9, <1>10, FourAre
  <2> QED BY <2>2, <2>3 DEF FourParts
<1>13. DigitOf(t, 0) = u /\ DigitOf(t, 1) = c1 /\ DigitOf(t, 2) = c2 /\ DigitOf(t, 3) = r
  BY <1>12 DEF DigitOf, F
<1>14. \A k \in Nat : DigitOf(t, k) \in {u, c1, c2, r}
  BY <1>12 DEF DigitOf, F
<1>15. u \in 0 .. F - 1 /\ c1 \in 0 .. F - 1 /\ c2 \in 0 .. F - 1 /\ r \in 0 .. F - 1
  BY <1>1, <1>4, <1>6, <1>9, <1>10
<1>16. Pow(1) = Q /\ Pow(2) = H /\ Pow(3) = F /\ Pow(0) = 1
  BY DEF Pow, Q, H, F
<1>17. ByteOfDigits(u, c1, 1) = a
  <2>1. ByteOfDigits(u, c1, 1) = (u * Q + c1 \div H) % E
    BY <1>16 DEF ByteOfDigits, E
  <2>2. (0 * E + a) % E = a /\ 0 * E + a = a
    BY <1>1, <1>2, RestOf DEF E
  <2> QED BY <2>1, <2>2, <1>4, <1>11
<1>18. ByteOfDigits(c1, c2, 2) = b
  <2>1. ByteOfDigits(c1, c2, 2) = (c1 * H + c2 \div Q) % E
    BY <1>16 DEF ByteOfDigits, E
  <2>2. (v * E + b) % E = b
    BY <1>4, RestOf DEF E
  <2> QED BY <2>1, <2>2, <1>8, <1>11
<1>19. ByteOfDigits(c2, r, 3) = c
  <2>1. ByteOfDigits(c2, r, 3) = (c2 * F + r \div 1) % E
    BY <1>16 DEF ByteOfDigits, E
  <2>2. (y * E + c) % E = c
    BY <1>5, RestOf DEF E
  <2> QED BY <2>1, <2>2, <1>8, <1>11
<1> QED BY <1>13, <1>14, <1>15, <1>17, <1>18, <1>19 DEF F, t

-----------------------------------------------------------------------------
\* digit k, from 0, of the words c; how many digits s bytes need; and the digit,
\* from 0, that completes byte b
DigitAt(c, k) == LET m == 3 * (k \div 4)
                 IN  DigitOf(TripleOf(ByteAt(c, m + 1), ByteAt(c, m + 2), ByteAt(c, m + 3)), k)
DigitsOf(s)   == (4 * s + 2) \div 3
AtOf(b)       == b + (b - 1) \div 3

\* The same digit of three bytes, counted from elsewhere.
LEMMA SameDigit == ASSUME NEW t, NEW k, NEW l, k % 4 = l % 4 PROVE DigitOf(t, k) = DigitOf(t, l)
  BY DEF DigitOf

\* A digit is one of the alphabet's.
LEMMA DigitAtIs ==
    ASSUME NEW c \in Seq(Byte), NEW k \in Nat
    PROVE  DigitAt(c, k) \in 0 .. Digit64 - 1 /\ DigitAt(c, k) # Pad64
<1> DEFINE m == 3 * (k \div 4)
<1>1. ByteAt(c, m + 1) \in Byte /\ ByteAt(c, m + 2) \in Byte /\ ByteAt(c, m + 3) \in Byte
  BY ByteInByte
<1>2. DigitAt(c, k) = DigitOf(TripleOf(ByteAt(c, m + 1), ByteAt(c, m + 2), ByteAt(c, m + 3)), k)
  BY DEF DigitAt
<1> HIDE DEF m
<1>3. DigitAt(c, k) \in 0 .. Digit64 - 1
  BY <1>1, <1>2, TripleBack
<1>4. Digit64 \in Nat
  BY DigitSizes
<1>5. Pad64 = Digit64
  BY DEF Pad64
<1> HIDE DEF Digit64
<1> QED BY <1>3, <1>4, <1>5

\* Where the digits are.
LEMMA DigitPlaces ==
    ASSUME NEW s \in Nat
    PROVE  /\ DigitsOf(s) \in Nat /\ (3 * DigitsOf(s)) \div 4 = s
           /\ 4 * ((DigitsOf(s) + 3) \div 4) \in Nat /\ DigitsOf(s) <= 4 * ((DigitsOf(s) + 3) \div 4)
<1> DEFINE n == DigitsOf(s)
<1>1. n \in Nat /\ (3 * n) \div 4 = s
  BY DEF DigitsOf
<1> HIDE DEF n
<1>2. 4 * ((n + 3) \div 4) \in Nat /\ n <= 4 * ((n + 3) \div 4)
  BY <1>1
<1> QED BY <1>1, <1>2 DEF n

\* And which of them hold a byte.
LEMMA BytePlaces ==
    ASSUME NEW s \in Nat, NEW b \in 1 .. s
    PROVE  \E g \in Nat, r \in {1, 2, 3} :
              /\ b = 3 * g + r /\ AtOf(b) = 4 * g + r /\ AtOf(b) \in 1 .. DigitsOf(s) - 1
              /\ AtOf(b) % 4 = r /\ AtOf(b) \div 4 = g
              /\ (AtOf(b) - 1) % 4 = r - 1 /\ (AtOf(b) - 1) \div 4 = g
<1> DEFINE g == (b - 1) \div 3
           r == b - 3 * g
<1>1. g \in Nat /\ r \in {1, 2, 3} /\ b = 3 * g + r
  OBVIOUS
<1>2. AtOf(b) = 4 * g + r
  BY <1>1 DEF AtOf
<1> HIDE DEF g, r
<1> DEFINE i == 4 * g + r
<1>3. i \in Nat /\ i >= 1 /\ i + 1 <= DigitsOf(s)
  BY <1>1 DEF DigitsOf
<1>4. /\ i % 4 = r /\ i \div 4 = g /\ (i - 1) % 4 = r - 1 /\ (i - 1) \div 4 = g
  <2>1. CASE r = 1
    BY <2>1, <1>1
  <2>2. CASE r = 2
    BY <2>2, <1>1
  <2>3. CASE r = 3
    BY <2>3, <1>1
  <2> QED BY <2>1, <2>2, <2>3, <1>1
<1>5. DigitsOf(s) \in Nat
  BY DigitPlaces
<1>6. i \in 1 .. DigitsOf(s) - 1
  BY <1>3, <1>5
<1> HIDE DEF i
<1> QED BY <1>1, <1>2, <1>4, <1>6 DEF i

\* What Base64 writes.
LEMMA WrittenDigits ==
    ASSUME NEW w
    PROVE  Base64Stringify(w) =
               [k \in 1 .. 4 * ((DigitsOf(w.sigBytes) + 3) \div 4) |->
                   IF k <= DigitsOf(w.sigBytes) THEN DigitAt(clamp(w).words, k - 1) ELSE Pad64]
  BY DEF Base64Stringify, DigitAt, DigitOf, TripleOf, DigitsOf

\* How many digits are read.
ReadCount(s) == IF \E k \in DOMAIN s : s[k] = Pad64
                THEN (CHOOSE k \in DOMAIN s : s[k] = Pad64 /\ \A l \in 1 .. k - 1 : s[l] # Pad64) - 1
                ELSE Len(s)

\* What Base64 reads.
LEMMA ReadDigits ==
    ASSUME NEW s
    PROVE  Base64Parse(s) =
               Create([b \in 1 .. (3 * ReadCount(s)) \div 4 |->
                          (s[AtOf(b)] * Pow(AtOf(b) % 4) + s[AtOf(b) + 1] \div Pow(3 - (AtOf(b) % 4))) % Base])
  BY DEF Base64Parse, ReadCount, AtOf

\* As many digits are read as were written, whether they have been filled up or not.
LEMMA AllRead ==
    ASSUME NEW n \in Nat, NEW m \in Nat, n <= m, NEW s, s \in [1 .. m -> Nat \cup {Pad64}],
           \A k \in 1 .. m : s[k] = Pad64 <=> k > n
    PROVE  ReadCount(s) = n
<1>1. DOMAIN s = 1 .. m /\ Len(s) = m
  <2>1. s \in Seq(Nat \cup {Pad64})
    OBVIOUS
  <2> QED BY <2>1
<1>2. CASE n = m
  <2>1. ~\E k \in DOMAIN s : s[k] = Pad64
    BY <1>1, <1>2
  <2> QED BY <2>1, <1>1, <1>2 DEF ReadCount
<1>3. CASE n < m
  <2> DEFINE First(k) == s[k] = Pad64 /\ \A l \in 1 .. k - 1 : s[l] # Pad64
  <2>1. n + 1 \in DOMAIN s /\ First(n + 1)
    BY <1>1, <1>3
  <2>2. \A k \in DOMAIN s : First(k) => k = n + 1
    <3> SUFFICES ASSUME NEW k \in 1 .. m, First(k) PROVE k = n + 1
      BY <1>1
    <3>1. k > n
      OBVIOUS
    <3>2. k - 1 <= n
      <4> SUFFICES ASSUME k - 1 > n PROVE FALSE
        OBVIOUS
      <4>1. k - 1 \in 1 .. k - 1 /\ k - 1 \in 1 .. m
        OBVIOUS
      <4> QED BY <4>1
    <3> QED BY <3>1, <3>2
  <2>3. (CHOOSE k \in DOMAIN s : First(k)) = n + 1
    <3> HIDE DEF First
    <3> QED BY <2>1, <2>2
  <2>4. \E k \in DOMAIN s : s[k] = Pad64
    BY <2>1
  <2> DEFINE f == CHOOSE k \in DOMAIN s : First(k)
  <2>5. ReadCount(s) = f - 1
    BY <2>4 DEF ReadCount
  <2>6. f = n + 1
    BY <2>3
  <2> HIDE DEF f
  <2> QED BY <2>5, <2>6
<1> QED BY <1>2, <1>3

\* A byte is read back.
LEMMA ByteRead ==
    ASSUME NEW c \in Seq(Byte), NEW n \in Nat, NEW b \in 1 .. n
    PROVE  ByteOfDigits(DigitAt(c, AtOf(b) - 1), DigitAt(c, AtOf(b)), AtOf(b) % 4) = ByteAt(c, b)
<1>1. PICK g \in Nat, r \in {1, 2, 3} :
              /\ b = 3 * g + r /\ AtOf(b) = 4 * g + r /\ AtOf(b) \in 1 .. DigitsOf(n) - 1
              /\ AtOf(b) % 4 = r /\ AtOf(b) \div 4 = g
              /\ (AtOf(b) - 1) % 4 = r - 1 /\ (AtOf(b) - 1) \div 4 = g
  BY BytePlaces
<1> DEFINE i == AtOf(b)
           x == ByteAt(c, 3 * g + 1)
           y == ByteAt(c, 3 * g + 2)
           z == ByteAt(c, 3 * g + 3)
           t == TripleOf(x, y, z)
<1>2. x \in Byte /\ y \in Byte /\ z \in Byte
  BY ByteInByte
<1>3. (r - 1) % 4 = r - 1 /\ r % 4 = r
  BY <1>1
<1>4. DigitAt(c, i - 1) = DigitOf(t, r - 1)
  <2>1. DigitAt(c, i - 1) = DigitOf(t, i - 1)
    BY <1>1 DEF DigitAt
  <2> QED BY <2>1, <1>1, <1>3, SameDigit
<1>5. DigitAt(c, i) = DigitOf(t, r)
  <2>1. DigitAt(c, i) = DigitOf(t, i)
    BY <1>1 DEF DigitAt
  <2> QED BY <2>1, <1>1, <1>3, SameDigit
<1>6. /\ ByteOfDigits(DigitOf(t, 0), DigitOf(t, 1), 1) = x
      /\ ByteOfDigits(DigitOf(t, 1), DigitOf(t, 2), 2) = y
      /\ ByteOfDigits(DigitOf(t, 2), DigitOf(t, 3), 3) = z
  <2> HIDE DEF x, y, z
  <2> QED BY <1>2, TripleBack
<1>7. i % 4 = r
  BY <1>1
<1> HIDE DEF t, i
<1>8. CASE r = 1
  BY <1>1, <1>4, <1>5, <1>6, <1>7, <1>8 DEF i
<1>9. CASE r = 2
  BY <1>1, <1>4, <1>5, <1>6, <1>7, <1>9 DEF i
<1>10. CASE r = 3
  BY <1>1, <1>4, <1>5, <1>6, <1>7, <1>10 DEF i
<1> QED BY <1>8, <1>9, <1>10

\* What Base64 writes down is read as the bytes it was, without what was behind
\* them (Base64.stringify and parse).
THEOREM Base64RoundTrip ==
    ASSUME NEW w, w.sigBytes \in Nat, Bytes(w) \in Seq(Byte)
    PROVE  Base64Parse(Base64Stringify(w)) = clamp(w)
<1> DEFINE p == Bytes(w)
           c == clamp(w).words
           l == w.sigBytes
           n == DigitsOf(l)
           m == 4 * ((n + 3) \div 4)
           s == Base64Stringify(w)
<1>1. Rep(clamp(w), p) /\ p \in Seq(Byte) /\ Len(p) = l
  BY CreateRep DEF clamp, Bytes
<1>2. c \in Seq(Byte) /\ \A i \in 1 .. l : ByteAt(c, i) = p[i]
  BY <1>1 DEF Rep, ByteAt
<1>3. n \in Nat /\ (3 * n) \div 4 = l /\ m \in Nat /\ n <= m
  BY DigitPlaces
<1>4. s = [k \in 1 .. m |-> IF k <= n THEN DigitAt(c, k - 1) ELSE Pad64]
  BY WrittenDigits
<1> HIDE DEF m, n, s, c, l
<1>5. \A k \in 1 .. m : s[k] = IF k <= n THEN DigitAt(c, k - 1) ELSE Pad64
  BY <1>4
<1>6. \A k \in 1 .. m : k <= n => s[k] = DigitAt(c, k - 1) /\ s[k] \in 0 .. Digit64 - 1 /\ s[k] # Pad64
  <2> SUFFICES ASSUME NEW k \in 1 .. m, k <= n
               PROVE  s[k] = DigitAt(c, k - 1) /\ s[k] \in 0 .. Digit64 - 1 /\ s[k] # Pad64
    OBVIOUS
  <2>1. s[k] = DigitAt(c, k - 1) /\ k - 1 \in Nat
    BY <1>3, <1>5
  <2>2. DigitAt(c, k - 1) \in 0 .. Digit64 - 1 /\ DigitAt(c, k - 1) # Pad64
    BY <1>2, <2>1, DigitAtIs
  <2> QED BY <2>1, <2>2
<1>7. ReadCount(s) = n
  <2>1. \A k \in 0 .. Digit64 - 1 : k \in Nat
    BY DigitSizes
  <2>2. \A k \in 1 .. m : s[k] \in Nat \cup {Pad64} /\ (s[k] = Pad64 <=> k > n)
    BY <1>3, <1>5, <1>6, <2>1
  <2>3. s \in [1 .. m -> Nat \cup {Pad64}]
    BY <1>4, <2>2
  <2> QED BY <1>3, <2>2, <2>3, AllRead
<1>8. ASSUME NEW b \in 1 .. l
      PROVE  (s[AtOf(b)] * Pow(AtOf(b) % 4) + s[AtOf(b) + 1] \div Pow(3 - (AtOf(b) % 4))) % Base = p[b]
  <2>1. AtOf(b) \in 1 .. n - 1
    BY BytePlaces, w.sigBytes \in Nat DEF l, n
  <2>2. /\ AtOf(b) \in 1 .. m /\ AtOf(b) <= n /\ AtOf(b) + 1 \in 1 .. m
        /\ AtOf(b) + 1 <= n /\ (AtOf(b) + 1) - 1 = AtOf(b)
    BY <2>1, <1>3
  <2>3. s[AtOf(b)] = DigitAt(c, AtOf(b) - 1) /\ s[AtOf(b) + 1] = DigitAt(c, AtOf(b))
    BY <2>2, <1>6
  <2>4. ByteOfDigits(DigitAt(c, AtOf(b) - 1), DigitAt(c, AtOf(b)), AtOf(b) % 4) = ByteAt(c, b)
    BY <1>2, ByteRead, w.sigBytes \in Nat DEF l
  <2> QED BY <2>3, <2>4, <1>2 DEF ByteOfDigits
<1>9. Base64Parse(s) = Create([b \in 1 .. l |-> p[b]])
  <2> DEFINE f(b) == (s[AtOf(b)] * Pow(AtOf(b) % 4) + s[AtOf(b) + 1] \div Pow(3 - (AtOf(b) % 4))) % Base
  <2>1. \A b \in 1 .. l : f(b) = p[b]
    BY <1>8
  <2>2. Base64Parse(s) = Create([b \in 1 .. l |-> f(b)])
    BY <1>3, <1>7, ReadDigits
  <2> HIDE DEF f
  <2> QED BY <2>1, <2>2
<1>10. [b \in 1 .. l |-> p[b]] = p
  BY <1>1
<1> QED BY <1>9, <1>10 DEF clamp, s

-----------------------------------------------------------------------------
\* What a word array with the bytes of a text is worth.
LEMMA KeepsAll ==
    ASSUME NEW w, NEW t \in Seq(Byte), Keeps(w, t, 0, Len(t))
    PROVE  /\ Bytes(w) = t /\ Bytes(w) \in Seq(Byte) /\ w.sigBytes = Len(t) /\ w.sigBytes \in Nat
           /\ w.words \in Seq(Byte) /\ \A i \in 1 .. w.sigBytes : ByteAt(w.words, i) \in Byte
<1>1. Len(t) - 0 = Len(t) /\ Len(t) \in Nat /\ \A i \in 1 .. Len(t) : 0 + i = i /\ t[i] \in Byte
  OBVIOUS
<1>2. w.sigBytes = Len(t) /\ w.words \in Seq(Byte) /\ \A i \in 1 .. Len(t) : ByteAt(w.words, i) = t[i]
  BY <1>1 DEF Keeps
<1>3. Bytes(w) = [i \in 1 .. Len(t) |-> t[i]]
  BY <1>2 DEF Bytes
<1>4. [i \in 1 .. Len(t) |-> t[i]] = t
  OBVIOUS
<1> QED BY <1>1, <1>2, <1>3, <1>4

\* what is parsed of a ciphertext: a salt, and words with the bytes P
Parsed(p, s, P) == p.salt = s /\ Bytes(p.ciphertext) = P

\* Of what has no salt in it, everything is ciphertext.
LEMMA HexBack ==
    ASSUME NEW w, NEW P \in Seq(Byte), Keeps(w, P, 0, Len(P))
    PROVE  Parsed(HexFormatParse(HexStringify(w)), NoSalt, P)
<1>1. HexParse(HexStringify(w)) = Create(P)
  BY KeepsAll, HexRoundTrip DEF clamp
<1>2. Bytes(Create(P)) = P
  BY CreateRep, RepBytes
<1> QED BY <1>1, <1>2 DEF Parsed, HexFormatParse

\* Also in OpenSSL's format, unless it begins like one that has a salt.
LEMMA UnsaltedBack ==
    ASSUME NEW w, NEW P \in Seq(Byte), Keeps(w, P, 0, Len(P)), ~IsPrefix(Magic, Create(P).words)
    PROVE  Parsed(OpenSSLParse(OpenSSLStringify(w, NoSalt)), NoSalt, P)
<1>1. Base64Parse(Base64Stringify(w)) = Create(P)
  BY KeepsAll, Base64RoundTrip DEF clamp
<1>2. Bytes(Create(P)) = P
  BY CreateRep, RepBytes
<1> QED BY <1>1, <1>2 DEF Parsed, OpenSSLParse, OpenSSLStringify

\* u begins with m, s, which end at i, and P
Laid(u, m, s, P, i) ==
    /\ i = Len(m) + Len(s) /\ Len(u) >= i + Len(P)
    /\ \A k \in 1 .. Len(m) : u[k] = m[k]
    /\ \A k \in 1 .. Len(s) : u[Len(m) + k] = s[k]
    /\ \A k \in 1 .. Len(P) : u[i + k] = P[k]
\* and they are found in it
Found(u, m, s, P, i) ==
    /\ IsPrefix(m, u) /\ SubSeq(u, Len(m) + 1, i) = s
    /\ \A k \in 1 .. Len(P) : ByteAt(SubSeq(u, i + 1, Len(u)), k) = P[k]

\* The salt and the ciphertext are found behind the magic number.
LEMMA SaltedParse ==
    ASSUME NEW m \in Seq(Byte), NEW s \in Seq(Byte), NEW P \in Seq(Byte), NEW u \in Seq(Byte), NEW i \in Nat,
           Laid(u, m, s, P, i)
    PROVE  Found(u, m, s, P, i)
<1> USE DEF Laid
<1>1. Len(m) \in Nat /\ Len(s) \in Nat /\ Len(P) \in Nat /\ Len(u) \in Nat
  OBVIOUS
<1>2. IsPrefix(m, u)
  <2>1. m = SubSeq(u, 1, Len(m))
    <3> DEFINE v == SubSeq(u, 1, Len(m))
    <3>1. v \in Seq(Byte) /\ Len(v) = Len(m) /\ \A k \in 1 .. Len(m) : v[k] = u[k]
      BY <1>1
    <3> HIDE DEF v
    <3> QED BY <3>1
  <2> QED BY <2>1, <1>1 DEF IsPrefix
<1>3. SubSeq(u, Len(m) + 1, i) = s
  <2> DEFINE v == SubSeq(u, Len(m) + 1, i)
  <2>1. v \in Seq(Byte) /\ Len(v) = Len(s) /\ \A k \in 1 .. Len(s) : v[k] = u[Len(m) + k]
    BY <1>1
  <2> HIDE DEF v
  <2>2. \A k \in 1 .. Len(s) : v[k] = s[k]
    BY <2>1
  <2> HIDE DEF Laid
  <2>3. v = s
    BY <2>1, <2>2
  <2> QED BY <2>3 DEF v
<1>4. ASSUME NEW k \in 1 .. Len(P) PROVE ByteAt(SubSeq(u, i + 1, Len(u)), k) = P[k]
  <2>1. k \in Nat \ {0} /\ i + k \in DOMAIN u
    BY <1>1
  <2>2. \A l \in Nat \ {0} : ByteAt(SubSeq(u, i + 1, Len(u)), l) = ByteAt(u, i + l)
    <3>1. i <= Len(u)
      BY <1>1
    <3> HIDE DEF Laid
    <3> QED BY <3>1, FromByte
  <2>3. ByteAt(u, i + k) = u[i + k]
    BY <2>1 DEF ByteAt
  <2> QED BY <2>1, <2>2, <2>3
<1> QED BY <1>2, <1>3, <1>4 DEF Found

\* What has been joined has the bytes of the one and of the other.
LEMMA JoinedKeeps ==
    ASSUME NEW c, NEW a, NEW b, Joined(c, a, b), NEW p \in Seq(Byte), NEW t \in Seq(Byte),
           Keeps(a, p, 0, Len(p)), Keeps(b, t, 0, Len(t))
    PROVE  Keeps(c, p \o t, 0, Len(p \o t))
<1>1. /\ Bytes(a) = p /\ a.sigBytes = Len(p) /\ Bytes(b) = t /\ b.sigBytes = Len(t)
      /\ Len(p) \in Nat /\ Len(t) \in Nat
  BY KeepsAll
<1>2. p \o t \in Seq(Byte) /\ Len(p \o t) = Len(p) + Len(t)
  BY TwoLong
<1>3. \A i \in 1 .. Len(p) : ByteAt(a.words, i) = p[i]
  BY <1>1 DEF Keeps
<1>4. \A i \in 1 .. Len(t) : ByteAt(b.words, i) = t[i]
  BY <1>1 DEF Keeps
<1>5. c.words \in Seq(Byte) /\ c.sigBytes = Len(p) + Len(t)
  BY <1>1 DEF Joined
<1>6. ASSUME NEW i \in 1 .. Len(p) + Len(t) PROVE ByteAt(c.words, i) = (p \o t)[i]
  <2>1. CASE i <= Len(p)
    <3>1. i \in 1 .. Len(p) /\ (p \o t)[i] = p[i]
      BY <2>1, <1>1
    <3>2. ByteAt(c.words, i) = ByteAt(a.words, i)
      BY <3>1, <1>1 DEF Joined
    <3> QED BY <3>1, <3>2, <1>3
  <2>2. CASE i > Len(p)
    <3> DEFINE k == i - Len(p)
    <3>1. k \in 1 .. Len(t) /\ (p \o t)[i] = t[k] /\ Len(p) + k = i
      BY <2>2, <1>1
    <3> HIDE DEF k
    <3>2. ByteAt(c.words, Len(p) + k) = ByteAt(b.words, k)
      BY <3>1, <1>1 DEF Joined
    <3> QED BY <3>1, <3>2, <1>4
  <2> QED BY <2>1, <2>2, <1>1
<1> QED BY <1>1, <1>2, <1>5, <1>6 DEF Keeps

\* A word array that stands for bytes keeps them.
LEMMA RepKeeps == ASSUME NEW w, NEW t \in Seq(Byte), Rep(w, t) PROVE Keeps(w, t, 0, Len(t))
<1>1. Len(t) \in Nat /\ Len(t) - 0 = Len(t)
  OBVIOUS
<1>2. \A i \in 1 .. Len(t) : 0 + i = i /\ i \in Nat \ {0} /\ ByteAt(t, i) = t[i]
  BY DEF ByteAt
<1> QED BY <1>1, <1>2 DEF Rep, Keeps

\* A salt comes back, and the ciphertext.
LEMMA SaltedBack ==
    ASSUME NEW w, NEW P \in Seq(Byte), Keeps(w, P, 0, Len(P)), NEW s \in Seq(Byte), Len(s) = SaltBytes
    PROVE  Parsed(OpenSSLParse(OpenSSLStringify(w, s)), s, P)
<1> DEFINE a == concat(Create(Magic), Create(s))
           x == concat(a, w)
           p == Magic \o s
           t == p \o P
           u == Create(t).words
           i == Len(Magic) + SaltBytes
<1>1. Magic \in Seq(Byte) /\ Len(Magic) \in Nat /\ SaltBytes \in Nat \ {0} /\ s # NoSalt
  <2>1. Magic \in Seq(Byte)
    BY MagicAssumption
  <2>2. SaltBytes \in Nat \ {0}
    BY SizeAssumption DEF SaltBytes
  <2>3. Len(NoSalt) = 0
    BY DEF NoSalt
  <2> QED BY <2>1, <2>2, <2>3
<1>2. Rep(a, p) /\ p \in Seq(Byte) /\ Len(p) = i
  BY <1>1, CreateRep, ConcatRep, TwoLong
<1>3. Keeps(a, p, 0, Len(p))
  BY <1>2, RepKeeps
<1>4. Joined(x, a, w)
  <2>1. a.words \in Seq(Byte) /\ a.sigBytes \in Nat /\ w.words \in Seq(Byte) /\ w.sigBytes \in Nat
    BY <1>2, <1>3, KeepsAll
  <2> HIDE DEF a
  <2> QED BY <2>1, ConcatBytes
<1>5. Keeps(x, t, 0, Len(t)) /\ t \in Seq(Byte) /\ Len(t) = i + Len(P)
  <2> HIDE DEF a, p, x
  <2> QED BY <1>2, <1>3, <1>4, JoinedKeeps, TwoLong
<1>6. Base64Parse(Base64Stringify(x)) = Create(t)
  <2> HIDE DEF x, t
  <2> QED BY <1>5, KeepsAll, Base64RoundTrip DEF clamp
<1>7. u \in Seq(Byte) /\ Len(u) >= Len(t) /\ Create(t).sigBytes = Len(t) /\ \A k \in 1 .. Len(t) : u[k] = t[k]
  <2> HIDE DEF t
  <2>1. Rep(Create(t), t) /\ Len(t) \in Nat
    BY <1>5, CreateRep
  <2>2. u \in Seq(Byte) /\ Len(u) >= Len(t) /\ \A k \in Nat \ {0} : ByteAt(u, k) = ByteAt(t, k)
    BY <2>1 DEF Rep
  <2> HIDE DEF u
  <2>3. \A k \in 1 .. Len(t) : k \in DOMAIN u /\ k \in DOMAIN t /\ k \in Nat \ {0}
    BY <2>1, <2>2, <1>5
  <2> QED BY <2>1, <2>2, <2>3 DEF ByteAt, Create
<1>8. /\ \A k \in 1 .. Len(Magic) : t[k] = Magic[k]
      /\ \A k \in 1 .. Len(s) : t[Len(Magic) + k] = s[k]
      /\ \A k \in 1 .. Len(P) : t[i + k] = P[k]
  <2>1. Len(P) \in Nat
    OBVIOUS
  <2>2. /\ \A k \in 1 .. Len(Magic) : p[k] = Magic[k]
        /\ \A k \in 1 .. Len(s) : p[Len(Magic) + k] = s[k]
    BY <1>1
  <2> HIDE DEF p
  <2>3. \A k \in 1 .. Len(p) : t[k] = p[k]
    BY <1>2
  <2>4. \A k \in 1 .. Len(P) : t[Len(p) + k] = P[k]
    <3> HIDE DEF i
    <3>1. \A f, g \in Seq(Byte) : \A k \in 1 .. Len(g) : (f \o g)[Len(f) + k] = g[k]
      OBVIOUS
    <3> QED BY <3>1, <1>2
  <2> HIDE DEF t
  <2> QED BY <1>1, <1>2, <2>2, <2>3, <2>4
<1>9. /\ IsPrefix(Magic, u) /\ SubSeq(u, Len(Magic) + 1, i) = s
      /\ \A k \in 1 .. Len(P) : ByteAt(SubSeq(u, i + 1, Len(u)), k) = P[k]
  <2>1. i \in Nat /\ i = Len(Magic) + Len(s) /\ Len(u) >= i + Len(P)
    <3> HIDE DEF u, t
    <3> QED BY <1>1, <1>5, <1>7
  <2>2. /\ \A k \in 1 .. Len(Magic) : u[k] = Magic[k]
        /\ \A k \in 1 .. Len(s) : u[Len(Magic) + k] = s[k]
        /\ \A k \in 1 .. Len(P) : u[i + k] = P[k]
    <3>1. Len(P) \in Nat
      OBVIOUS
    <3> HIDE DEF u, t
    <3>2. /\ \A k \in 1 .. Len(Magic) : k \in 1 .. Len(t)
          /\ \A k \in 1 .. Len(s) : Len(Magic) + k \in 1 .. Len(t)
          /\ \A k \in 1 .. Len(P) : i + k \in 1 .. Len(t)
      BY <3>1, <1>1, <1>5
    <3> QED BY <3>2, <1>7, <1>8
  <2>3. Laid(u, Magic, s, P, i)
    <3> HIDE DEF u, i, t
    <3> QED BY <2>1, <2>2 DEF Laid
  <2> HIDE DEF u, i, t
  <2>4. Found(u, Magic, s, P, i)
    BY <2>1, <2>3, <1>1, <1>7, SaltedParse
  <2> QED BY <2>4 DEF Found
<1> DEFINE c == [words |-> SubSeq(u, i + 1, Len(u)), sigBytes |-> Create(t).sigBytes - i]
<1>10. OpenSSLParse(OpenSSLStringify(w, s)) = [salt |-> s, ciphertext |-> c]
  BY <1>1, <1>6, <1>9 DEF OpenSSLParse, OpenSSLStringify
<1>11. Bytes(c) = P
  <2>1. c.sigBytes = Len(P) /\ c.words = SubSeq(u, i + 1, Len(u))
    <3> HIDE DEF t, u, i, c, a, x, p
    <3>1. Len(P) \in Nat
      OBVIOUS
    <3>2. i \in Nat
      BY <1>1 DEF i
    <3> USE DEF c
    <3> QED BY <3>1, <3>2, <1>5, <1>7
  <2> HIDE DEF c, u, i
  <2>2. Bytes(c) = [k \in 1 .. Len(P) |-> P[k]]
    BY <2>1, <1>9 DEF Bytes
  <2> QED BY <2>2
<1> QED BY <1>10, <1>11 DEF Parsed

-----------------------------------------------------------------------------
\* A ciphertext without a salt does not begin like one that has one: the format
\* cannot tell them apart, and who calls has to.
NotMagic ==
    \A j \in Jobs : j.use = "cipher" /\ j.iv # << >> /\ j.format = "OpenSSL" =>
                        ~IsPrefix(Magic, Create(RefOf(j, << >>)).words)

\* The key is that of the salt that was drawn; the decryptor gets the ciphertext, has
\* taken the first pos bytes of it, keeps back what it has to, and has put out the
\* beginning of the message, up to there.
OpenInv ==
    /\ CipherInv
    /\ stage \in {"enc", "sealed", "dec", "done"} =>
           dkey = Derived(salt) /\ salt \in (IF job.iv = << >> THEN Salts ELSE {NoSalt})
    /\ stage \notin {"dec", "done"} => opened = Nothing
    /\ stage = "dec" =>
           /\ parsed = RefOf(job, dkey) /\ pos \in Nat /\ pos <= Len(parsed)
           /\ DecryptorOf(dec, job, dkey)
           /\ \E st, ou, L : Opening(st, ou, L, job, dkey) /\ HasOpened(dec, opened, st, job, dkey, pos)
    /\ stage = "done" => Keeps(opened, job.text, 0, Len(job.text))
    /\ stage # "dec" => IsWords(dec.data)

\* At first nothing has been decrypted.
LEMMA OpenInit == Init => OpenInv
<1> SUFFICES ASSUME Init PROVE OpenInv
  OBVIOUS
<1>1. opened = Nothing /\ stage = (IF job.use = "cipher" THEN "new" ELSE job.use) /\ job \in Jobs
  BY DEF Init
<1>2. job.use \in {"cipher", "hash", "kdf"}
  BY <1>1, JobAssumption DEF Job
<1>3. stage \in {"new", "hash", "kdf"}
  BY <1>1, <1>2
<1>4. CipherInv
  BY CipherInit
<1>5. dec.data = Create(<< >>) /\ << >> \in Seq(Byte)
  BY DEF Init, Nothing
<1>6. IsWords(dec.data)
  BY <1>5, CreateWords
<1> QED BY <1>1, <1>3, <1>4, <1>6 DEF OpenInv

\* The ciphertext is written down and read again, and so is the salt.
LEMMA ReadBack ==
    ASSUME EncryptsBlocks, NotMagic, OpenInv, stage = "sealed"
    PROVE  Parsed(IF job.format = "OpenSSL" THEN OpenSSLParse(OpenSSLStringify(sealed, salt))
                  ELSE HexFormatParse(HexStringify(sealed)),
                  salt, RefOf(job, dkey))
<1> DEFINE R == RefOf(job, dkey)
<1>1. /\ job \in Jobs /\ job.use = "cipher" /\ Fits(job, dkey) /\ Keeps(sealed, R, 0, Len(R))
      /\ dkey = Derived(salt) /\ salt \in (IF job.iv = << >> THEN Salts ELSE {NoSalt})
  BY DEF OpenInv, CipherInv
<1>2. R \in Seq(Byte)
  BY <1>1, SealingExists DEF Sealing, IsRef
<1>3. CASE job.iv = << >>
  <2>1. job.format = "OpenSSL"
    BY <1>1, <1>3, CipherCaller
  <2>2. salt \in Seq(Byte) /\ Len(salt) = SaltBytes
    BY <1>1, <1>3, MagicAssumption
  <2> HIDE DEF R
  <2>3. Parsed(OpenSSLParse(OpenSSLStringify(sealed, salt)), salt, R)
    BY <1>1, <1>2, <2>2, SaltedBack
  <2> QED BY <2>1, <2>3 DEF R
<1>4. CASE job.iv # << >> /\ job.format = "OpenSSL"
  <2>1. salt = NoSalt /\ dkey = << >>
    BY <1>1, <1>4 DEF Derived
  <2>2. ~IsPrefix(Magic, Create(R).words)
    BY <1>1, <1>4, <2>1 DEF NotMagic
  <2> HIDE DEF R
  <2>3. Parsed(OpenSSLParse(OpenSSLStringify(sealed, NoSalt)), NoSalt, R)
    BY <1>1, <1>2, <2>2, UnsaltedBack
  <2> QED BY <1>4, <2>1, <2>3 DEF R
<1>5. CASE job.iv # << >> /\ job.format # "OpenSSL"
  <2>1. salt = NoSalt
    BY <1>1, <1>5
  <2> HIDE DEF R
  <2>2. Parsed(HexFormatParse(HexStringify(sealed)), NoSalt, R)
    BY <1>1, <1>2, HexBack
  <2> QED BY <1>5, <2>1, <2>2 DEF R
<1> QED BY <1>3, <1>4, <1>5

\* The decryptor that is created has the same key, and has opened nothing.
LEMMA OpenCreate ==
    ASSUME CompressGivesWords, Works("dec"), NotMagic, OpenInv, CreateDecryptor
    PROVE  OpenInv'
<1>1. /\ job \in Jobs /\ job.use = "cipher" /\ Fits(job, dkey) /\ pos = 0 /\ opened = Nothing
      /\ dkey = Derived(salt) /\ salt \in (IF job.iv = << >> THEN Salts ELSE {NoSalt}) /\ stage = "sealed"
  BY DEF OpenInv, CipherInv, CreateDecryptor
<1>2. EncryptsBlocks
  BY DEF Works
<1> DEFINE p == IF job.format = "OpenSSL" THEN OpenSSLParse(OpenSSLStringify(sealed, salt))
                ELSE HexFormatParse(HexStringify(sealed))
           R == RefOf(job, dkey)
           key == KeyOf(job, dkey)
           iv == IvOf(job, dkey)
           o == dec'
<1>3. Parsed(p, salt, R)
  BY <1>1, <1>2, ReadBack
<1>4. /\ parsed' = Bytes(p.ciphertext) /\ o = Cipher("dec", Derived(p.salt)) /\ stage' = "dec"
      /\ UNCHANGED <<job, pos, enc, dkey, salt, sealed, opened, mac, again>>
  BY DEF CreateDecryptor
<1> HIDE DEF p
<1>5. parsed' = R /\ o = Cipher("dec", dkey)
  BY <1>1, <1>3, <1>4 DEF Parsed
<1>6. o = cipher("dec", job.mode, job.pad, key, iv)
  BY <1>5 DEF Cipher, KeyOf, IvOf
<1>7. /\ IsCipher("dec", o, job.mode, job.pad, key, iv) /\ o.data = Create(<< >>)
      /\ o.reg = IF job.mode = "RC4" THEN Rc4Init(key) ELSE iv
  BY <1>6, FreshCipher
<1> HIDE DEF o, R
<1>8. DecryptorOf(o, job, dkey) /\ o.reg = FirstOf(job, dkey)
  BY <1>7 DEF DecryptorOf, FirstOf
<1>9. /\ \E st, ou, L : Opening(st, ou, L, job, dkey)
      /\ R \in Seq(Byte)
  BY <1>1, OpeningExists DEF R
<1>10. PICK st, ou, L : Opening(st, ou, L, job, dkey)
  BY <1>9
<1>11. Len(R) \in Nat
  BY <1>9
<1>12. HasOpened(o, Nothing, st, job, dkey, 0)
  BY <1>1, <1>7, <1>8, <1>10, <1>11, OpensNothing DEF R
<1>13. CipherInv'
  BY <1>4, CipherNext, <1>2, CreateDecryptor DEF OpenInv, Next
<1>14. \E su, ov, M : Opening(su, ov, M, job, dkey) /\ HasOpened(o, Nothing, su, job, dkey, 0)
  BY <1>10, <1>12
<1> QED BY <1>1, <1>4, <1>5, <1>8, <1>11, <1>13, <1>14 DEF OpenInv, o, R, Derived

\* What holds of the decryptor while it gets its pieces.
LEMMA OpeningFacts ==
    ASSUME Works("dec"), OpenInv, stage = "dec"
    PROVE  /\ job \in Jobs /\ job.use = "cipher" /\ Fits(job, dkey) /\ DecryptorOf(dec, job, dkey)
           /\ parsed = RefOf(job, dkey) /\ parsed \in Seq(Byte) /\ pos \in Nat /\ pos <= Len(parsed)
           /\ job.left \in Byte /\ Len(parsed) \in Nat
<1>1. /\ job \in Jobs /\ job.use = "cipher" /\ Fits(job, dkey) /\ DecryptorOf(dec, job, dkey)
      /\ parsed = RefOf(job, dkey) /\ pos \in Nat /\ pos <= Len(parsed)
  BY DEF OpenInv, CipherInv
<1>2. parsed \in Seq(Byte)
  BY <1>1, OpeningExists
<1>3. job.left \in Byte
  BY <1>1, CipherJob
<1> QED BY <1>1, <1>2, <1>3

\* One piece more.
LEMMA OpenPieceMore ==
    ASSUME Works("dec"), OpenInv, NEW n \in Sizes, DecryptPiece(n)
    PROVE  /\ \E st, ou, L : Opening(st, ou, L, job, dkey)
                             /\ OpensMore(cipherProcess(dec, Piece(parsed, n, job.left)), opened, st, job, dkey, pos + n)
           /\ pos + n \in Nat /\ pos + n <= Len(parsed)
<1> DEFINE x == Piece(parsed, n, job.left)
           f == pos + n
<1>1. stage = "dec" /\ f <= Len(parsed)
  BY DEF DecryptPiece
<1>2. /\ job \in Jobs /\ job.use = "cipher" /\ Fits(job, dkey) /\ DecryptorOf(dec, job, dkey)
      /\ parsed = RefOf(job, dkey) /\ parsed \in Seq(Byte) /\ pos \in Nat /\ pos <= Len(parsed)
      /\ job.left \in Byte /\ Len(parsed) \in Nat
  BY <1>1, OpeningFacts
<1>3. PICK st, ou, L : Opening(st, ou, L, job, dkey) /\ HasOpened(dec, opened, st, job, dkey, pos)
  BY <1>1 DEF OpenInv
<1>4. n \in Nat /\ f \in Nat /\ pos <= f
  BY <1>2, SizesAssumption
<1>5. Keeps(x, parsed, pos, f)
  BY <1>1, <1>2, <1>4, PieceKeeps
<1> HIDE DEF x, f
<1>6. Keeps(x, RefOf(job, dkey), pos, f) /\ f <= Len(RefOf(job, dkey))
  BY <1>1, <1>2, <1>5
<1>7. OpensMore(cipherProcess(dec, x), opened, st, job, dkey, f)
  BY <1>2, <1>3, <1>4, <1>6, OpensPiece
<1> QED BY <1>1, <1>3, <1>4, <1>7 DEF x, f

\* It keeps the invariant.
LEMMA OpenPiece ==
    ASSUME CompressGivesWords, Works("dec"), OpenInv, NEW n \in Sizes, DecryptPiece(n)
    PROVE  OpenInv'
<1> DEFINE p == cipherProcess(dec, Piece(parsed, n, job.left))
           w == concat(opened, p.out)
           f == pos + n
<1>1. PICK st, ou, L : Opening(st, ou, L, job, dkey) /\ OpensMore(p, opened, st, job, dkey, f)
  BY OpenPieceMore
<1>2. f \in Nat /\ f <= Len(parsed)
  BY OpenPieceMore
<1>3. /\ dec' = p.o /\ opened' = w /\ pos' = f /\ stage = "dec"
      /\ UNCHANGED <<job, stage, enc, dkey, salt, sealed, parsed, mac, again>>
  BY DEF DecryptPiece
<1>4. EncryptsBlocks
  BY DEF Works
<1>5. CipherInv'
  BY <1>4, CipherNext DEF OpenInv, Next
<1> HIDE DEF p, f
<1>6. DecryptorOf(p.o, job, dkey) /\ HasOpened(p.o, w, st, job, dkey, f)
  BY <1>1 DEF OpensMore
<1> HIDE DEF w
<1>7. /\ parsed = RefOf(job, dkey) /\ dkey = Derived(salt)
      /\ salt \in (IF job.iv = << >> THEN Salts ELSE {NoSalt})
  BY <1>3 DEF OpenInv
<1>8. Derived(salt)' = Derived(salt) /\ RefOf(job, dkey)' = RefOf(job, dkey)
  BY <1>3 DEF Derived
<1> QED BY <1>1, <1>2, <1>3, <1>5, <1>6, <1>7, <1>8 DEF OpenInv

\* At the end, all of the message has been put out.
LEMMA OpenRestAll ==
    ASSUME Works("dec"), OpenInv, DecryptRest
    PROVE  Keeps(opened', job.text, 0, Len(job.text)) /\ IsWords(dec'.data)
<1> DEFINE n == Len(parsed) - pos
           x == Piece(parsed, n, job.left)
           f == cipherFinalize(dec, x, job.random)
<1>1. stage = "dec" /\ opened' = concat(opened, f.out) /\ dec' = f.o
  BY DEF DecryptRest
<1>2. /\ job \in Jobs /\ job.use = "cipher" /\ Fits(job, dkey) /\ DecryptorOf(dec, job, dkey)
      /\ parsed = RefOf(job, dkey) /\ parsed \in Seq(Byte) /\ pos \in Nat /\ pos <= Len(parsed)
      /\ job.left \in Byte /\ Len(parsed) \in Nat
  BY <1>1, OpeningFacts
<1>3. PICK st, ou, L : Opening(st, ou, L, job, dkey) /\ HasOpened(dec, opened, st, job, dkey, pos)
  BY <1>1 DEF OpenInv
<1>4. n \in Nat /\ pos + n = Len(parsed) /\ pos + n <= Len(parsed)
  BY <1>2
<1>5. Keeps(x, RefOf(job, dkey), pos, Len(RefOf(job, dkey)))
  <2> HIDE DEF n
  <2>1. Keeps(x, parsed, pos, pos + n)
    BY <1>2, <1>4, PieceKeeps
  <2> QED BY <2>1, <1>2, <1>4
<1> HIDE DEF x
<1>6. AllOpened(f, opened, job, dkey)
  <2>1. pos <= Len(RefOf(job, dkey))
    BY <1>2
  <2> QED BY <1>2, <1>3, <1>5, <2>1, OpensRest
<1> QED BY <1>1, <1>6 DEF AllOpened

\* It keeps the invariant.
LEMMA OpenRest ==
    ASSUME CompressGivesWords, Works("dec"), OpenInv, DecryptRest
    PROVE  OpenInv'
<1>1. Keeps(opened', job.text, 0, Len(job.text)) /\ IsWords(dec'.data)
  BY OpenRestAll
<1>2. stage = "dec" /\ stage' = "done" /\ UNCHANGED <<job, enc, dkey, salt, sealed, parsed, mac, again>>
  BY DEF DecryptRest
<1>3. EncryptsBlocks
  BY DEF Works
<1>4. CipherInv'
  BY <1>3, CipherNext DEF OpenInv, Next
<1> QED BY <1>1, <1>2, <1>4 DEF OpenInv, Derived

\* Every step keeps the invariant.
LEMMA OpenNext ==
    ASSUME CompressGivesWords, Works("dec"), NotMagic, OpenInv, [Next]_vars
    PROVE  OpenInv'
<1>1. EncryptsBlocks
  BY DEF Works
<1>2. CipherInv'
  BY <1>1, CipherNext DEF OpenInv
<1>3. CASE CreateEncryptor
  <2>1. /\ stage = "new" /\ stage' = "enc" /\ UNCHANGED <<job, opened, dec>>
        /\ salt' \in (IF job.iv = << >> THEN Salts ELSE {NoSalt}) /\ dkey' = Derived(salt')
    BY <1>3 DEF CreateEncryptor
  <2>2. Derived(salt)' = Derived(salt')
    BY <2>1 DEF Derived
  <2> QED BY <2>1, <2>2, <1>2 DEF OpenInv
<1>4. CASE EncryptRest
  BY <1>2, <1>4 DEF OpenInv, EncryptRest, Derived
<1>5. CASE ResetEncryptor
  BY <1>2, <1>5 DEF OpenInv, ResetEncryptor, Derived
<1>6. CASE CreateDecryptor
  BY <1>6, OpenCreate
<1>7. CASE DecryptRest
  BY <1>7, OpenRest
<1>8. CASE HashRest
  BY <1>2, <1>8 DEF OpenInv, HashRest
<1>9. CASE ResetMac
  BY <1>2, <1>9 DEF OpenInv, ResetMac
<1>10. CASE DeriveKey
  BY <1>2, <1>10 DEF OpenInv, DeriveKey
<1>11. ASSUME NEW n \in Sizes, EncryptPiece(n) PROVE OpenInv'
  BY <1>2, <1>11 DEF OpenInv, EncryptPiece, Derived
<1>12. ASSUME NEW n \in Sizes, DecryptPiece(n) PROVE OpenInv'
  BY <1>12, OpenPiece
<1>13. ASSUME NEW n \in Sizes, HashPiece(n) PROVE OpenInv'
  BY <1>2, <1>13 DEF OpenInv, HashPiece
<1>14. CASE UNCHANGED vars
  BY <1>2, <1>14 DEF OpenInv, vars, Derived
<1> QED BY <1>3, <1>4, <1>5, <1>6, <1>7, <1>8, <1>9, <1>10, <1>11, <1>12, <1>13, <1>14 DEF Next

-----------------------------------------------------------------------------
\* Nothing has no bytes.
LEMMA NothingIs == Bytes(Nothing) = << >>
<1>1. << >> \in Seq(Byte) /\ Len(<< >>) = 0
  OBVIOUS
<1>2. Nothing.sigBytes = 0
  BY <1>1 DEF Nothing, Create
<1> QED BY <1>2 DEF Bytes

\* At first nothing has been delivered.
LEMMA DeliveryInit == Init => D!Init
<1> SUFFICES ASSUME Init PROVE D!Init
  OBVIOUS
<1>1. opened = Nothing /\ stage = (IF job.use = "cipher" THEN "new" ELSE job.use) /\ job \in Jobs
  BY DEF Init
<1>2. job.use \in {"cipher", "hash", "kdf"}
  BY <1>1, JobAssumption DEF Job
<1>3. stage # "done"
  BY <1>1, <1>2
<1> QED BY <1>1, <1>3, NothingIs DEF D!Init

\* Steps that neither open anything nor come to an end, or leave one, are not seen.
LEMMA NotDelivering ==
    ASSUME UNCHANGED <<job, opened>>, stage = "done" <=> stage' = "done"
    PROVE  UNCHANGED <<job.text, Bytes(opened), stage = "done">>
<1>1. job.text' = job.text /\ Bytes(opened)' = Bytes(opened)
  BY DEF Bytes, ByteAt
<1>2. (stage = "done")' = (stage = "done")
  OBVIOUS
<1> QED BY <1>1, <1>2

\* Every step of page and ciphers is one of the delivery, or is not seen there.
LEMMA DeliveryNext ==
    ASSUME Works("dec"), OpenInv, [Next]_vars
    PROVE  [D!Next]_<<job.text, Bytes(opened), stage = "done">>
<1>1. ASSUME NEW n \in Sizes, DecryptPiece(n) PROVE D!Deliver
  <2> DEFINE p == cipherProcess(dec, Piece(parsed, n, job.left))
             w == concat(opened, p.out)
  <2>1. PICK st, ou, L : Opening(st, ou, L, job, dkey) /\ OpensMore(p, opened, st, job, dkey, pos + n)
    BY <1>1, OpenPieceMore
  <2>2. opened' = w /\ stage = "dec" /\ stage' = stage /\ job' = job
    BY <1>1 DEF DecryptPiece
  <2> HIDE DEF p
  <2>3. IsPrefix(Bytes(opened), Bytes(w)) /\ IsPrefix(Bytes(w), job.text)
    BY <2>1 DEF OpensMore
  <2> HIDE DEF w
  <2>4. Bytes(opened)' = Bytes(opened')
    BY DEF Bytes, ByteAt
  <2>5. IsPrefix(Bytes(opened), Bytes(opened')) /\ IsPrefix(Bytes(opened'), job.text)
    BY <2>2, <2>3
  <2> DEFINE a == Bytes(opened)
             b == Bytes(opened')
  <2>6. D!IsPrefix(a, b) /\ D!IsPrefix(b, job.text)
    <3> HIDE DEF a, b
    <3>1. IsPrefix(a, b) /\ IsPrefix(b, job.text)
      BY <2>5 DEF a, b
    <3> QED BY <3>1 DEF IsPrefix, D!IsPrefix
  <2> QED BY <2>2, <2>4, <2>6 DEF D!Deliver
<1>2. CASE DecryptRest
  <2>1. Keeps(opened', job.text, 0, Len(job.text))
    BY <1>2, OpenRestAll
  <2>2. stage = "dec" /\ stage' = "done" /\ job' = job
    BY <1>2 DEF DecryptRest
  <2>3. job.text \in Seq(Byte)
    BY JobFacts DEF OpenInv, CipherInv
  <2>4. Bytes(opened') = job.text
    BY <2>1, <2>3, KeepsBytes
  <2>5. Bytes(opened)' = Bytes(opened')
    BY DEF Bytes, ByteAt
  <2>6. D!Finish
    BY <2>2, <2>4, <2>5 DEF D!Finish
  <2> QED BY <2>6 DEF D!Next
<1>3. CASE ResetEncryptor
  <2>1. stage = "done" /\ stage' = "enc" /\ opened' = Nothing /\ job' = job
    BY <1>3 DEF ResetEncryptor
  <2>2. Bytes(opened)' = Bytes(opened')
    BY DEF Bytes, ByteAt
  <2>3. D!Again
    BY <2>1, <2>2, NothingIs DEF D!Again
  <2> QED BY <2>3 DEF D!Next
<1>4. CASE CreateEncryptor \/ EncryptRest \/ CreateDecryptor \/ HashRest \/ ResetMac \/ DeriveKey
  <2>1. UNCHANGED <<job, opened>> /\ stage # "done" /\ stage' # "done"
    BY <1>4 DEF CreateEncryptor, EncryptRest, CreateDecryptor, HashRest, ResetMac, DeriveKey
  <2> QED BY <2>1, NotDelivering
<1>5. ASSUME NEW n \in Sizes, EncryptPiece(n) \/ HashPiece(n)
      PROVE  UNCHANGED <<job.text, Bytes(opened), stage = "done">>
  <2>1. UNCHANGED <<job, opened, stage>>
    BY <1>5 DEF EncryptPiece, HashPiece
  <2> QED BY <2>1, NotDelivering
<1>6. CASE UNCHANGED vars
  <2>1. UNCHANGED <<job, opened, stage>>
    BY <1>6 DEF vars
  <2> QED BY <2>1, NotDelivering
<1> QED BY <1>1, <1>2, <1>3, <1>4, <1>5, <1>6 DEF Next, D!Next

\* Whatever pieces message and ciphertext come in, whatever lies behind them, and however
\* the ciphertext is written down in between: what is decrypted is delivered in order,
\* nothing of it is taken back, and in the end it is the message; again after reset.
THEOREM AlwaysDelivers ==
    ASSUME CompressGivesWords, EncryptsBlocks, DecryptsBlocks, NotMagic
    PROVE  Spec => Delivers
<1>1. Works("dec")
  BY DEF Works
<1>2. Init => D!Init
  BY DeliveryInit
<1>3. Init => OpenInv
  BY OpenInit
<1>4. OpenInv /\ [Next]_vars => OpenInv'
  BY <1>1, OpenNext
<1>5. OpenInv /\ [Next]_vars => [D!Next]_<<job.text, Bytes(opened), stage = "done">>
  BY <1>1, DeliveryNext
<1> QED BY <1>2, <1>3, <1>4, <1>5, PTL DEF Spec, Delivers, D!Spec

-----------------------------------------------------------------------------
\* Types.

\* A word array's bytes are bytes.
LEMMA WordsAreBytes == ASSUME NEW w, IsWords(w) PROVE Bytes(w) \in Seq(Byte)
<1>1. w.sigBytes \in Nat /\ \A i \in 1 .. w.sigBytes : ByteAt(w.words, i) \in Byte
  BY ByteInByte DEF IsWords
<1> QED BY <1>1 DEF Bytes

\* Nothing is a word array.
LEMMA NothingIsWords == IsWords(Nothing) /\ IsWords(Create(<< >>)) /\ Nothing.sigBytes = 0
<1>1. << >> \in Seq(Byte) /\ Len(<< >>) = 0
  OBVIOUS
<1> QED BY <1>1, CreateWords DEF Nothing

\* And so is what keeps the beginning of something.
LEMMA KeepsIsWords == ASSUME NEW w, NEW t, NEW e \in Nat, Keeps(w, t, 0, e) PROVE IsWords(w)
<1>1. e - 0 = e
  OBVIOUS
<1> QED BY <1>1 DEF Keeps, IsWords

\* A key that PBKDF2 derives is bytes.
LEMMA PbKeyTyped ==
    ASSUME CompressGivesWords, NEW pw \in Seq(Byte), NEW s \in Seq(Byte)
    PROVE  Pbkdf2Key(pw, s) \in Seq(Byte)
<1> DEFINE M == [k \in 1 .. 3 |-> Mac(pw, (s \o Zeros(WordBytes - 1)) \o <<k>>)]
           N == [k \in 1 .. 3 |-> Mac(pw, M[k])]
           X(k) == XorWords(M[k], N[k])
<1>1. Pbkdf2Key(pw, s) = (X(1) \o X(2)) \o X(3)
  <2>1. PbRows(pw, s, M, N)
    BY DEF PbRows
  <2> HIDE DEF M, N
  <2> QED BY <2>1, PbReference
<1>2. ASSUME NEW k \in 1 .. 3 PROVE X(k) \in Seq(Byte)
  <2>1. k \in Byte
    BY ThreeAreBytes
  <2>2. WordBytes - 1 \in Nat
    BY Sizes3
  <2>3. Zeros(WordBytes - 1) \in Seq(Byte) /\ <<k>> \in Seq(Byte)
    BY <2>1, <2>2, ZerosSeq
  <2>4. (s \o Zeros(WordBytes - 1)) \o <<k>> \in Seq(Byte)
    BY <2>3, TwoLong
  <2>5. M[k] \in Seq(Byte) /\ Len(M[k]) = WordBytes
    BY <2>4, MacIsWord
  <2>6. N[k] = Mac(pw, M[k])
    OBVIOUS
  <2> HIDE DEF M, N
  <2>7. N[k] \in Seq(Byte) /\ Len(N[k]) = WordBytes
    BY <2>5, <2>6, MacIsWord
  <2> QED BY <2>5, <2>7, XorIsBytes
<1>3. X(1) \in Seq(Byte) /\ X(2) \in Seq(Byte) /\ X(3) \in Seq(Byte)
  <2> HIDE DEF X
  <2> QED BY <1>2
<1> HIDE DEF X
<1>4. X(1) \o X(2) \in Seq(Byte)
  BY <1>3, TwoLong
<1> QED BY <1>1, <1>3, <1>4, TwoLong

\* What is known of the objects and of what was put out, in every stage, and the rest
\* of the types.
TypeInv ==
    /\ OpenInv /\ MacInv
    /\ again \in BOOLEAN
    /\ stage \in {"new", "enc", "sealed", "dec", "done", "hash", "hashed", "kdf", "derived"}
    /\ pos \in Nat /\ dkey \in Seq(Byte) /\ salt \in Salts \cup {NoSalt}
    /\ stage \notin {"enc", "sealed", "dec", "done"} => sealed = Nothing /\ enc.data = Nothing
    /\ stage \notin {"hash", "hashed"} => IsWords(mac.hasher.data)

\* So it is at first.
LEMMA TypeInit == ASSUME CompressGivesWords PROVE Init => TypeInv
<1> SUFFICES ASSUME Init PROVE TypeInv
  OBVIOUS
<1>1. OpenInv /\ MacInv
  BY OpenInit, MacInit
<1>2. /\ job \in Jobs /\ stage = (IF job.use = "cipher" THEN "new" ELSE job.use)
      /\ pos = 0 /\ dkey = << >> /\ salt = NoSalt /\ sealed = Nothing
      /\ enc.data = Nothing /\ again = Reuse
      /\ mac = (IF job.use = "hash" THEN NewMac ELSE [hasher |-> NewHash])
  BY DEF Init
<1>3. job.use \in {"cipher", "hash", "kdf"}
  BY <1>2, JobAssumption DEF Job
<1>4. stage \in {"new", "hash", "kdf"} /\ (stage # "hash" => job.use # "hash")
  BY <1>2, <1>3
<1>5. stage # "hash" => IsWords(mac.hasher.data)
  <2> SUFFICES ASSUME stage # "hash" PROVE IsWords(mac.hasher.data)
    OBVIOUS
  <2>1. mac.hasher = NewHash
    BY <1>2, <1>4
  <2>2. mac.hasher.data = Create(<< >>)
    BY <2>1 DEF NewHash
  <2> QED BY <2>2, NothingIsWords
<1>6. again \in BOOLEAN
  BY <1>2, ReuseAssumption
<1>7. << >> \in Seq(Byte) /\ 0 \in Nat
  OBVIOUS
<1> QED BY <1>1, <1>2, <1>4, <1>5, <1>6, <1>7 DEF TypeInv

\* The key that a password gives is bytes.
LEMMA TypeKey ==
    ASSUME CompressGivesWords, job \in Jobs, NEW s, s \in (IF job.iv = << >> THEN Salts ELSE {NoSalt})
    PROVE  Derived(s) \in Seq(Byte)
<1>1. CASE job.iv = << >>
  <2>1. job.secret \in Seq(Byte) /\ s \in Seq(Byte)
    BY <1>1, JobFacts, MagicAssumption
  <2>2. Derived(s) = EvpKDF(Create(job.secret), Create(s), KeyWords).words
    BY <1>1 DEF Derived
  <2> QED BY <2>1, <2>2, EvpIsFunction, EvpKeyTyped
<1>2. CASE job.iv # << >>
  BY <1>2 DEF Derived
<1> QED BY <1>1, <1>2

\* Every step keeps to them.
LEMMA TypeNext ==
    ASSUME CompressGivesWords, Works("dec"), NotMagic, TypeInv, [Next]_vars
    PROVE  TypeInv'
<1>1. OpenInv' /\ MacInv'
  BY OpenNext, MacNext DEF TypeInv
<1>2. job \in Jobs
  BY DEF TypeInv, MacInv
<1>3. CASE CreateEncryptor
  <2>1. /\ stage' = "enc" /\ stage = "new" /\ dkey' = Derived(salt')
        /\ salt' \in (IF job.iv = << >> THEN Salts ELSE {NoSalt})
        /\ UNCHANGED <<job, pos, dec, sealed, parsed, opened, mac, again>>
    BY <1>3 DEF CreateEncryptor
  <2>2. dkey' \in Seq(Byte)
    BY <1>2, <2>1, TypeKey
  <2>3. salt' \in Salts \cup {NoSalt}
    BY <2>1
  <2> QED BY <1>1, <2>1, <2>2, <2>3 DEF TypeInv
<1>4. CASE DeriveKey
  <2>1. /\ stage' = "derived" /\ stage = "kdf" /\ salt' \in Salts
        /\ dkey' = PBKDF2(Create(job.secret), Create(salt'), KeyWords, Iterations).words
        /\ UNCHANGED <<job, pos, enc, dec, sealed, parsed, opened, mac, again>>
    BY <1>4 DEF DeriveKey
  <2>2. job.secret \in Seq(Byte) /\ salt' \in Seq(Byte)
    BY <1>2, <2>1, JobFacts, MagicAssumption
  <2>3. dkey' \in Seq(Byte)
    BY <2>1, <2>2, PbIsFunction, PbKeyTyped
  <2>4. salt' \in Salts \cup {NoSalt}
    BY <2>1
  <2> QED BY <1>1, <2>1, <2>3, <2>4 DEF TypeInv
<1>5. CASE EncryptRest
  BY <1>1, <1>5 DEF TypeInv, EncryptRest
<1>6. CASE CreateDecryptor
  BY <1>1, <1>6 DEF TypeInv, CreateDecryptor
<1>7. CASE DecryptRest
  BY <1>1, <1>7 DEF TypeInv, DecryptRest
<1>8. CASE ResetEncryptor
  <2>1. /\ again' = FALSE /\ stage = "done" /\ stage' = "enc"
        /\ UNCHANGED <<job, pos, dec, dkey, salt, parsed, mac>>
    BY <1>8 DEF ResetEncryptor
  <2> QED BY <1>1, <2>1 DEF TypeInv
<1>9. CASE HashRest
  BY <1>1, <1>9 DEF TypeInv, HashRest
<1>10. CASE ResetMac
  <2>1. /\ again' = FALSE /\ stage = "hashed" /\ stage' = "hash"
        /\ UNCHANGED <<job, pos, enc, dec, dkey, salt, sealed, parsed, opened>>
    BY <1>10 DEF ResetMac
  <2> QED BY <1>1, <2>1 DEF TypeInv
<1>11. ASSUME NEW n \in Sizes, EncryptPiece(n) PROVE TypeInv'
  <2>1. /\ pos' = pos + n /\ stage = "enc"
        /\ UNCHANGED <<job, stage, dec, dkey, salt, parsed, opened, mac, again>>
    BY <1>11 DEF EncryptPiece
  <2>2. pos' \in Nat
    BY <2>1, SizesAssumption DEF TypeInv
  <2> QED BY <1>1, <2>1, <2>2 DEF TypeInv
<1>12. ASSUME NEW n \in Sizes, DecryptPiece(n) PROVE TypeInv'
  <2>1. /\ pos' = pos + n /\ stage = "dec"
        /\ UNCHANGED <<job, stage, enc, dkey, salt, sealed, parsed, mac, again>>
    BY <1>12 DEF DecryptPiece
  <2>2. pos' \in Nat
    BY <2>1, SizesAssumption DEF TypeInv
  <2> QED BY <1>1, <2>1, <2>2 DEF TypeInv
<1>13. ASSUME NEW n \in Sizes, HashPiece(n) PROVE TypeInv'
  <2>1. /\ pos' = pos + n /\ stage = "hash"
        /\ UNCHANGED <<job, stage, enc, dec, dkey, salt, sealed, parsed, opened, again>>
    BY <1>13 DEF HashPiece
  <2>2. pos' \in Nat
    BY <2>1, SizesAssumption DEF TypeInv
  <2> QED BY <1>1, <2>1, <2>2 DEF TypeInv
<1>14. CASE UNCHANGED vars
  BY <1>1, <1>14 DEF TypeInv, vars
<1> QED BY <1>3, <1>4, <1>5, <1>6, <1>7, <1>8, <1>9, <1>10, <1>11, <1>12, <1>13, <1>14 DEF Next

\* What encryptor and decryptor keep to themselves.
LEMMA KeptBetween ==
    ASSUME CompressGivesWords, TypeInv
    PROVE  /\ stage = "enc" => enc.data.sigBytes < Size(enc) /\ IsWords(enc.data) /\ IsWords(sealed)
           /\ stage = "dec" => /\ dec.data.sigBytes < Size(dec) * (1 + keepBack(dec))
                               /\ IsWords(dec.data) /\ IsWords(opened)
<1> DEFINE size == SizeOf(job.mode)
<1>1. size \in Nat /\ OpenInv /\ CipherInv
  BY SizeIs DEF TypeInv, OpenInv
<1>2. ASSUME stage = "enc"
      PROVE  enc.data.sigBytes < Size(enc) /\ IsWords(enc.data) /\ IsWords(sealed)
  <2>1. PICK st, ou, L : Sealing(st, ou, L, job, dkey) /\ HasSealed(enc, sealed, st, job, dkey, pos)
    BY <1>1, <1>2 DEF CipherInv
  <2>2. PICK q \in Nat : /\ HasTaken(enc, st, WholeOf(job), q, pos) /\ pos - q * size < size
                         /\ Keeps(sealed, RefOf(job, dkey), 0, q * size)
    BY <2>1 DEF HasSealed
  <2>3. enc.mode = job.mode
    BY <1>1, <1>2, CipherFields DEF CipherInv, EncryptorOf
  <2>4. Size(enc) = size
    BY <2>3 DEF Size, SizeOf, IsStream
  <2>5. enc.data.sigBytes = pos - q * size
    BY <2>2, <2>3 DEF HasTaken, Keeps
  <2>6. q * size \in Nat
    BY <1>1, Times
  <2> HIDE DEF size
  <2>7. IsWords(enc.data) /\ IsWords(sealed)
    BY <2>2, <2>6, TakenIsWords, KeepsIsWords
  <2> QED BY <2>2, <2>4, <2>5, <2>7
<1>3. ASSUME stage = "dec"
      PROVE  /\ dec.data.sigBytes < Size(dec) * (1 + keepBack(dec))
             /\ IsWords(dec.data) /\ IsWords(opened)
  <2>1. PICK st, ou, L : Opening(st, ou, L, job, dkey) /\ HasOpened(dec, opened, st, job, dkey, pos)
    BY <1>1, <1>3 DEF OpenInv
  <2>2. PICK q \in Nat : /\ HasTaken(dec, st, RefOf(job, dkey), q, pos)
                         /\ pos - q * size < size + KeptBack(job.mode)
                         /\ Keeps(opened, WholeOf(job), 0, q * size)
    BY <2>1 DEF HasOpened
  <2>3. dec.mode = job.mode /\ dec.xform = "dec"
    BY <1>1, <1>3, CipherFields DEF OpenInv, DecryptorOf
  <2>4. Size(dec) = size /\ keepBack(dec) = (IF job.mode = "RC4" THEN 0 ELSE 1)
    BY <2>3 DEF Size, SizeOf, IsStream, keepBack
  <2>5. KeptBack(job.mode) = (IF job.mode = "RC4" THEN 0 ELSE size)
    BY DEF KeptBack, Kept, Back
  <2>6. dec.data.sigBytes = pos - q * size
    BY <2>2, <2>3 DEF HasTaken, Keeps
  <2>7. q * size \in Nat
    BY <1>1, Times
  <2> HIDE DEF size
  <2>8. IsWords(dec.data) /\ IsWords(opened)
    BY <2>2, <2>7, TakenIsWords, KeepsIsWords
  <2>9. size * (1 + 0) = size + 0 /\ size * (1 + 1) = size + size
    BY <1>1
  <2>10. Size(dec) * (1 + keepBack(dec)) = size + KeptBack(job.mode)
    BY <2>4, <2>5, <2>9
  <2> QED BY <2>2, <2>6, <2>8, <2>10
<1> QED BY <1>2, <1>3

\* And the hasher.
LEMMA KeptByHasher ==
    ASSUME CompressGivesWords, TypeInv
    PROVE  /\ IsWords(mac.hasher.data)
           /\ stage = "hash" => mac.hasher.data.sigBytes < HashBytes
<1>1. CASE stage = "hash"
  <2> DEFINE s == InnerKey(job.secret) \o SubSeq(job.text, 1, pos)
             h == mac.hasher
             q == Len(s) \div HashBytes
  <2>1. Absorbed(h, s)
    BY <1>1 DEF TypeInv, MacInv
  <2> HIDE DEF s, h
  <2>2. Holds(h.data, s, q * HashBytes) /\ h.data.sigBytes < HashBytes /\ h.n = Len(s)
    BY <2>1 DEF Absorbed
  <2>3. Len(s) \in Nat
    <3>1. job \in Jobs /\ pos \in 0 .. Len(job.text)
      BY <1>1 DEF TypeInv, MacInv
    <3>2. InnerKey(job.secret) \in Seq(Byte) /\ SubSeq(job.text, 1, pos) \in Seq(Byte)
      BY <3>1, JobFacts, InnerKeyIsBytes
    <3> QED BY <3>2, TwoLong DEF s
  <2> DEFINE m == q * HashBytes
  <2> HIDE DEF q
  <2>4. m \in Nat /\ m <= Len(s) /\ h.data.sigBytes = Len(s) - m /\ h.data.words \in Seq(Byte)
    BY <2>2 DEF Holds
  <2> HIDE DEF m
  <2>5. h.data.sigBytes \in Nat
    BY <2>3, <2>4
  <2> QED BY <2>2, <2>4, <2>5, <1>1 DEF h, IsWords
<1>2. CASE stage = "hashed"
  BY <1>2 DEF TypeInv, MacInv
<1>3. CASE stage \notin {"hash", "hashed"}
  BY <1>3 DEF TypeInv
<1> QED BY <1>1, <1>2, <1>3

\* All of them are bytes, and no object keeps more than it has to.
LEMMA TypeGives == ASSUME CompressGivesWords, Works("dec") PROVE TypeInv => TypeOK
<1> SUFFICES ASSUME TypeInv PROVE TypeOK
  OBVIOUS
<1>1. OpenInv /\ CipherInv
  BY DEF TypeInv, OpenInv
<1>2. IsWords(sealed) /\ IsWords(enc.data)
  <2>1. CASE stage = "enc"
    BY <2>1, KeptBetween
  <2>2. CASE stage \in {"sealed", "dec", "done"}
    <3>1. /\ job \in Jobs /\ job.use = "cipher" /\ Fits(job, dkey) /\ IsWords(enc.data)
          /\ Keeps(sealed, RefOf(job, dkey), 0, Len(RefOf(job, dkey)))
      BY <1>1, <2>2 DEF CipherInv
    <3>2. Len(RefOf(job, dkey)) \in Nat
      BY <3>1, OpeningExists
    <3> QED BY <3>1, <3>2, KeepsIsWords
  <2>3. CASE stage \notin {"enc", "sealed", "dec", "done"}
    BY <2>3, NothingIsWords DEF TypeInv
  <2> QED BY <2>1, <2>2, <2>3
<1>3. IsWords(opened) /\ IsWords(dec.data)
  <2>1. CASE stage = "dec"
    BY <2>1, KeptBetween
  <2>2. CASE stage = "done"
    <3>1. job \in Jobs /\ Keeps(opened, job.text, 0, Len(job.text)) /\ IsWords(dec.data)
      BY <1>1, <2>2 DEF CipherInv, OpenInv
    <3>2. Len(job.text) \in Nat
      BY <3>1, JobFacts
    <3> QED BY <3>1, <3>2, KeepsIsWords
  <2>3. CASE stage \notin {"dec", "done"}
    BY <1>1, <2>3, NothingIsWords DEF OpenInv
  <2> QED BY <2>1, <2>2, <2>3
<1>4. \A w \in {sealed, opened, enc.data, dec.data, mac.hasher.data} : Bytes(w) \in Seq(Byte)
  BY <1>2, <1>3, KeptByHasher, WordsAreBytes
<1> QED BY <1>4, KeptBetween, KeptByHasher DEF TypeInv, TypeOK

\* Ciphertexts, plaintexts, keys and what the objects keep to themselves are bytes; between
\* two calls an object keeps less than a block, a decryptor less than two
\* (core.js _process with _minBufferSize, cipher-core.js).
THEOREM TypeCorrect ==
    ASSUME CompressGivesWords, EncryptsBlocks, DecryptsBlocks, NotMagic
    PROVE  Spec => []TypeOK
<1>1. Works("dec")
  BY DEF Works
<1>2. Init => TypeInv
  BY TypeInit
<1>3. TypeInv /\ [Next]_vars => TypeInv'
  BY <1>1, TypeNext
<1>4. TypeInv => TypeOK
  BY <1>1, TypeGives
<1> QED BY <1>2, <1>3, <1>4, PTL DEF Spec
==============================================================================
