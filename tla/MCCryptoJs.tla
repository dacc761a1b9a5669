----------------------------- MODULE MCCryptoJs -----------------------------
(* crypto-js with 4-bit bytes and words of two: toy rounds, and the jobs. *)
EXTENDS CryptoJs

Bit(n, i)  == (n \div 2 ^ i) % 2
Bits(f(_)) == f(0) + 2 * f(1) + 4 * f(2) + 8 * f(3)
XorTable   == [a, b \in Byte |-> Bits(LAMBDA i : (Bit(a, i) + Bit(b, i)) % 2)]
OrTable    == [a, b \in Byte |-> Bits(LAMBDA i : IF Bit(a, i) + Bit(b, i) = 0 THEN 0 ELSE 1)]
MCXor(a, b) == XorTable[a, b]
MCOr(a, b)  == OrTable[a, b]

\* a hash: neither symmetric in the block's bytes nor linear
MCCompress(h, block) ==
    LET fold[k \in 0 .. Len(block)] ==
            IF k = 0 THEN h
            ELSE LET a == fold[k - 1] IN <<(a[1] * 3 + block[k] + a[2] + 1) % Base, (a[2] * 5 + a[1] * block[k]) % Base>>
    IN  fold[Len(block)]

\* a block cipher: 5 and 13 are inverse modulo 16
KeyByte(k, i) == k[((i - 1) % Len(k)) + 1]
MCEncryptBlock(k, b) ==
    LET c[i \in 0 .. BlockBytes] ==
            IF i = 0 THEN 7 ELSE (5 * b[i] + 3 * c[i - 1] + KeyByte(k, i) + i) % Base
    IN  [i \in 1 .. BlockBytes |-> c[i]]
MCDecryptBlock(k, c) ==
    [i \in 1 .. BlockBytes |->
        (13 * (c[i] + 4 * Base - 3 * (IF i = 1 THEN 7 ELSE c[i - 1]) - KeyByte(k, i) - i + Base)) % Base]

Text(n)  == [i \in 1 .. n |-> (i * 7 + 4) % 16]       \* 11, 2, 9, 0, 7, ...
Plain    == [use |-> "cipher", mode |-> "CBC", pad |-> "Pkcs7", text |-> << >>, left |-> 0,
             random |-> <<3, 0, 12, 9>>, format |-> "OpenSSL", secret |-> <<6, 11, 1, 13>>,
             iv |-> <<15, 15, 15, 14>>]
Stream   == {"CFB", "OFB", "CTR", "CTRGladman"}
MCMagic  == <<5, 3, 6, 1>>
MCSalts  == {<<1, 2, 3, 4>>, <<5, 3, 6, 1>>}
MCSizes  == 1 .. 5

MCJobs ==
    LET lengths == 0 .. 9
        lefts   == {0, 15}
        secrets == {<< >>, <<4>>, [i \in 1 .. 6 |-> i], [i \in 1 .. 7 |-> 2 * i]}
    IN  {[Plain EXCEPT !.mode = m, !.text = Text(n), !.left = l] : m \in Modes, n \in lengths, l \in lefts}
        \* the paddings; a message that ends in 0 is not for ZeroPadding
        \cup {[Plain EXCEPT !.pad = p, !.text = Text(n), !.left = l] :
                  p \in {"AnsiX923", "Iso10126", "Iso97971"}, n \in lengths, l \in lefts}
        \cup {[Plain EXCEPT !.pad = "Zero", !.text = Text(n), !.left = l] :
                  n \in {k \in lengths : k > 0 /\ Text(k)[k] # 0}, l \in lefts}
        \* no padding needs whole blocks, or a mode that uses keystream
        \cup {[Plain EXCEPT !.mode = m, !.pad = "No", !.text = Text(n), !.left = 9] : m \in Modes, n \in {4, 8}}
        \cup {[Plain EXCEPT !.mode = m, !.pad = "No", !.text = Text(n), !.left = l] :
                  m \in Stream \cup {"RC4"}, n \in lengths, l \in lefts}
        \cup {[Plain EXCEPT !.text = Text(n), !.format = "Hex"] : n \in lengths}
        \cup {[Plain EXCEPT !.mode = m, !.text = Text(n), !.iv = << >>] : m \in {"CBC", "RC4"}, n \in lengths}
        \cup {[Plain EXCEPT !.use = "hash", !.text = Text(n), !.secret = s] : n \in 0 .. 13, s \in secrets}
        \cup {[Plain EXCEPT !.use = "kdf", !.secret = s] : s \in secrets \ {<< >>}}

MCKeys == {Plain.secret}
=============================================================================
