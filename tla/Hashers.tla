------------------------------ MODULE Hashers ------------------------------
(***************************************************************************)
(* crypto-js: algorithms that work block by block on data that comes in    *)
(* pieces, and the hashes built on them.  An object is a record; a method  *)
(* is an operator from the object to the object it becomes.                *)
(*                                                                         *)
(* The rounds of a hash are a parameter, compress.  A hash block is three  *)
(* words (16 in the code), the count of the bytes takes two of them.       *)
(***************************************************************************)
EXTENDS WordArrays

CONSTANTS
    Xor(_, _), Or(_, _),    \* of two bytes
    compress(_, _),         \* a state of the hash (one word) and a block
    IPad, OPad              \* bytes 0x36 and 0x5c

ASSUME ByteAssumption == \A a, b \in Byte : Xor(a, b) \in Byte /\ Xor(Xor(a, b), b) = a
ASSUME OrAssumption   == \A b \in Byte : Or(0, b) = b
ASSUME PadAssumption  == IPad \in Byte /\ OPad \in Byte

Least(a, b) == IF a < b THEN a ELSE b
Block(words, k, size) == [i \in 1 .. size |-> ByteAt(words, k * size + i)]

\* mutation: one block more is kept
BlocksLate(data, size, keep, flush) ==
    IF flush THEN (data.sigBytes + size - 1) \div size
    ELSE IF data.sigBytes \div size > keep + 1 THEN data.sigBytes \div size - keep - 1 ELSE 0
\* How many blocks of the buffer are taken: all of them, the last one filled up,
\* in a flush; otherwise the whole ones, except a few that are kept.
BlocksReady(data, size, keep, flush) ==
    IF flush THEN (data.sigBytes + size - 1) \div size
    ELSE IF data.sigBytes \div size > keep THEN data.sigBytes \div size - keep ELSE 0
\* _process: the blocks that are taken, how many bytes of them are data, the rest
Taken(data, size, keep, flush) ==
    LET n     == BlocksReady(data, size, keep, flush)
        ready == Least(n * size, data.sigBytes)
    IN  [blocks   |-> [k \in 1 .. n |-> Block(data.words, k - 1, size)],
         sigBytes |-> ready,
         rest     |-> [words    |-> SubSeq(data.words, n * size + 1, Len(data.words)),
                       sigBytes |-> data.sigBytes - ready]]

-----------------------------------------------------------------------------
HashBytes == 3 * WordBytes
LenBytes  == 2 * WordBytes
Start     == Zeros(WordBytes)

\* the hasher's _doProcessBlock, block after block
compressAll(h, blocks) ==
    LET after[k \in 0 .. Len(blocks)] == IF k = 0 THEN h ELSE compress(after[k - 1], blocks[k])
    IN  after[Len(blocks)]
\* Hasher: _data, _nDataBytes, _hash
NewHash       == [data |-> Create(<< >>), n |-> 0, hash |-> Start]
append(o, w)  == [o EXCEPT !.data = concat(o.data, w), !.n = o.n + w.sigBytes]
update(o, w)  == LET a == append(o, w)
                     t == Taken(a.data, HashBytes, 0, FALSE)
                 IN  [a EXCEPT !.data = t.rest, !.hash = compressAll(@, t.blocks)]
\* the count of bytes, in the last word of two
Count(n)      == Zeros(LenBytes - 2) \o << (n \div Base) % Base, n % Base >>
\* One bit is set behind the data, the count is the end of this block or, when
\* it does not fit there, of the next.
Closed(o) ==
    LET sig  == o.data.sigBytes
        size == ((sig + LenBytes) \div HashBytes + 1) * HashBytes
        byte(i) == IF i = sig + 1 THEN Or(ByteAt(o.data.words, i), Base \div 2)
                   ELSE ByteAt(o.data.words, i)
    IN  [i \in 1 .. size |-> IF i > size - LenBytes THEN Count(o.n)[i - size + LenBytes] ELSE byte(i)]
\* finalize does not reset: the object is spent until reset.
finalize(o, w) == LET a == append(o, w)
                      t == Taken(Create(Closed(a)), HashBytes, 0, FALSE)
                  IN  [a EXCEPT !.data = t.rest, !.hash = compressAll(@, t.blocks)]
digest(o)      == Create(o.hash)

-----------------------------------------------------------------------------
(***************************************************************************)
(* HMAC, and the keys that are derived with hashes.  These objects use one *)
(* hasher again and again.                                                 *)
(***************************************************************************)
\* mutation: the inner key is not put in again
hmacBare(o) == [o EXCEPT !.hasher = NewHash]
hmacReset(o) == [o EXCEPT !.hasher = update(NewHash, o.iKey)]
hmacInit(key) ==
    LET k       == Bytes(IF key.sigBytes > HashBytes THEN digest(finalize(NewHash, key)) ELSE key)
        with(p) == Create([i \in 1 .. HashBytes |-> Xor(ByteAt(k, i), p)])
    IN  hmacReset([hasher |-> NewHash, iKey |-> with(IPad), oKey |-> with(OPad)])
hmacUpdate(o, w) == [o EXCEPT !.hasher = update(o.hasher, w)]
\* The result is the digest of the hasher, which is spent then.
hmacFinalize(o, w) ==
    LET inner == finalize(o.hasher, w)
    IN  [o EXCEPT !.hasher = finalize(NewHash, concat(o.oKey, digest(inner)))]

\* mutation: a part does not depend on the one before
EvpForgets(password, salt, size) ==
    LET block == finalize(update(NewHash, password), salt).hash
    IN  Create([i \in 1 .. size * WordBytes |-> block[((i - 1) % WordBytes) + 1]])
\* keys of `size' words, one word (a digest) after the other
EvpKDF(password, salt, size) ==
    LET run[k \in 0 .. size] ==
            IF k = 0 THEN [hasher |-> NewHash, block |-> << >>, key |-> << >>]
            ELSE LET r     == run[k - 1]
                     again == IF k = 1 THEN r.hasher ELSE update(r.hasher, Create(r.block))
                     block == finalize(update(again, password), salt).hash
                 IN  [hasher |-> NewHash, block |-> block, key |-> r.key \o block]
    IN  Create(run[size].key)

XorWords(a, b) == [i \in DOMAIN a |-> Xor(a[i], b[i])]
PBKDF2(password, salt, size, iterations) ==
    LET index(k) == Create(Zeros(WordBytes - 1) \o <<k>>)
        \* one hmac object for all of them, reset after each use
        run[k \in 0 .. size] ==
            IF k = 0 THEN [hmac |-> hmacInit(password), key |-> << >>]
            ELSE LET r     == run[k - 1]
                     first == hmacFinalize(hmacUpdate(r.hmac, salt), index(k))
                     it[j \in 1 .. iterations] ==
                         IF j = 1 THEN [hmac |-> hmacReset(first), last |-> first.hasher.hash,
                                        block |-> first.hasher.hash]
                         ELSE LET i == it[j - 1]
                                  u == hmacFinalize(i.hmac, Create(i.last))
                              IN  [hmac |-> hmacReset(u), last |-> u.hasher.hash,
                                   block |-> XorWords(i.block, u.hasher.hash)]
                     block == it[iterations]
                 IN  [hmac |-> block.hmac, key |-> r.key \o block.block]
    IN  Create(run[size].key)

-----------------------------------------------------------------------------
(***************************************************************************)
(* What a hash, an HMAC and a derived key are, of bytes all at once.       *)
(***************************************************************************)
\* the bytes, the mark, zeros up to the count, and the count
Message(bytes) ==
    LET n    == Len(bytes)
        fill == CHOOSE z \in 0 .. HashBytes - 1 : (n + 1 + z + LenBytes) % HashBytes = 0
    IN  bytes \o <<Base \div 2>> \o Zeros(fill) \o Count(n)
Digest(bytes) ==
    LET m      == Message(bytes)
        h[k \in 0 .. Len(m) \div HashBytes] ==
            IF k = 0 THEN Start ELSE compress(h[k - 1], Block(m, k - 1, HashBytes))
    IN  h[Len(m) \div HashBytes]
Mac(key, bytes) ==
    LET k    == IF Len(key) > HashBytes THEN Digest(key) ELSE key
        w(p) == [i \in 1 .. HashBytes |-> Xor(ByteAt(k, i), p)]
    IN  Digest(w(OPad) \o Digest(w(IPad) \o bytes))
=============================================================================
