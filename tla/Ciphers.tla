------------------------------ MODULE Ciphers ------------------------------
(***************************************************************************)
(* crypto-js: ciphers.  A block cipher is a parameter; here are its modes  *)
(* of operation, the paddings, RC4 as the example of a stream cipher, the  *)
(* cipher object that takes its data in pieces, and the formats in which a *)
(* ciphertext is written down.  A block is two words (4 in the code).      *)
(***************************************************************************)
EXTENDS Hashers, SequencesExt

CONSTANTS
    encryptBlock(_, _), decryptBlock(_, _),     \* of a key and a block
    Keys                                        \* keys

BlockBytes == 2 * WordBytes
BlockOf    == [1 .. BlockBytes -> Byte]

\* the length of a padding is a byte
ASSUME BlockAssumption  == BlockBytes < Base
ASSUME CipherAssumption ==
    \A k \in Keys, b \in BlockOf :
        encryptBlock(k, b) \in BlockOf /\ decryptBlock(k, encryptBlock(k, b)) = b

xorBlock(a, b) == [i \in 1 .. BlockBytes |-> Xor(a[i], b[i])]
Step(s, b)     == [state |-> s, block |-> b]

-----------------------------------------------------------------------------
(***************************************************************************)
(* Modes: a register (the iv, or what the mode keeps of the last block)    *)
(* and a block.  OFB, CTR and CTRGladman decrypt by encrypting.            *)
(***************************************************************************)
EcbEncrypt(key, reg, b) == Step(reg, encryptBlock(key, b))
EcbDecrypt(key, reg, b) == Step(reg, decryptBlock(key, b))
CbcEncrypt(key, reg, b) == LET c == encryptBlock(key, xorBlock(b, reg)) IN Step(c, c)
CbcDecrypt(key, reg, b) == Step(b, xorBlock(decryptBlock(key, b), reg))
CfbEncrypt(key, reg, b) == LET c == xorBlock(b, encryptBlock(key, reg)) IN Step(c, c)
CfbDecrypt(key, reg, b) == Step(b, xorBlock(b, encryptBlock(key, reg)))
OfbCrypt(key, reg, b)   == LET k == encryptBlock(key, reg) IN Step(k, xorBlock(b, k))

\* CTR: the last word counts, the others stay
CtrNext(reg) ==
    LET low   == [i \in 1 .. WordBytes |-> reg[BlockBytes - WordBytes + i]]
        \* the bytes behind byte i are all at their limit
        carry(i) == \A j \in i + 1 .. WordBytes : low[j] = Base - 1
    IN  [i \in 1 .. BlockBytes |->
            LET l == i - (BlockBytes - WordBytes)
            IN  IF l >= 1 /\ carry(l) THEN (reg[i] + 1) % Base ELSE reg[i]]
CtrCrypt(key, reg, b) == Step(CtrNext(reg), xorBlock(b, encryptBlock(key, reg)))

\* CTRGladman: the first two words count, the first byte is the lowest
incWord(w) ==
    [i \in 1 .. WordBytes |->
        IF \A j \in 1 .. i - 1 : w[j] = Base - 1 THEN (w[i] + 1) % Base ELSE w[i]]
Word(reg, k) == [i \in 1 .. WordBytes |-> reg[(k - 1) * WordBytes + i]]
incCounter(reg) ==
    LET first  == incWord(Word(reg, 1))
        second == IF first = Zeros(WordBytes) THEN incWord(Word(reg, 2)) ELSE Word(reg, 2)
    IN  [i \in 1 .. BlockBytes |-> IF i <= WordBytes THEN first[i]
                                   ELSE IF i <= 2 * WordBytes THEN second[i - WordBytes] ELSE reg[i]]
GladmanCrypt(key, reg, b) == LET n == incCounter(reg) IN Step(n, xorBlock(b, encryptBlock(key, n)))

Modes == {"ECB", "CBC", "CFB", "OFB", "CTR", "CTRGladman"}
Encrypt(mode, key, reg, b) ==
    CASE mode = "ECB" -> EcbEncrypt(key, reg, b)
      [] mode = "CBC" -> CbcEncrypt(key, reg, b)
      [] mode = "CFB" -> CfbEncrypt(key, reg, b)
      [] mode = "OFB" -> OfbCrypt(key, reg, b)
      [] mode = "CTR" -> CtrCrypt(key, reg, b)
      [] mode = "CTRGladman" -> GladmanCrypt(key, reg, b)
Decrypt(mode, key, reg, b) ==
    CASE mode = "ECB" -> EcbDecrypt(key, reg, b)
      [] mode = "CBC" -> CbcDecrypt(key, reg, b)
      [] mode = "CFB" -> CfbDecrypt(key, reg, b)
      [] OTHER -> Encrypt(mode, key, reg, b)

-----------------------------------------------------------------------------
(***************************************************************************)
(* RC4: a permutation of the bytes, and two places in it.  Its block is a  *)
(* word.                                                                   *)
(***************************************************************************)
Swap(S, i, j) == [S EXCEPT ![i] = S[j], ![j] = S[i]]
Rc4Init(key) ==
    LET ksa[i \in 0 .. Base] ==
            IF i = 0 THEN [S |-> [b \in Byte |-> b], j |-> 0]
            ELSE LET p == ksa[i - 1]
                     j == (p.j + p.S[i - 1] + key[((i - 1) % Len(key)) + 1]) % Base
                 IN  [S |-> Swap(p.S, i - 1, j), j |-> j]
    IN  [S |-> ksa[Base].S, i |-> 0, j |-> 0]
\* generateKeystreamWord: the state after each byte of a word, and the byte
Rc4Word(s) ==
    LET gen[n \in 0 .. WordBytes] ==
            IF n = 0 THEN [S |-> s.S, i |-> s.i, j |-> s.j, k |-> << >>]
            ELSE LET p == gen[n - 1]
                     i == (p.i + 1) % Base
                     j == (p.j + p.S[i]) % Base
                     S == Swap(p.S, i, j)
                 IN  [S |-> S, i |-> i, j |-> j, k |-> Append(p.k, S[(S[i] + S[j]) % Base])]
    IN  gen[WordBytes]
Rc4Crypt(s, b) == LET g == Rc4Word(s)
                  IN  Step([S |-> g.S, i |-> g.i, j |-> g.j], [n \in 1 .. WordBytes |-> Xor(b[n], g.k[n])])

-----------------------------------------------------------------------------
(***************************************************************************)
(* Paddings.  r are random bytes.                                          *)
(***************************************************************************)
Missing(data) == BlockBytes - (data.sigBytes % BlockBytes)
Mark          == Base \div 2

Pkcs7Pad(data)       == LET n == Missing(data) IN concat(data, Create([i \in 1 .. n |-> n]))
AnsiX923Pad(data)    == LET n == Missing(data) IN Create(Bytes(data) \o Zeros(n - 1) \o <<n>>)
Iso10126Pad(data, r) == LET n == Missing(data)
                        IN  concat(concat(data, Create(SubSeq(r, 1, n - 1))), Create(<<n>>))
ZeroPad(data)        == [clamp(data) EXCEPT !.sigBytes = @ + (Missing(data) % BlockBytes)]
Iso97971Pad(data)    == ZeroPad(concat(data, Create(<<Mark>>)))
pad(kind, data, r) ==
    CASE kind = "Pkcs7"    -> Pkcs7Pad(data)
      [] kind = "AnsiX923" -> AnsiX923Pad(data)
      [] kind = "Iso10126" -> Iso10126Pad(data, r)
      [] kind = "Iso97971" -> Iso97971Pad(data)
      [] kind = "Zero"     -> ZeroPad(data)
      [] kind = "No"       -> data

\* The last byte of the padding is how long it is.
CountUnpad(data)    == [data EXCEPT !.sigBytes = @ - ByteAt(data.words, @)]
\* The last byte that is not 0 is looked for, and for ever if all are 0.
ZeroUnpad(data)     ==
    [data EXCEPT !.sigBytes = CHOOSE i \in 1 .. @ : /\ ByteAt(data.words, i) # 0
                                                    /\ \A j \in i + 1 .. @ : ByteAt(data.words, j) = 0]
Iso97971Unpad(data) == [ZeroUnpad(data) EXCEPT !.sigBytes = @ - 1]
unpad(kind, data) ==
    CASE kind \in {"Pkcs7", "AnsiX923", "Iso10126"} -> CountUnpad(data)
      [] kind = "Iso97971" -> Iso97971Unpad(data)
      [] kind = "Zero"     -> ZeroUnpad(data)
      [] kind = "No"       -> data

-----------------------------------------------------------------------------
(***************************************************************************)
(* Cipher objects: xformMode, the mode, the padding, the key, _data and   *)
(* what doProcessBlock keeps.                                             *)
(***************************************************************************)
IsStream(o)  == o.mode = "RC4"
Size(o)      == IF IsStream(o) THEN WordBytes ELSE BlockBytes
\* mutation: nothing is kept back
keepNothing(o) == 0
\* reset: the decryptor of a block cipher always keeps a block back
reset(o)     == [o EXCEPT !.data = Create(<< >>), !.reg = IF IsStream(o) THEN Rc4Init(o.key) ELSE o.iv]
keepBack(o)  == IF ~IsStream(o) /\ o.xform = "dec" THEN 1 ELSE 0
cipher(xform, mode, padding, key, iv) ==
    reset([xform |-> xform, mode |-> mode, padding |-> padding, key |-> key, iv |-> iv,
           data |-> Create(<< >>), reg |-> iv])

doProcessBlock(o, reg, b) == CASE IsStream(o)                       -> Rc4Crypt(reg, b)
                                [] ~IsStream(o) /\ o.xform = "enc"  -> Encrypt(o.mode, o.key, reg, b)
                                [] OTHER                            -> Decrypt(o.mode, o.key, reg, b)
\* the object that results, and what it returns
process(o, flush) ==
    LET t == Taken(o.data, Size(o), keepBack(o), flush)
        after[k \in 0 .. Len(t.blocks)] ==
            IF k = 0 THEN [state |-> o.reg, out |-> << >>]
            ELSE LET s == doProcessBlock(o, after[k - 1].state, t.blocks[k])
                 IN  [state |-> s.state, out |-> after[k - 1].out \o s.block]
        last == after[Len(t.blocks)]
    IN  [o   |-> [o EXCEPT !.data = t.rest, !.reg = last.state],
         out |-> [words |-> last.out, sigBytes |-> t.sigBytes]]
cipherProcess(o, w) == process([o EXCEPT !.data = concat(@, w)], FALSE)
cipherFinalize(o, w, r) ==
    LET a == [o EXCEPT !.data = concat(@, w)]
        p == IF IsStream(o) \/ o.xform = "dec" THEN a
             ELSE [a EXCEPT !.data = pad(a.padding, @, r)]
        f == process(p, TRUE)
    IN  IF IsStream(o) \/ o.xform = "enc" THEN f ELSE [f EXCEPT !.out = unpad(o.padding, @)]

-----------------------------------------------------------------------------
(***************************************************************************)
(* Formats.  OpenSSL writes the salt, if there is one, between a magic     *)
(* number and the ciphertext.                                              *)
(***************************************************************************)
CONSTANT Magic      \* two words: "Salted__"
NoSalt    == << >>
SaltBytes == 2 * WordBytes

OpenSSLStringify(ciphertext, salt) ==
    Base64Stringify(IF salt = NoSalt THEN ciphertext
                    ELSE concat(concat(Create(Magic), Create(salt)), ciphertext))
OpenSSLParse(s) ==
    LET w      == Base64Parse(s)
        behind == Len(Magic) + SaltBytes
    IN  IF IsPrefix(Magic, w.words)
        THEN [salt |-> SubSeq(w.words, Len(Magic) + 1, behind),
              ciphertext |-> [words |-> SubSeq(w.words, behind + 1, Len(w.words)),
                              sigBytes |-> w.sigBytes - behind]]
        ELSE [salt |-> NoSalt, ciphertext |-> w]
\* Hex writes the ciphertext alone.
HexFormatParse(s) == [salt |-> NoSalt, ciphertext |-> HexParse(s)]
=============================================================================
