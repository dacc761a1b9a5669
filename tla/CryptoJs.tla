------------------------------ MODULE CryptoJs ------------------------------
(***************************************************************************)
(* A page and crypto-js: a message is encrypted in pieces, written down,   *)
(* read again, and decrypted in other pieces; or it is hashed in pieces    *)
(* with an object that is used more than once.  The pieces carry whatever  *)
(* bytes were left behind them in their last word.                         *)
(***************************************************************************)
EXTENDS Ciphers

CONSTANTS
    Jobs,       \* what is done (see Job)
    Sizes,      \* how many bytes a piece may have (a bound)
    Salts,      \* the salts that may be drawn
    Reuse       \* is an object reset and used once more?

\* use: "kdf" is PBKDF2; mode and pad: of the cipher; text: the message, or the
\* salt of PBKDF2; left: what the bytes behind a piece hold; random: for
\* Iso10126; format: of the ciphertext; secret: the key, or a password if there
\* is no iv; of a hash, the key of an HMAC or none
Job == [use : {"cipher", "hash", "kdf"}, mode : Modes \cup {"RC4"},
        pad : {"Pkcs7", "AnsiX923", "Iso10126", "Iso97971", "Zero", "No"},
        text : Seq(Byte), left : Byte, random : Seq(Byte), format : {"OpenSSL", "Hex"},
        secret : Seq(Byte), iv : Seq(Byte)]

ASSUME SizesAssumption == Sizes \subseteq Nat
ASSUME ReuseAssumption == Reuse \in BOOLEAN
ASSUME JobAssumption   == \A j \in Jobs : j \in Job
\* what is left to whoever calls: a key, an iv of one block, random bytes for a
\* padding, whole blocks if there is no padding and the mode needs them, a message
\* that does not end in what ZeroPadding adds, and a format that holds the salt
ASSUME CallerAssumption ==
    \A j \in Jobs : j.use = "cipher" =>
        /\ j.secret # << >> /\ (j.iv = << >> \/ Len(j.iv) = BlockBytes)
        /\ Len(j.random) >= BlockBytes - 1
        /\ j.pad = "No" /\ j.mode \in {"ECB", "CBC"} => Len(j.text) % BlockBytes = 0
        /\ j.pad = "Zero" /\ j.mode # "RC4" => j.text # << >> /\ j.text[Len(j.text)] # 0
        /\ j.iv = << >> => j.format = "OpenSSL"
ASSUME MagicAssumption ==
    /\ Magic \in Seq(Byte) /\ Len(Magic) = 2 * WordBytes
    /\ \A s \in Salts : s \in Seq(Byte) /\ Len(s) = SaltBytes

VARIABLES
    job,        \* what is done in this behaviour
    stage,      \* "new", "enc", "sealed", "dec", "done"; "hash", "hashed"; "kdf", "derived"
    pos,        \* how many bytes the object in use has taken
    enc, dec,   \* the cipher objects
    dkey,       \* the key that was derived
    salt,       \* the salt that was drawn
    sealed,     \* the ciphertext so far
    parsed,     \* the ciphertext as the decryptor gets it
    opened,     \* the plaintext so far
    mac,        \* the hash or HMAC object
    again       \* may the object be used once more?

vars == <<job, stage, pos, enc, dec, dkey, salt, sealed, parsed, opened, mac, again>>

Nothing == Create(<< >>)
\* the next n bytes, in words that hold something behind them
Piece(bytes, n, left) ==
    LET p == SubSeq(bytes, pos + 1, pos + n)
    IN  [words |-> p \o [i \in 1 .. Up(n) - n + WordBytes |-> left], sigBytes |-> n]
Clean(bytes, n) == Create(SubSeq(bytes, pos + 1, pos + n))

\* SerializableCipher takes key and iv as they are, PasswordBasedCipher derives
\* them from a password and a salt: a key of one word, and an iv.
KeyWords   == 3
Iterations == 2
Derived(s) == IF job.iv = << >> THEN EvpKDF(Create(job.secret), Create(s), KeyWords).words ELSE << >>
Cipher(xform, derived) ==
    IF job.iv # << >> THEN cipher(xform, job.mode, job.pad, job.secret, job.iv)
    ELSE cipher(xform, job.mode, job.pad, SubSeq(derived, 1, WordBytes),
                SubSeq(derived, WordBytes + 1, WordBytes + BlockBytes))
NewMac == IF job.secret = << >> THEN [hasher |-> NewHash] ELSE hmacInit(Create(job.secret))

Init ==
    /\ job \in Jobs
    /\ stage = (IF job.use = "cipher" THEN "new" ELSE job.use)
    /\ pos = 0 /\ dkey = << >> /\ salt = NoSalt /\ sealed = Nothing /\ parsed = << >> /\ opened = Nothing
    /\ enc = [data |-> Nothing] /\ dec = [data |-> Nothing]
    /\ mac = (IF job.use = "hash" THEN NewMac ELSE [hasher |-> NewHash])
    /\ again = Reuse

-----------------------------------------------------------------------------
\* encrypt: the kdf draws a salt if there is a password
CreateEncryptor ==
    /\ stage = "new" /\ stage' = "enc"
    /\ salt' \in IF job.iv = << >> THEN Salts ELSE {NoSalt}
    /\ dkey' = Derived(salt') /\ enc' = Cipher("enc", dkey')
    /\ UNCHANGED <<job, pos, dec, sealed, parsed, opened, mac, again>>

EncryptPiece(n) ==
    /\ stage = "enc" /\ pos + n <= Len(job.text)
    /\ LET r == cipherProcess(enc, Piece(job.text, n, job.left))
       IN  enc' = r.o /\ sealed' = concat(sealed, r.out)
    /\ pos' = pos + n
    /\ UNCHANGED <<job, stage, dec, dkey, salt, parsed, opened, mac, again>>

EncryptRest ==
    /\ stage = "enc" /\ stage' = "sealed"
    /\ LET n == Len(job.text) - pos
           r == cipherFinalize(enc, Piece(job.text, n, job.left), job.random)
       IN  enc' = r.o /\ sealed' = concat(sealed, r.out)
    /\ pos' = 0
    /\ UNCHANGED <<job, dec, dkey, salt, parsed, opened, mac, again>>

\* decrypt: the ciphertext is written and parsed, its salt goes to the kdf
CreateDecryptor ==
    /\ stage = "sealed" /\ stage' = "dec"
    /\ LET p == IF job.format = "OpenSSL" THEN OpenSSLParse(OpenSSLStringify(sealed, salt))
                ELSE HexFormatParse(HexStringify(sealed))
       IN  parsed' = Bytes(p.ciphertext) /\ dec' = Cipher("dec", Derived(p.salt))
    /\ UNCHANGED <<job, pos, enc, dkey, salt, sealed, opened, mac, again>>

DecryptPiece(n) ==
    /\ stage = "dec" /\ pos + n <= Len(parsed)
    /\ LET r == cipherProcess(dec, Piece(parsed, n, job.left))
       IN  dec' = r.o /\ opened' = concat(opened, r.out)
    /\ pos' = pos + n
    /\ UNCHANGED <<job, stage, enc, dkey, salt, sealed, parsed, mac, again>>

DecryptRest ==
    /\ stage = "dec" /\ stage' = "done"
    /\ LET n == Len(parsed) - pos
           r == cipherFinalize(dec, Piece(parsed, n, job.left), job.random)
       IN  dec' = r.o /\ opened' = concat(opened, r.out)
    /\ pos' = 0
    /\ UNCHANGED <<job, enc, dkey, salt, sealed, parsed, mac, again>>

\* reset: the same encryptor once more, after reset
ResetEncryptor ==
    /\ stage = "done" /\ again
    /\ stage' = "enc" /\ again' = FALSE
    /\ enc' = reset(enc) /\ sealed' = Nothing /\ opened' = Nothing
    /\ UNCHANGED <<job, pos, dec, dkey, salt, parsed, mac>>

-----------------------------------------------------------------------------
HashPiece(n) ==
    /\ stage = "hash" /\ pos + n <= Len(job.text)
    /\ mac' = hmacUpdate(mac, Clean(job.text, n))
    /\ pos' = pos + n
    /\ UNCHANGED <<job, stage, enc, dec, dkey, salt, sealed, parsed, opened, again>>
HashRest ==
    /\ stage = "hash" /\ stage' = "hashed"
    /\ LET w == Clean(job.text, Len(job.text) - pos)
       IN  mac' = IF job.secret = << >> THEN [mac EXCEPT !.hasher = finalize(@, w)]
                  ELSE hmacFinalize(mac, w)
    /\ pos' = 0
    /\ UNCHANGED <<job, enc, dec, dkey, salt, sealed, parsed, opened, again>>
ResetMac ==
    /\ stage = "hashed" /\ again
    /\ stage' = "hash" /\ again' = FALSE
    /\ mac' = IF job.secret = << >> THEN [mac EXCEPT !.hasher = NewHash] ELSE hmacReset(mac)
    /\ UNCHANGED <<job, pos, enc, dec, dkey, salt, sealed, parsed, opened>>

\* PBKDF2 with a random salt
DeriveKey ==
    /\ stage = "kdf" /\ stage' = "derived"
    /\ salt' \in Salts
    /\ dkey' = PBKDF2(Create(job.secret), Create(salt'), KeyWords, Iterations).words
    /\ UNCHANGED <<job, pos, enc, dec, sealed, parsed, opened, mac, again>>

Next == \/ CreateEncryptor \/ EncryptRest \/ CreateDecryptor \/ DecryptRest \/ ResetEncryptor
        \/ HashRest \/ ResetMac \/ DeriveKey
        \/ \E n \in Sizes : EncryptPiece(n) \/ DecryptPiece(n) \/ HashPiece(n)

Spec == Init /\ [][Next]_vars

-----------------------------------------------------------------------------
(***************************************************************************)
(* Properties.                                                             *)
(***************************************************************************)
TypeOK ==
    /\ again \in BOOLEAN
    /\ stage \in {"new", "enc", "sealed", "dec", "done", "hash", "hashed", "kdf", "derived"}
    /\ pos \in Nat /\ dkey \in Seq(Byte) /\ salt \in Salts \cup {NoSalt}
    /\ \A w \in {sealed, opened, enc.data, dec.data, mac.hasher.data} : Bytes(w) \in Seq(Byte)
    \* what an object keeps to itself between two calls
    /\ stage = "enc"  => enc.data.sigBytes < Size(enc)
    /\ stage = "dec"  => dec.data.sigBytes < Size(dec) * (1 + keepBack(dec))
    /\ stage = "hash" => mac.hasher.data.sigBytes < HashBytes

\* What progressive decryption returns is the message, piece by piece and for
\* good, whatever pieces the data come in on either side: the padding, which is
\* only known at the end, is never handed out and taken back.
D == INSTANCE Delivery WITH message <- job.text, out <- Bytes(opened), done <- (stage = "done")
Delivers == D!Spec

\* The ciphertext by the textbook: of the whole padded message, and counters as
\* numbers.
BlockAt(bytes, k) == [i \in 1 .. BlockBytes |-> ByteAt(bytes, (k - 1) * BlockBytes + i)]
Number(digits) ==
    LET n[k \in 0 .. Len(digits)] == IF k = 0 THEN 0 ELSE n[k - 1] * Base + digits[k]
    IN  n[Len(digits)]
\* the last len digits
Digits(n, len) ==
    LET q[e \in 0 .. len] == IF e = 0 THEN n ELSE q[e - 1] \div Base
    IN  [i \in 1 .. len |-> q[len - i] % Base]
CounterBlock(mode, iv, k) ==
    LET low   == SubSeq(iv, BlockBytes - WordBytes + 1, BlockBytes)
        front == Reverse(SubSeq(iv, 1, 2 * WordBytes))
    IN  IF mode = "CTR"
        THEN SubSeq(iv, 1, BlockBytes - WordBytes) \o Digits(Number(low) + k - 1, WordBytes)
        ELSE Reverse(Digits(Number(front) + k, 2 * WordBytes)) \o SubSeq(iv, 2 * WordBytes + 1, BlockBytes)
Textbook(mode, key, iv, text) ==
    LET blocks == (Len(text) + BlockBytes - 1) \div BlockBytes
        p(k)   == BlockAt(text, k)
        E(b)   == encryptBlock(key, b)
        \* the keystream of OFB
        o[k \in 0 .. blocks] == IF k = 0 THEN iv ELSE E(o[k - 1])
        \* block k, of the block before it
        next(k, b) == CASE mode = "ECB" -> E(p(k))
                        [] mode = "CBC" -> E(xorBlock(p(k), b))
                        [] mode = "CFB" -> xorBlock(p(k), E(b))
                        [] mode = "OFB" -> xorBlock(p(k), o[k])
                        [] OTHER        -> xorBlock(p(k), E(CounterBlock(mode, iv, k)))
        c[k \in 0 .. blocks] == IF k = 0 THEN iv ELSE next(k, c[k - 1])
    IN  SubSeq(FlattenSeq([k \in 1 .. blocks |-> c[k]]), 1, Len(text))
\* RC4 byte by byte
Keystream(key, len) ==
    LET g[n \in 0 .. len] ==
            IF n = 0 THEN [S |-> Rc4Init(key).S, j |-> 0, out |-> << >>]
            ELSE LET p == g[n - 1]
                     i == n % Base
                     j == (p.j + p.S[i]) % Base
                     S == Swap(p.S, i, j)
                 IN  [S |-> S, j |-> j, out |-> Append(p.out, S[(S[i] + S[j]) % Base])]
    IN  g[len].out
Reference ==
    LET o == Cipher("enc", dkey)
    IN  IF job.mode = "RC4"
        THEN XorWords(job.text, Keystream(o.key, Len(job.text)))
        ELSE Textbook(job.mode, o.key, o.iv, Bytes(pad(job.pad, Create(job.text), job.random)))

\* However a message is cut up, and whatever lies behind the pieces, what has
\* been written is the beginning of the one ciphertext of that message.
CiphertextIsReference ==
    stage \in {"enc", "sealed"} =>
        IF stage = "sealed" THEN Bytes(sealed) = Reference ELSE IsPrefix(Bytes(sealed), Reference)

\* However a message is cut up, a hash or an HMAC is that of the whole message,
\* also of an object that has been reset.
MacIsFunction ==
    stage = "hashed" => mac.hasher.hash = IF job.secret = << >> THEN Digest(job.text)
                                          ELSE Mac(job.secret, job.text)

\* Derived keys depend on the password and the salt only, though one hasher is
\* used for all their parts: what the code gets is what fresh ones give.
EvpKey(password, s) ==
    LET d[k \in 0 .. KeyWords] == IF k = 0 THEN << >> ELSE Digest(d[k - 1] \o password \o s)
    IN  FlattenSeq([k \in 1 .. KeyWords |-> d[k]])
Pbkdf2Key(password, s) ==
    LET u[j \in 1 .. Iterations] ==
            [k \in 1 .. KeyWords |-> Mac(password, IF j = 1 THEN s \o Zeros(WordBytes - 1) \o <<k>> ELSE u[j - 1][k])]
        t[j \in 1 .. Iterations] ==
            IF j = 1 THEN u[1] ELSE [k \in 1 .. KeyWords |-> XorWords(t[j - 1][k], u[j][k])]
    IN  FlattenSeq(t[Iterations])
KeyIsFunction ==
    dkey # << >> => dkey = IF job.use = "kdf" THEN Pbkdf2Key(job.secret, salt) ELSE EvpKey(job.secret, salt)
=============================================================================
