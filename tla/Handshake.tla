----------------------------- MODULE Handshake ------------------------------
(***************************************************************************)
(* The RTMP handshake: c0c1, s0s1s2 and c2, and the digests of the complex *)
(* handshake (built with SRS_AUTO_SSL).  A block of 1536 bytes is a        *)
(* sequence of tokens: a token <<n>> is a field or a run of random bytes,  *)
(* <<key, data>> is the result of openssl_HMACsha256, which is taken to be *)
(* injective.  The 764 bytes of the key and the digest block shrink to     *)
(* BlockSize tokens and the key's 128 to KeySize; the digest is one token. *)
(***************************************************************************)
EXTENDS Naturals, Sequences, SequencesExt

CONSTANTS BlockSize, KeySize

ASSUME HandshakeAssumption ==
    /\ BlockSize \in Nat /\ KeySize \in Nat \ {0}
    /\ BlockSize > KeySize + 2

Number(n)   == <<n>>
Random(n)   == [i \in 1..n |-> Number(99)]
Hmac(k, bytes) == <<k, bytes>>

\* The seven keys, prefixes of two constants, are told apart by name.
GenuineFPKey  == "fp30"
GenuineFMSKey == "fms36"
ClientKey     == "fp62"
ServerKey     == "fms68"

-----------------------------------------------------------------------------
(* The key and the digest of a c1 or s1, at the place its offset gives. *)

Offset(n, room) == n % room
KeyRoom    == BlockSize - KeySize - 1
DigestRoom == BlockSize - 2

\* The key block ends with its offset, the digest block begins with it.
key_block(offset, key) ==
    LET at == Offset(offset, KeyRoom)
    IN  Random(at) \o key \o Random(KeyRoom - at) \o <<Number(offset)>>

digest_block(offset, digest) ==
    LET at == Offset(offset, DigestRoom)
    IN  <<Number(offset)>> \o Random(at) \o digest \o Random(DigestRoom - at)

key_parse(b) ==
    LET at == Offset(b[BlockSize][1], KeyRoom)
    IN  [offset |-> b[BlockSize][1], key |-> SubSeq(b, at + 1, at + KeySize),
         rest |-> <<SubSeq(b, 1, at), SubSeq(b, at + KeySize + 1, BlockSize - 1)>>]

digest_parse(b) ==
    LET at == Offset(b[1][1], DigestRoom)
    IN  [offset |-> b[1][1], digest |-> b[at + 2],
         rest |-> <<SubSeq(b, 2, at + 1), SubSeq(b, at + 3, BlockSize)>>]

copy_key(k) == k.rest[1] \o k.key \o k.rest[2] \o <<Number(k.offset)>>

copy_digest(d, with_digest) ==
    <<Number(d.offset)>> \o d.rest[1]
        \o (IF with_digest THEN <<d.digest>> ELSE <<>>) \o d.rest[2]

\* schema0 puts the key first, schema1 the digest.
copy_time_version(c) == <<Number(c.time), Number(c.version)>>
schema0_copy_to(c, with_digest) ==
    copy_time_version(c) \o copy_key(c.key) \o copy_digest(c.digest, with_digest)
schema1_copy_to(c, with_digest) ==
    copy_time_version(c) \o copy_digest(c.digest, with_digest) \o copy_key(c.key)
copy_to(c, with_digest) == IF c.schema = 0 THEN schema0_copy_to(c, with_digest)
                                           ELSE schema1_copy_to(c, with_digest)

\* Whatever the bytes, each schema finds some key and some digest in them.
Block(bytes, n) == SubSeq(bytes, 3 + n * BlockSize, 2 + (n + 1) * BlockSize)

schema0_parse(bytes) == <<key_parse(Block(bytes, 0)), digest_parse(Block(bytes, 1))>>
schema1_parse(bytes) == <<key_parse(Block(bytes, 1)), digest_parse(Block(bytes, 0))>>

parse(bytes, schema) ==
    LET payload == IF schema = 0 THEN schema0_parse(bytes) ELSE schema1_parse(bytes)
    IN  [schema |-> schema, time |-> bytes[1][1], version |-> bytes[2][1],
         key |-> payload[1], digest |-> payload[2]]

calc_digest(c, key) == Hmac(key, copy_to(c, FALSE))
c1_validate_digest(c) == c.digest.digest = calc_digest(c, GenuineFPKey)
s1_validate_digest(c) == c.digest.digest = calc_digest(c, GenuineFMSKey)

\* A fresh c1s1 with a digest that is computed last, over everything else.
Unsigned(schema, version, offsets, key) ==
    [schema |-> schema, time |-> 7, version |-> version,
     key    |-> key_parse(key_block(offsets[1], key)),
     digest |-> digest_parse(digest_block(offsets[2], Random(1)))]
Signed(c, key) == [c EXCEPT !.digest.digest = calc_digest(c, key)]

c1_create(schema, offsets, key) ==
    Signed(Unsigned(schema, 2, offsets, key), GenuineFPKey)

\* The server answers in the client's schema, with the key the two share.
copy_shared_key(key) == [i \in 1..KeySize |-> Hmac("dh", key[i])]
\* Mutant: the server signs with the key of the client.
s1_create_as_client(c1, offsets) ==
    Signed(Unsigned(c1.schema, 4, offsets, copy_shared_key(c1.key.key)),
           GenuineFPKey)

s1_create(c1, offsets) ==
    Signed(Unsigned(c1.schema, 4, offsets, copy_shared_key(c1.key.key)),
           GenuineFMSKey)

\* c2 and s2: random bytes signed with a key made of the peer's digest.
C2S2Size == 2 + 2 * BlockSize
c2s2_create(peer, key) ==
    Random(C2S2Size - 1)
        \o <<Hmac(Hmac(key, peer.digest.digest), Random(C2S2Size - 1))>>
s2_create(c1) == c2s2_create(c1, ServerKey)
c2_create(s1) == c2s2_create(s1, ClientKey)
c2s2_validate(bytes, peer, key) ==
    bytes[C2S2Size] = Hmac(Hmac(key, peer.digest.digest), Front(bytes))

-----------------------------------------------------------------------------
(* The two sides. *)

Plain == 3

\* create_c0c1: plain, time, zero, random.
create_c0c1 == [plain |-> Plain,
                c1 |-> <<Number(7), Number(0)>> \o Random(2 * BlockSize)]

\* SrsSimpleHandshake: s1 carries the time of c1, s2 is c1.
create_s0s1s2(c1) ==
    [s1 |-> <<Number(7), c1[1]>> \o Random(2 * BlockSize), s2 |-> c1]
simple_answer(c0c1) ==
    LET s == create_s0s1s2(c0c1.c1)
    IN  [ok |-> c0c1.plain = Plain, s1 |-> s.s1, s2 |-> s.s2]

\* SrsComplexHandshake::handshake_with_client after read_c0c1: schema0 is
\* tried before schema1, and neither means a simple handshake, from the c0c1
\* already read.  c0 is not looked at.  The shared key is taken to be
\* computable.
Complex(c1) == {s \in {0, 1} : c1_validate_digest(parse(c1, s))}

complex_answer(c1, schema, offsets) ==
    LET peer == parse(c1, schema)
        s1   == s1_create(peer, offsets)
        s2   == s2_create(peer)
    IN  [ok |-> s1_validate_digest(s1) /\ c2s2_validate(s2, peer, ServerKey),
         s1 |-> copy_to(s1, TRUE), s2 |-> s2]

\* Mutant: a server built with SSL does not fall back to the simple handshake.
ServerAnswer_signed(ssl, c0c1, offsets) ==
    LET answer == complex_answer(c0c1.c1, IF 0 \in Complex(c0c1.c1) THEN 0 ELSE 1, offsets)
    IN  IF ~ssl THEN simple_answer(c0c1)
        ELSE [answer EXCEPT !.ok = @ /\ Complex(c0c1.c1) # {}]

\* SrsRtmpServer::handshake up to the write of s0s1s2: what the complex
\* handshake makes is verified, and replaced by the simple answer if it fails.
ServerAnswer(ssl, c0c1, offsets) ==
    LET schemas == IF ssl THEN Complex(c0c1.c1) ELSE {}
        answer  == complex_answer(c0c1.c1, IF 0 \in schemas THEN 0 ELSE 1, offsets)
    IN  IF schemas # {} /\ answer.ok THEN answer ELSE simple_answer(c0c1)

\* SrsRtmpClient::handshake: a client built with SSL signs c1 in schema1 and
\* answers s1 with a signed c2, any other one with a copy of s1.  Neither
\* looks at s2.
ClientHello(ssl, schema, offsets) ==
    IF ssl THEN [plain |-> Plain,
                 c1 |-> copy_to(c1_create(schema, offsets, Random(KeySize)), TRUE)]
           ELSE create_c0c1
ClientAnswer(ssl, schema, s1) ==
    IF ssl THEN c2_create(parse(s1, schema)) ELSE s1
=============================================================================
