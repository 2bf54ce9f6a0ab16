--------------------------- MODULE IdentityProofs ---------------------------
(***************************************************************************)
(* Machine-checked proofs about what establishes who sent a message: the   *)
(* guarded fetcher with its address policy, DID resolution, replay         *)
(* admission, and the verification of an entity card, each for every value *)
(* of its constants.                                                       *)
(***************************************************************************)
EXTENDS ReplayAdmission, SafeFetch, DidResolution, CardVerifier,
        SequenceTheorems, FiniteSetTheorems, WellFoundedInduction, TLAPS

-----------------------------------------------------------------------------
(* Addresses.                                                              *)

\* An IPv4 address that is not blocked is outside of every special-purpose block.
LEMMA Public4Holds ==
    ASSUME NEW q, Len(q) = 4, ~isBlockedIpv4(q)
    PROVE  Public4(q) /\ \A i \in 1..4 : q[i] \in 0..255
<1>1. \A i \in 1..4 : q[i] \in 0..255  BY DEF isBlockedIpv4
<1>2. q[1] \in 0..255 /\ q[2] \in 0..255 /\ q[3] \in 0..255  BY <1>1
<1>3. /\ q[1] \notin {0, 10, 127} /\ ~(q[1] >= 224)
      /\ ~(q[1] = 169 /\ q[2] = 254) /\ ~(q[1] = 172 /\ q[2] \in 16..31)
      /\ ~(q[1] = 192 /\ q[2] = 168) /\ ~(q[1] = 100 /\ q[2] \in 64..127)
      /\ ~(q[1] = 192 /\ q[2] = 0 /\ q[3] \in {0, 2})
      /\ ~(q[1] = 198 /\ q[2] = 51 /\ q[3] = 100) /\ ~(q[1] = 203 /\ q[2] = 0 /\ q[3] = 113)
      /\ ~(q[1] = 198 /\ q[2] \in {18, 19})
  BY DEF isBlockedIpv4
<1>4. ~InPrefix(q, <<<<0>>, 8>>) /\ ~InPrefix(q, <<<<10>>, 8>>) /\ ~InPrefix(q, <<<<127>>, 8>>)
  BY ONLY <1>2, <1>3 DEF InPrefix
<1>5. ~InPrefix(q, <<<<100, 64>>, 10>>)  BY ONLY <1>2, <1>3 DEF InPrefix, Powers
<1>6. ~InPrefix(q, <<<<172, 16>>, 12>>)  BY ONLY <1>2, <1>3 DEF InPrefix, Powers
<1>7. ~InPrefix(q, <<<<198, 18>>, 15>>)  BY ONLY <1>2, <1>3 DEF InPrefix, Powers
<1>8. ~InPrefix(q, <<<<224>>, 3>>)  BY ONLY <1>2, <1>3 DEF InPrefix, Powers
<1>9. ~InPrefix(q, <<<<169, 254>>, 16>>)  BY ONLY <1>2, <1>3 DEF InPrefix
<1>10. ~InPrefix(q, <<<<192, 168>>, 16>>)  BY ONLY <1>2, <1>3 DEF InPrefix
<1>11. ~InPrefix(q, <<<<192, 0, 0>>, 24>>)  BY ONLY <1>2, <1>3 DEF InPrefix
<1>12. ~InPrefix(q, <<<<192, 0, 2>>, 24>>)  BY ONLY <1>2, <1>3 DEF InPrefix
<1>13. ~InPrefix(q, <<<<198, 51, 100>>, 24>>)  BY ONLY <1>2, <1>3 DEF InPrefix
<1>14. ~InPrefix(q, <<<<203, 0, 113>>, 24>>)  BY ONLY <1>2, <1>3 DEF InPrefix
<1>15. Public4(q)
  BY ONLY <1>4, <1>5, <1>6, <1>7, <1>8, <1>9, <1>10, <1>11, <1>12, <1>13, <1>14
  DEF Public4, Special4
<1> QED  BY <1>1, <1>15

LEMMA MaxHextetType == MaxHextet \in Nat
BY DEF MaxHextet

LEMMA HextetHalves ==
    ASSUME NEW h \in 0..MaxHextet
    PROVE  h \div 256 \in 0..255 /\ h % 256 \in 0..255
<1>1. h \in Int /\ h >= 0 /\ h <= MaxHextet  BY MaxHextetType
<1>2. PICK n \in Int : n = MaxHextet /\ n < 65536  BY ONLY TRUE DEF MaxHextet
<1>3. h \in Int /\ h >= 0 /\ h < 65536  BY ONLY <1>1, <1>2
<1> QED  BY ONLY <1>3

LEMMA HextetOfBytes ==
    ASSUME NEW hi \in 0..255, NEW lo \in 0..255
    PROVE  hi * 256 + lo \in BadHextet..MaxHextet
<1>1. hi * 256 + lo \in Int /\ hi * 256 + lo >= 0 /\ hi * 256 + lo < 65536
  BY ONLY hi \in 0..255, lo \in 0..255
<1>2. PICK n \in Int : n = MaxHextet /\ n = 65535  BY ONLY TRUE DEF MaxHextet
<1>3. hi * 256 + lo <= MaxHextet  BY ONLY <1>1, <1>2
<1> QED  BY ONLY <1>1, <1>3, MaxHextetType DEF BadHextet

\* A sequence whose elements are all in a set is one over that set.
LEMMA SeqOver ==
    ASSUME NEW S, NEW T, NEW s \in Seq(S), \A i \in 1..Len(s) : s[i] \in T
    PROVE  s \in Seq(T)
<1>1. s \in [1..Len(s) -> T] /\ Len(s) \in Nat
  BY ONLY s \in Seq(S), \A i \in 1..Len(s) : s[i] \in T
<1> QED  BY ONLY <1>1

BytesOf(hextets) ==
    [i \in 1..16 |-> IF i % 2 = 1 THEN hextets[(i + 1) \div 2] \div 256
                     ELSE hextets[i \div 2] % 256]

\* Eight hextets make sixteen bytes.
LEMMA HextetBytes ==
    ASSUME NEW H, NEW hextets \in Seq(H), Len(hextets) = 8,
           \A h \in H : h \div 256 \in 0..255 /\ h % 256 \in 0..255
    PROVE  BytesOf(hextets) \in [1..16 -> 0..255]
<1>1. \A j \in 1..8 : hextets[j] \in H  BY ElementOfSeq
<1> SUFFICES ASSUME NEW i \in 1..16
             PROVE  (IF i % 2 = 1 THEN hextets[(i + 1) \div 2] \div 256
                     ELSE hextets[i \div 2] % 256) \in 0..255
  BY DEF BytesOf
<1>3. CASE i % 2 = 1
  <2>1. PICK j \in 1..8 : j = (i + 1) \div 2  BY <1>3
  <2>2. hextets[j] \div 256 \in 0..255  BY <1>1
  <2> QED  BY <1>3, <2>1, <2>2
<1>4. CASE i % 2 # 1
  <2>1. PICK j \in 1..8 : j = i \div 2  BY <1>4
  <2>2. hextets[j] % 256 \in 0..255  BY <1>1
  <2> QED  BY <1>4, <2>1, <2>2
<1> QED  BY <1>3, <1>4

\* Groups that are all hextets are so with zeros between them.
LEMMA HextetsType ==
    ASSUME NEW S, NEW H, 0 \in H, NEW head \in Seq(S), NEW zeros \in Seq({0}),
           NEW folded \in Seq(S), \A i \in 1..Len(head \o folded) : (head \o folded)[i] \in H,
           Len(head) + Len(zeros) + Len(folded) = 8
    PROVE  head \o zeros \o folded \in Seq(H) /\ Len(head \o zeros \o folded) = 8
<1>1. \A i \in 1..Len(head) : head[i] \in H
  <2> SUFFICES ASSUME NEW i \in 1..Len(head) PROVE head[i] \in H  OBVIOUS
  <2>1. head[i] = (head \o folded)[i] /\ i \in 1..Len(head \o folded)  OBVIOUS
  <2> QED  BY <2>1
<1>2. \A i \in 1..Len(folded) : folded[i] \in H
  <2> SUFFICES ASSUME NEW i \in 1..Len(folded) PROVE folded[i] \in H  OBVIOUS
  <2>1. PICK j \in 1..Len(head \o folded) : j = i + Len(head)  OBVIOUS
  <2>2. folded[i] = (head \o folded)[j]  BY <2>1
  <2> QED  BY <2>2
<1>3. head \in Seq(H) /\ folded \in Seq(H)  BY <1>1, <1>2, SeqOver
<1>4. zeros \in Seq(H)
  <2>1. \A i \in 1..Len(zeros) : zeros[i] \in H  OBVIOUS
  <2> QED  BY <2>1, SeqOver
<1> QED  BY <1>3, <1>4

\* The bytes of a well-formed IPv6 text are sixteen.
LEMMA BytesType ==
    ASSUME NEW text, AddressText(text), text.family = 6, ipv6ToBytes(text) # NotIpv6
    PROVE  ipv6ToBytes(text) \in [1..16 -> 0..255]
<1>1. PICK G : G = BadHextet..MaxHextet  OBVIOUS
<1>2. PICK quad : quad = text.quad /\ (quad = NoQuad \/ quad \in [1..4 -> 0..NotAByte])
  BY DEF AddressText
<1>3. PICK halves \in Seq(Seq(G)) : halves = text.halves /\ Len(halves) \in Nat \ {0}
  <2>1. text.halves \in Seq(Seq(G)) /\ text.halves # <<>>  BY <1>1 DEF AddressText
  <2>2. Len(text.halves) \in Nat \ {0}  BY <2>1, EmptySeq
  <2> QED  BY <2>1, <2>2
<1>4. PICK head : head = GroupsBefore(text)  OBVIOUS
<1>5. PICK folded : folded = GroupsBehind(text)  OBVIOUS
<1>6. PICK given : given = head \o folded  OBVIOUS
<1>7. PICK zeros : zeros = IF Len(halves) = 1 THEN <<>> ELSE [i \in 1..(8 - Len(given)) |-> 0]
  OBVIOUS
<1>8. /\ ~ (\E i \in 1..Len(quad) : quad[i] \notin 0..255) /\ ~ (Len(halves) > 2)
      /\ ~ (\E i \in 1..Len(given) : given[i] = BadHextet)
      /\ ~ (Len(halves) = 2 /\ Len(given) > 7) /\ ~ (Len(halves) = 1 /\ Len(given) # 8)
      /\ ipv6ToBytes(text) = BytesOf(head \o zeros \o folded)
  BY <1>2, <1>3, <1>4, <1>5, <1>6, <1>7, Zenon DEF ipv6ToBytes, BytesOf
<1>9. Len(halves) = 1 \/ Len(halves) = 2
  <2>1. PICK n \in Nat \ {0} : n = Len(halves)  BY ONLY <1>3
  <2>2. ~ (n > 2)  BY ONLY <1>8, <2>1
  <2> QED  BY ONLY <2>1, <2>2
<1>10. halves[1] \in Seq(G) /\ halves[Len(halves)] \in Seq(G)
  <2>1. 1 \in 1..Len(halves) /\ Len(halves) \in 1..Len(halves)  BY ONLY <1>9
  <2> QED  BY ONLY <2>1, halves \in Seq(Seq(G)), ElementOfSeq
<1>11. folded \in Seq(G)
  <2>1. CASE quad = NoQuad
    <3>1. folded = halves[Len(halves)] \o <<>>  BY <1>2, <1>3, <1>5, <2>1 DEF GroupsBehind
    <3> QED  BY ONLY <3>1, <1>10
  <2>2. CASE quad # NoQuad
    <3>1. Len(quad) = 4  BY ONLY <1>2, <2>2 DEF NotAByte
    <3>2. quad[1] \in 0..255 /\ quad[2] \in 0..255 /\ quad[3] \in 0..255 /\ quad[4] \in 0..255
      BY ONLY <1>8, <3>1
    <3>3. quad[1] * 256 + quad[2] \in G /\ quad[3] * 256 + quad[4] \in G
      BY <1>1, <3>2, HextetOfBytes
    <3>4. folded = halves[Len(halves)] \o <<quad[1] * 256 + quad[2], quad[3] * 256 + quad[4]>>
      BY <1>2, <1>3, <1>5, <2>2 DEF GroupsBehind
    <3> QED  BY ONLY <3>3, <3>4, <1>10
  <2> QED  BY <2>1, <2>2
<1>12. head \in Seq(G)
  <2>1. CASE Len(halves) = 1  BY <1>3, <1>4, <2>1 DEF GroupsBefore
  <2>2. CASE Len(halves) # 1  BY <1>3, <1>4, <2>2, <1>10 DEF GroupsBefore
  <2> QED  BY <2>1, <2>2
<1>13. given \in Seq(G) /\ Len(given) = Len(head) + Len(folded)
  BY ONLY <1>6, <1>11, <1>12
<1>14. Len(head) \in Nat /\ Len(folded) \in Nat /\ Len(given) \in Nat  BY ONLY <1>11, <1>12, <1>13
<1>15. zeros \in Seq({0}) /\ Len(head) + Len(zeros) + Len(folded) = 8
  <2>1. CASE Len(halves) = 1
    <3>1. zeros = <<>> /\ Len(given) = 8  BY ONLY <1>7, <1>8, <2>1
    <3>2. Len(zeros) = 0 /\ zeros \in Seq({0})  BY ONLY <3>1, EmptySeq
    <3>3. Len(given) = Len(head) + Len(folded) /\ Len(given) = 8  BY ONLY <1>13, <3>1
    <3>4. PICK m \in Nat, n \in Nat : m = Len(head) /\ n = Len(folded) /\ m + n = 8
      BY ONLY <3>3, <1>14
    <3> QED  BY ONLY <3>2, <3>4, m \in Nat, n \in Nat
  <2>2. CASE Len(halves) = 2
    <3>1. 8 - Len(given) \in Nat  BY ONLY <1>8, <1>14, <2>2
    <3>2. PICK n \in Nat : n = 8 - Len(given)  BY ONLY <3>1
    <3>3. zeros = [i \in 1..n |-> 0]  BY ONLY <1>7, <2>2, <3>2
    <3>4. zeros \in Seq({0}) /\ Len(zeros) = n  BY ONLY <3>3, n \in Nat
    <3> QED  BY ONLY <3>2, <3>4, <1>13, <1>14
  <2> QED  BY <1>9, <2>1, <2>2
<1>16. PICK H : H = 0..MaxHextet  OBVIOUS
<1>17. 0 \in H /\ \A h \in H : h \div 256 \in 0..255 /\ h % 256 \in 0..255
  BY <1>16, HextetHalves, MaxHextetType
<1>18. \A i \in 1..Len(given) : given[i] \in H
  <2> SUFFICES ASSUME NEW i \in 1..Len(given) PROVE given[i] \in H  OBVIOUS
  <2>1. given[i] \in G  BY ONLY <1>13, i \in 1..Len(given), ElementOfSeq
  <2>2. given[i] # BadHextet  BY <1>8
  <2> QED  BY ONLY <2>1, <2>2, <1>1, <1>16, MaxHextetType DEF BadHextet
<1>19. PICK hextets : hextets = head \o zeros \o folded  OBVIOUS
<1>20. hextets \in Seq(H) /\ Len(hextets) = 8
  BY ONLY <1>6, <1>17, <1>18, <1>11, <1>12, <1>15, <1>19, HextetsType
<1>21. BytesOf(hextets) \in [1..16 -> 0..255]
  BY ONLY <1>17, <1>20, HextetBytes
<1> QED  BY ONLY <1>8, <1>19, <1>21

\* Four bytes of an address, which are an IPv4 address again.
LEMMA EmbeddedPublic ==
    ASSUME NEW b \in [1..16 -> 0..255], NEW m \in 1..13, ~isBlockedIpv4(SubSeq(b, m, m + 3))
    PROVE  Public4(SubSeq(b, m, m + 3))
<1>1. Len(SubSeq(b, m, m + 3)) = 4  OBVIOUS
<1> QED  BY <1>1, Public4Holds

\* An IPv6 address that is not blocked is public, and so are the IPv4 addresses in it.
LEMMA Public6Holds ==
    ASSUME NEW text, AddressText(text), text.family = 6, ~isBlockedIpv6(text)
    PROVE  PublicUnicast(text)
<1>1. PICK b : b = ipv6ToBytes(text)  OBVIOUS
<1>2. b # NotIpv6  BY <1>1 DEF isBlockedIpv6
<1>0. ~BlockedBytes(b)  BY <1>1 DEF isBlockedIpv6
<1>3. b \in [1..16 -> 0..255]  BY <1>1, <1>2, BytesType
<1>4. /\ b[1] \in 0..255 /\ b[2] \in 0..255 /\ b[3] \in 0..255 /\ b[4] \in 0..255
      /\ b[5] \in 0..255 /\ b[6] \in 0..255 /\ b[7] \in 0..255 /\ b[8] \in 0..255
      /\ b[9] \in 0..255 /\ b[10] \in 0..255 /\ b[11] \in 0..255 /\ b[12] \in 0..255
      /\ b[13] \in 0..255 /\ b[14] \in 0..255 /\ b[15] \in 0..255 /\ b[16] \in 0..255
  BY ONLY <1>3
<1>5. PICK embedded \in BOOLEAN : embedded <=> isBlockedIpv4(SubSeq(b, 13, 16))  OBVIOUS
<1>6. PICK relayed \in BOOLEAN : relayed <=> isBlockedIpv4(SubSeq(b, 3, 6))  OBVIOUS
<1>7. PICK nat64 \in BOOLEAN : nat64 <=> b[1] = 0 /\ b[2] = 100 /\ b[3] = 255 /\ b[4] = 155  OBVIOUS
\* The clauses of isBlockedIpv6, none of which applies or blocks.
<1>8. ~ IF Zeros(b, 1, 10) /\ b[11] = 255 /\ b[12] = 255 THEN embedded
        ELSE IF Zeros(b, 1, 15) /\ b[16] \in {0, 1} THEN TRUE
        ELSE IF \/ b[1] = 254 /\ b[2] \div 64 \in {2, 3}
                \/ b[1] \div 2 = 126
                \/ b[1] = 255 THEN TRUE
        ELSE IF nat64 /\ Zeros(b, 5, 12) THEN embedded
        ELSE IF nat64 /\ b[5] = 0 /\ b[6] = 1 THEN embedded
        ELSE IF b[1] = 32 /\ b[2] = 2 THEN relayed
        ELSE IF b[1] = 32 /\ b[2] = 1 /\ b[3] = 0 /\ b[4] = 0 THEN TRUE
        ELSE IF Zeros(b, 1, 12) THEN embedded
        ELSE \/ b[1] = 32 /\ b[2] = 1 /\ b[3] = 13 /\ b[4] = 184
             \/ b[1] = 1 /\ b[2] = 0 /\ Zeros(b, 3, 8)
  <2>1. ~ IF Zeros(b, 1, 10) /\ b[11] = 255 /\ b[12] = 255 THEN isBlockedIpv4(SubSeq(b, 13, 16))
          ELSE IF Zeros(b, 1, 15) /\ b[16] \in {0, 1} THEN TRUE
          ELSE IF \/ b[1] = 254 /\ b[2] \div 64 \in {2, 3}
                  \/ b[1] \div 2 = 126
                  \/ b[1] = 255 THEN TRUE
          ELSE IF (b[1] = 0 /\ b[2] = 100 /\ b[3] = 255 /\ b[4] = 155) /\ Zeros(b, 5, 12)
            THEN isBlockedIpv4(SubSeq(b, 13, 16))
          ELSE IF (b[1] = 0 /\ b[2] = 100 /\ b[3] = 255 /\ b[4] = 155) /\ b[5] = 0 /\ b[6] = 1
            THEN isBlockedIpv4(SubSeq(b, 13, 16))
          ELSE IF b[1] = 32 /\ b[2] = 2 THEN isBlockedIpv4(SubSeq(b, 3, 6))
          ELSE IF b[1] = 32 /\ b[2] = 1 /\ b[3] = 0 /\ b[4] = 0 THEN TRUE
          ELSE IF Zeros(b, 1, 12) THEN isBlockedIpv4(SubSeq(b, 13, 16))
          ELSE \/ b[1] = 32 /\ b[2] = 1 /\ b[3] = 13 /\ b[4] = 184
               \/ b[1] = 1 /\ b[2] = 0 /\ Zeros(b, 3, 8)
    BY ONLY <1>0 DEF BlockedBytes
  <2> QED  BY ONLY <2>1, <1>5, <1>6, <1>7
<1>9. /\ Zeros(b, 1, 10) <=> b[1] = 0 /\ b[2] = 0 /\ b[3] = 0 /\ b[4] = 0 /\ b[5] = 0
                             /\ b[6] = 0 /\ b[7] = 0 /\ b[8] = 0 /\ b[9] = 0 /\ b[10] = 0
      /\ Zeros(b, 1, 12) <=> b[1] = 0 /\ b[2] = 0 /\ b[3] = 0 /\ b[4] = 0 /\ b[5] = 0
                             /\ b[6] = 0 /\ b[7] = 0 /\ b[8] = 0 /\ b[9] = 0 /\ b[10] = 0
                             /\ b[11] = 0 /\ b[12] = 0
      /\ Zeros(b, 1, 15) <=> b[1] = 0 /\ b[2] = 0 /\ b[3] = 0 /\ b[4] = 0 /\ b[5] = 0
                             /\ b[6] = 0 /\ b[7] = 0 /\ b[8] = 0 /\ b[9] = 0 /\ b[10] = 0
                             /\ b[11] = 0 /\ b[12] = 0 /\ b[13] = 0 /\ b[14] = 0 /\ b[15] = 0
      /\ Zeros(b, 5, 12) <=> b[5] = 0 /\ b[6] = 0 /\ b[7] = 0 /\ b[8] = 0
                             /\ b[9] = 0 /\ b[10] = 0 /\ b[11] = 0 /\ b[12] = 0
      /\ Zeros(b, 3, 8) <=> b[3] = 0 /\ b[4] = 0 /\ b[5] = 0 /\ b[6] = 0 /\ b[7] = 0 /\ b[8] = 0
  BY ONLY TRUE DEF Zeros
<1>10. ~InPrefix(b, <<<<254, 128>>, 9>>)
  <2> SUFFICES ASSUME b[1] = 254, b[2] \div 128 = 1 PROVE FALSE  BY DEF InPrefix, Powers
  <2>1. b[2] \div 64 \in {2, 3}  BY ONLY <1>4, b[2] \div 128 = 1
  <2> QED  BY ONLY <1>4, <1>7, <1>8, <1>9, <2>1, b[1] = 254
<1>11. ~InPrefix(b, <<<<252>>, 7>>)
  <2> SUFFICES ASSUME b[1] \div 2 = 126 PROVE FALSE  BY DEF InPrefix, Powers
  <2>1. b[1] # 0  BY ONLY <1>4, b[1] \div 2 = 126
  <2> QED  BY ONLY <1>4, <1>7, <1>8, <1>9, <2>1, b[1] \div 2 = 126
<1>12. ~InPrefix(b, <<<<255>>, 8>>)
  <2> SUFFICES ASSUME b[1] = 255 PROVE FALSE  BY DEF InPrefix, Powers
  <2> QED  BY ONLY <1>4, <1>7, <1>8, <1>9, b[1] = 255
<1>13. ~InPrefix(b, <<<<32, 1, 0, 0>>, 32>>)
  <2> SUFFICES ASSUME b[1] = 32, b[2] = 1, b[3] = 0, b[4] = 0 PROVE FALSE  BY DEF InPrefix, Powers
  <2> QED  BY ONLY <1>4, <1>7, <1>8, <1>9, b[1] = 32, b[2] = 1, b[3] = 0, b[4] = 0
<1>14. ~InPrefix(b, <<<<32, 1, 13, 184>>, 32>>)
  <2> SUFFICES ASSUME b[1] = 32, b[2] = 1, b[3] = 13, b[4] = 184 PROVE FALSE  BY DEF InPrefix, Powers
  <2> QED  BY ONLY <1>4, <1>7, <1>8, <1>9, b[1] = 32, b[2] = 1, b[3] = 13, b[4] = 184
<1>15. ~InPrefix(b, <<<<1, 0, 0, 0, 0, 0, 0, 0>>, 64>>)
  <2> SUFFICES ASSUME b[1] = 1, b[2] = 0, b[3] = 0, b[4] = 0,
                      b[5] = 0, b[6] = 0, b[7] = 0, b[8] = 0
               PROVE FALSE
    BY DEF InPrefix, Powers
  <2> QED  BY ONLY <1>4, <1>7, <1>8, <1>9,
                b[1] = 1, b[2] = 0, b[3] = 0, b[4] = 0, b[5] = 0, b[6] = 0, b[7] = 0, b[8] = 0
<1>16. ASSUME NEW p \in Wrapped, InPrefix(b, p) PROVE ~embedded
  <2>1. CASE p = <<<<0, 0, 0, 0, 0, 0, 0, 0, 0, 0, 0, 0>>, 96>>
    <3>1. b[1] = 0 /\ b[2] = 0 /\ b[3] = 0 /\ b[4] = 0 /\ b[5] = 0
                             /\ b[6] = 0 /\ b[7] = 0 /\ b[8] = 0 /\ b[9] = 0 /\ b[10] = 0
          /\ b[11] = 0 /\ b[12] = 0
      BY ONLY <1>16, <2>1 DEF InPrefix
    <3> QED  BY ONLY <1>4, <1>7, <1>8, <1>9, <3>1
  <2>2. CASE p = <<<<0, 0, 0, 0, 0, 0, 0, 0, 0, 0, 255, 255>>, 96>>
    <3>1. b[1] = 0 /\ b[2] = 0 /\ b[3] = 0 /\ b[4] = 0 /\ b[5] = 0
                             /\ b[6] = 0 /\ b[7] = 0 /\ b[8] = 0 /\ b[9] = 0 /\ b[10] = 0
          /\ b[11] = 255 /\ b[12] = 255
      BY ONLY <1>16, <2>2 DEF InPrefix
    <3> QED  BY ONLY <1>4, <1>7, <1>8, <1>9, <3>1
  <2>3. CASE p = <<<<0, 100, 255, 155, 0, 0, 0, 0, 0, 0, 0, 0>>, 96>>
    <3>1. b[1] = 0 /\ b[2] = 100 /\ b[3] = 255 /\ b[4] = 155
          /\ b[5] = 0 /\ b[6] = 0 /\ b[7] = 0 /\ b[8] = 0
          /\ b[9] = 0 /\ b[10] = 0 /\ b[11] = 0 /\ b[12] = 0
      BY ONLY <1>16, <2>3 DEF InPrefix
    <3> QED  BY ONLY <1>4, <1>7, <1>8, <1>9, <3>1
  <2>4. CASE p = <<<<0, 100, 255, 155, 0, 1>>, 48>>
    <3>1. b[1] = 0 /\ b[2] = 100 /\ b[3] = 255 /\ b[4] = 155 /\ b[5] = 0 /\ b[6] = 1
      BY ONLY <1>16, <2>4 DEF InPrefix
    <3> QED  BY ONLY <1>4, <1>7, <1>8, <1>9, <3>1
  <2> QED  BY <2>1, <2>2, <2>3, <2>4 DEF Wrapped
<1>17. ASSUME InPrefix(b, <<<<32, 2>>, 16>>) PROVE ~relayed
  <2>1. b[1] = 32 /\ b[2] = 2  BY ONLY <1>17 DEF InPrefix
  <2> QED  BY ONLY <1>4, <1>7, <1>8, <1>9, <2>1
<1>18. ~ \E p \in Special6 : InPrefix(b, p)
  BY ONLY <1>10, <1>11, <1>12, <1>13, <1>14, <1>15 DEF Special6
<1>19. (\E p \in Wrapped : InPrefix(b, p)) => Public4(SubSeq(b, 13, 16))
  BY <1>3, <1>5, <1>16, EmbeddedPublic
<1>20. InPrefix(b, <<<<32, 2>>, 16>>) => Public4(SubSeq(b, 3, 6))
  BY <1>3, <1>6, <1>17, EmbeddedPublic
<1> QED  BY <1>1, <1>2, <1>18, <1>19, <1>20 DEF PublicUnicast

\* An address the policy does not block is public.
LEMMA PublicHolds ==
    ASSUME NEW a, AddressText(a), ~isBlockedAddress(a)
    PROVE  PublicUnicast(a) /\ a # ByName
<1>1. CASE a.family = 6
  <2>1. a # ByName  BY <1>1 DEF ByName, V4
  <2> QED  BY <1>1, <2>1, Public6Holds DEF isBlockedAddress
<1>2. CASE a.family # 6
  <2>1. ~isBlockedIpv4(a.parts)  BY <1>2 DEF isBlockedAddress
  <2>2. Len(a.parts) = 4  BY <2>1 DEF isBlockedIpv4
  <2>3. a.family = 4 /\ a.parts \in Seq(0..NotAByte)  BY <1>2 DEF AddressText, V4, V6
  <2>4. a # ByName  BY <2>2 DEF ByName, V4
  <2>5. \A i \in 1..4 : a.parts[i] \in 0..255  BY <2>1, <2>2, Public4Holds
  <2>6. DOMAIN a.parts = 1..4  BY <2>2, <2>3, LenProperties
  <2>7. Range(a.parts) \subseteq 0..255
    <3> SUFFICES ASSUME NEW x \in Range(a.parts) PROVE x \in 0..255  OBVIOUS
    <3>1. PICK i \in DOMAIN a.parts : x = a.parts[i]  BY Zenon DEF Range
    <3> QED  BY <3>1, <2>5, <2>6
  <2> QED  BY <2>1, <2>2, <2>3, <2>4, <2>7, Public4Holds DEF PublicUnicast
<1> QED  BY <1>1, <1>2

-----------------------------------------------------------------------------
(* The fetcher.                                                            *)

Urls == FetchUrls \cup Locations \cup {BadUrl}

Calls ==
    [stage: {"idle", "lookup", "connect", "sent", "done", "failed"},
     asked: Urls, url: Urls, hop: 0..MaxRedirects, pinned: Addresses \cup {ByName}]

FetchTyped ==
    /\ fetcher \in [transport: {"pinned", "by name"}, trusted: {normalizeTrustedOrigins(Trusted)}]
    /\ fetch \in Calls
    /\ conn.count \in Nat

\* What holds between the steps of a call: it is at an https URL of the origin it
\* was asked for; its connections are one per hop at most; an address it is about to
\* pin has passed the screen; and before the call nothing has been connected to.
FetchInv ==
    /\ FetchTyped
    /\ fetch.stage = "idle" => conn = NoConn /\ fetched = NothingFetched
    /\ fetch.stage \in {"lookup", "connect", "sent"} =>
        fetch.url.scheme = "https" /\ Origin(fetch.url) = Origin(fetch.asked)
    /\ fetch.stage \in {"lookup", "connect"} => conn.count <= fetch.hop
    /\ fetch.stage = "sent" => conn.count <= fetch.hop + 1
    /\ fetch.stage = "connect" =>
        Origin(fetch.url) \in fetcher.trusted \/ (fetch.pinned # ByName /\ PublicUnicast(fetch.pinned))
    /\ FetchConfined

LEMMA Numbers == MaxRedirects \in Nat /\ MaxBytes \in Nat /\ 0 \in 0..MaxRedirects
<1>1. MaxRedirects \in Nat /\ MaxBytes \in Nat  BY SafeFetchAssumption
<1> QED  BY ONLY <1>1

LEMMA FetchInitHolds == FetchInit => FetchInv
<1> SUFFICES ASSUME FetchInit PROVE FetchInv  OBVIOUS
<1>1. fetch = NoFetch /\ conn = NoConn /\ fetched = NothingFetched  BY DEF FetchInit
<1>2. FetchTyped
  <2>1. fetcher \in [transport: {"pinned", "by name"}, trusted: {normalizeTrustedOrigins(Trusted)}]
    BY SafeFetchAssumption DEF FetchInit
  <2>2. BadUrl \in Urls  BY DEF Urls
  <2>3. 0 \in 0..MaxRedirects  BY Numbers
  <2>4. NoFetch \in Calls
    BY <2>2, <2>3 DEF NoFetch, Calls
  <2> QED  BY <1>1, <2>1, <2>4 DEF FetchTyped, NoConn
<1>3. fetch.stage = "idle"  BY <1>1 DEF NoFetch
<1> QED  BY <1>1, <1>2, <1>3 DEF FetchInv, FetchConfined

\* A call that fails keeps what it has done.
LEMMA FailsHolds == ASSUME FetchInv, FetchFails PROVE FetchInv'
<1>1. /\ fetch' = [fetch EXCEPT !.stage = "failed"] /\ UNCHANGED <<fetcher, conn, fetched>>
      /\ fetch'.stage = "failed" /\ fetch'.asked = fetch.asked
  BY DEF FetchFails, FetchInv, FetchTyped, Calls
<1>2. FetchTyped'  BY <1>1 DEF FetchInv, FetchTyped, Calls
<1>3. FetchConfined'  BY <1>1 DEF FetchInv, FetchConfined
<1> QED  BY <1>1, <1>2, <1>3 DEF FetchInv

\* A hop begins: nothing is pinned, and only a first-party origin skips the screen.
LEMMA HopBegins ==
    ASSUME NEW f, NEW url \in Urls,
           f \in Calls
    PROVE  LET g == requestOnce(f, url) IN
           /\ g \in Calls
           /\ g.stage \in {"lookup", "connect"} /\ g.url = url /\ g.asked = f.asked /\ g.hop = f.hop
           /\ g.stage = "connect" => Origin(url) \in fetcher.trusted
BY DEF requestOnce, Calls

LEMMA SafeFetchHolds ==
    ASSUME FetchInv, NEW url \in FetchUrls, SafeFetch(url)
    PROVE  FetchInv'
<1>1. fetch.stage = "idle" /\ conn = NoConn /\ fetched = NothingFetched
      /\ UNCHANGED <<fetcher, conn, fetched>>
  BY DEF SafeFetch, FetchInv
<1>2. url \in Urls  BY DEF Urls
<1>3. FetchConfined'  BY <1>1 DEF FetchConfined
<1>4. PICK f : f = [NoFetch EXCEPT !.asked = url]  OBVIOUS
<1>5. /\ f \in Calls
      /\ f.asked = url /\ f.hop = 0
  <2>1. BadUrl \in Urls /\ 0 \in 0..MaxRedirects  BY Numbers DEF Urls
  <2> QED  BY <1>2, <1>4, <2>1 DEF NoFetch, Calls
<1>6. CASE url.scheme # "https"
  <2>1. fetch' = [f EXCEPT !.stage = "failed"]  BY <1>4, <1>6 DEF SafeFetch, NoFetch
  <2>2. FetchTyped'  BY <1>1, <1>5, <2>1 DEF FetchInv, FetchTyped, Calls
  <2>3. fetch'.stage = "failed"  BY <1>5, <2>1
  <2> QED  BY <1>3, <2>2, <2>3 DEF FetchInv
<1>7. CASE url.scheme = "https"
  <2>1. fetch' = requestOnce(f, url)  BY <1>4, <1>7 DEF SafeFetch
  <2>2. FetchTyped'  BY <1>1, <1>2, <1>5, <2>1, HopBegins DEF FetchInv, FetchTyped, Calls
  <2>3. /\ fetch'.stage \in {"lookup", "connect"} /\ fetch'.url = url /\ fetch'.asked = url
        /\ fetch'.hop = 0 /\ (fetch'.stage = "connect" => Origin(url) \in fetcher'.trusted)
    BY <1>1, <1>2, <1>5, <2>1, HopBegins
  <2>4. conn'.count = 0  BY <1>1 DEF NoConn
  <2> QED  BY <1>3, <1>7, <2>2, <2>3, <2>4 DEF FetchInv
<1> QED  BY <1>6, <1>7

LEMMA PinHolds ==
    ASSUME FetchInv, NEW answers \in DnsAnswers, ResolveAndPin(answers)
    PROVE  FetchInv'
<1>1. CASE ~ (answers # <<>> /\ \A i \in 1..Len(answers) : ~ isBlockedAddress(answers[i]))
  BY <1>1, FailsHolds DEF ResolveAndPin
<1>2. CASE answers # <<>> /\ \A i \in 1..Len(answers) : ~ isBlockedAddress(answers[i])
  <2>1. /\ fetch.stage = "lookup" /\ UNCHANGED <<fetcher, conn, fetched>>
        /\ fetch' = [fetch EXCEPT !.stage = "connect", !.pinned = answers[1]]
    BY <1>2 DEF ResolveAndPin
  <2>2. answers[1] \in Addresses /\ ~ isBlockedAddress(answers[1])  BY <1>2 DEF DnsAnswers
  <2>3. answers[1] # ByName /\ PublicUnicast(answers[1])
    BY <2>2, SafeFetchAssumption, PublicHolds
  <2>4. FetchTyped'  BY <2>1, <2>2 DEF FetchInv, FetchTyped, Calls
  <2>5. /\ fetch'.stage = "connect" /\ fetch'.pinned = answers[1] /\ fetch'.url = fetch.url
        /\ fetch'.asked = fetch.asked /\ fetch'.hop = fetch.hop
    BY <2>1 DEF FetchInv, FetchTyped, Calls
  <2>6. FetchConfined'  BY <2>1, <2>5 DEF FetchInv, FetchConfined
  <2> QED  BY <2>1, <2>3, <2>4, <2>5, <2>6 DEF FetchInv
<1> QED  BY <1>1, <1>2

LEMMA ConnectHolds ==
    ASSUME FetchInv, NEW a \in Addresses, Connect(a)
    PROVE  FetchInv'
<1>1. PICK pin \in BOOLEAN : pin <=> fetcher.transport = "pinned" /\ fetch.pinned # ByName  OBVIOUS
<1>2. /\ fetch.stage = "connect" /\ UNCHANGED <<fetcher, fetched>>
      /\ conn'.url = fetch.url /\ conn'.count = conn.count + 1
      /\ conn'.address = IF pin THEN fetch.pinned ELSE a
      /\ fetch' = [fetch EXCEPT !.stage = "sent"]
  BY <1>1 DEF Connect
<1>3. /\ fetch'.stage = "sent" /\ fetch'.url = fetch.url
      /\ fetch'.asked = fetch.asked /\ fetch'.hop = fetch.hop
  BY <1>2 DEF FetchInv, FetchTyped, Calls
<1>5. /\ conn.count \in Nat /\ conn.count <= fetch.hop /\ fetch.hop \in 0..MaxRedirects
  BY <1>2 DEF FetchInv, FetchTyped, Calls
<1>6. conn'.count \in Nat /\ conn'.count <= fetch'.hop + 1 /\ conn'.count <= MaxRedirects + 1
  BY ONLY <1>2, <1>3, <1>5, Numbers
<1>4. FetchTyped'  BY <1>2, <1>6 DEF FetchInv, FetchTyped, Calls
<1>7. fetch.url.scheme = "https" /\ Origin(fetch.url) = Origin(fetch.asked)
  BY <1>2 DEF FetchInv
<1>8. \/ fetcher'.transport = "by name" \/ Origin(conn'.url) \in fetcher'.trusted
      \/ PublicUnicast(conn'.address)
  <2>1. CASE Origin(fetch.url) \in fetcher.trusted  BY <1>2, <2>1
  <2>2. CASE fetcher.transport = "by name"  BY <1>2, <2>2
  <2>3. CASE Origin(fetch.url) \notin fetcher.trusted /\ fetcher.transport # "by name"
    <3>1. fetcher.transport = "pinned"  BY <2>3 DEF FetchInv, FetchTyped, Calls
    <3>2. fetch.pinned # ByName /\ PublicUnicast(fetch.pinned)  BY <1>2, <2>3 DEF FetchInv
    <3> QED  BY <1>1, <1>2, <3>1, <3>2
  <2> QED  BY <2>1, <2>2, <2>3
<1>9. FetchConfined'
  <2>1. fetched' # NothingFetched =>
            Origin(fetched'.url) = Origin(fetch'.asked) /\ fetched'.size <= MaxBytes
    BY <1>2, <1>3 DEF FetchInv, FetchConfined
  <2> QED  BY <1>2, <1>3, <1>6, <1>7, <1>8, <2>1 DEF FetchConfined
<1> QED  BY <1>3, <1>4, <1>6, <1>7, <1>9 DEF FetchInv

LEMMA RespondHolds ==
    ASSUME FetchInv, NEW status, NEW location \in Locations, NEW declared,
           NEW size \in {0, MaxBytes, MaxBytes + 1}, Respond(status, location, declared, size)
    PROVE  FetchInv'
<1>1. fetch.stage = "sent"  BY DEF Respond
<1>2. fetch.url.scheme = "https" /\ Origin(fetch.url) = Origin(fetch.asked)
  BY <1>1 DEF FetchInv
<1>3. CASE FetchFails  BY <1>3, FailsHolds
<1>4. CASE size <= MaxBytes /\ finalize(status, declared, size)
  <2>0. PICK stage \in {"failed", "done"} :
          fetch' = [fetch EXCEPT !.stage = stage] /\ UNCHANGED <<fetcher, conn>>
    BY <1>4 DEF finalize
  <2>1. UNCHANGED <<fetcher, conn>> /\ fetch'.stage \in {"failed", "done"}
        /\ fetch'.asked = fetch.asked /\ FetchTyped'
    BY <2>0 DEF FetchInv, FetchTyped, Calls
  <2>2. fetched' = fetched \/ (fetched'.url = fetch.url /\ fetched'.size = size)
    BY <1>4 DEF finalize
  <2>3. fetched' # NothingFetched =>
            Origin(fetched'.url) = Origin(fetch'.asked) /\ fetched'.size <= MaxBytes
    BY <1>2, <1>4, <2>1, <2>2 DEF FetchInv, FetchConfined
  <2>4. FetchConfined'  BY <2>1, <2>3 DEF FetchInv, FetchConfined
  <2> QED  BY <2>1, <2>4 DEF FetchInv
<1>5. CASE /\ fetch.hop < MaxRedirects /\ nextRedirectUrl(fetch.url, location).scheme = "https"
           /\ fetch' = [requestOnce(fetch, nextRedirectUrl(fetch.url, location))
                        EXCEPT !.hop = fetch.hop + 1]
           /\ UNCHANGED <<fetcher, conn, fetched>>
  <2>1. PICK next : next = nextRedirectUrl(fetch.url, location)  OBVIOUS
  <2>2. next \in Urls /\ next.scheme = "https" /\ Origin(next) = Origin(fetch.url)
    BY <1>5, <2>1, Numbers DEF nextRedirectUrl, BadUrl, Urls
  <2>3. PICK g : g = requestOnce(fetch, next)  OBVIOUS
  <2>4. /\ g \in Calls
        /\ g.stage \in {"lookup", "connect"} /\ g.url = next /\ g.asked = fetch.asked
        /\ g.hop = fetch.hop /\ (g.stage = "connect" => Origin(next) \in fetcher.trusted)
    <3>1. fetch \in Calls  BY DEF FetchInv, FetchTyped
    <3> QED  BY ONLY <3>1, <2>2, <2>3, HopBegins
  <2>5. fetch' = [g EXCEPT !.hop = fetch.hop + 1]  BY <1>5, <2>1, <2>3
  <2>6. fetch.hop + 1 \in 0..MaxRedirects
    <3>1. fetch.hop \in 0..MaxRedirects  BY DEF FetchInv, FetchTyped, Calls
    <3> QED  BY ONLY <3>1, <1>5, Numbers
  <2>7. /\ fetch' \in Calls
        /\ fetch'.stage = g.stage /\ fetch'.url = next /\ fetch'.asked = fetch.asked
        /\ fetch'.hop = fetch.hop + 1
    BY ONLY <2>4, <2>5, <2>6 DEF Calls
  <2>8. FetchTyped'  BY <1>5, <2>7 DEF FetchInv, FetchTyped, Calls
  <2>9. conn'.count <= fetch'.hop  BY <1>1, <1>5, <2>7 DEF FetchInv
  <2>10. FetchConfined'  BY <1>5, <2>7 DEF FetchInv, FetchConfined
  <2>11. Origin(fetch'.url) = Origin(fetch'.asked) /\ fetch'.url.scheme = "https"
    BY <1>2, <2>2, <2>7
  <2>12. fetch'.stage = "connect" => Origin(fetch'.url) \in fetcher'.trusted  BY <1>5, <2>4, <2>7
  <2> QED  BY <2>4, <2>7, <2>8, <2>9, <2>10, <2>11, <2>12 DEF FetchInv
<1>6. fetch.hop \in Int /\ MaxRedirects \in Int /\ size \in Int /\ MaxBytes \in Int
  <2>1. fetch.hop \in 0..MaxRedirects  BY DEF FetchInv, FetchTyped, Calls
  <2> QED  BY ONLY <2>1, Numbers, size \in {0, MaxBytes, MaxBytes + 1}
<1> QED  BY <1>3, <1>4, <1>5, <1>6 DEF Respond

LEMMA FetchNextHolds == FetchInv /\ [FetchNext]_fetchVars => FetchInv'
<1> SUFFICES ASSUME FetchInv, [FetchNext]_fetchVars PROVE FetchInv'  OBVIOUS
<1>1. CASE \E url \in FetchUrls : SafeFetch(url)  BY <1>1, SafeFetchHolds
<1>2. CASE \E answers \in DnsAnswers : ResolveAndPin(answers)  BY <1>2, PinHolds
<1>3. CASE \E a \in Addresses : Connect(a)  BY <1>3, ConnectHolds
<1>4. CASE TimeOut  BY <1>4, FailsHolds DEF TimeOut
<1>5. CASE \E status \in Statuses, location \in Locations,
              declared, size \in {0, MaxBytes, MaxBytes + 1} :
                Respond(status, location, declared, size)
  BY <1>5, RespondHolds
<1>6. CASE UNCHANGED fetchVars
  BY <1>6 DEF fetchVars, FetchInv, FetchTyped, Calls, FetchConfined
<1> QED  BY <1>1, <1>2, <1>3, <1>4, <1>5, <1>6 DEF FetchNext

\* The fetcher connects only to the origin it was asked for, by https, at most
\* MaxRedirects + 1 times, and at a public address unless the origin is first-party
\* or the transport connects by name, for every DNS answer and every redirect
\* (createSafeFetch, resolveAndPin, nextRedirectUrl, finalize, isBlockedAddress).
THEOREM FetchesStayConfined == FetchSpec => []FetchConfined
<1>1. FetchInv => FetchConfined  BY DEF FetchInv
<1> QED  BY <1>1, FetchInitHolds, FetchNextHolds, PTL DEF FetchSpec

-----------------------------------------------------------------------------
(* DID resolution.                                                         *)

\* A label that parses as a host is the host of its URL.
LEMMA ParsedHost ==
    ASSUME NEW did \in LookupDids, parseDidWeb(did)
    PROVE  didWebToUrl(did).host = did.id
<1>0. PICK S : S = STRING  OBVIOUS
<1>1. PICK host \in Seq(S) : host = did.id  BY <1>0, ResolutionAssumption
<1>2. \A i \in 1..Len(host) : host[i] \notin Separators /\ host[i] # "@"
  <2> SUFFICES ASSUME NEW i \in 1..Len(host) PROVE host[i] \notin Separators /\ host[i] # "@"
    OBVIOUS
  <2>1. Range(host) \cap (Separators \cup {"@", " "}) = {}
    BY <1>1 DEF parseDidWeb, parseDidWebHost
  <2>2. i \in DOMAIN host  BY <1>1
  <2>3. host[i] \in Range(host)  BY <2>2, Zenon DEF Range
  <2> QED  BY <2>1, <2>3
<1>3. SelectInSeq(host, LAMBDA t : t \in Separators) = 0  BY <1>2 DEF SelectInSeq
<1>4. SelectLastInSeq(host, LAMBDA t : t = "@") = 0  BY <1>2 DEF SelectLastInSeq
<1>5. SubSeq(host, 1, Len(host)) = host  BY <1>1
<1>6. AuthorityHost(host) = host  BY <1>3, <1>4, <1>5 DEF AuthorityHost
<1> QED  BY <1>1, <1>6 DEF didWebToUrl, WebUrl

ResolutionType ==
    /\ dtime \in Nat
    /\ devices \subseteq DeviceKeys /\ devices # {}
    /\ retired \in [DeviceKeys -> Nat \cup {Never}]
    /\ \A k \in devices : retired[k] = Never
    /\ DOMAIN docCache = LookupDids
    /\ \A did \in LookupDids : docCache[did].expiresAt \in Nat
    /\ DOMAIN lookup = Lookups
    /\ \A l \in Lookups :
        /\ DOMAIN lookup[l] = {"stage", "did", "reply", "since", "answer", "at"}
        /\ lookup[l].at \in Nat /\ lookup[l].since \in Nat

\* Whether a document answers for a DID at an instant.
AnswerGood(did, doc, at) ==
    /\ doc # NoDocument =>
        /\ doc.id = did
        /\ did.method = "key" /\ Configured("key") # "answers" => KeysOf(doc) = {did.id[2]}
    /\ did = Subject /\ Configured("web") # "answers" =>
        \A k \in KeysOf(doc) \cap DeviceKeys :
            retired[k] = Never \/ at <= retired[k] + MaxFetch \/ at < retired[k] + MaxFetch + CacheTtl

\* A cached document is its DID's, and the subject's keys in it may be used until it
\* expires.
CacheGood ==
    \A did \in LookupDids : dtime < docCache[did].expiresAt =>
        /\ docCache[did].document.id = did
        /\ docCache[did].expiresAt <= dtime + CacheTtl
        /\ did = Subject => \A k \in KeysOf(docCache[did].document) \cap DeviceKeys :
            retired[k] = Never \/ docCache[did].expiresAt <= retired[k] + MaxFetch + CacheTtl

\* A response on its way is for a did:web DID, and the keys in the subject's were
\* published when it was served, no longer than MaxFetch ago.
LookupGood(look) ==
    /\ look.at <= dtime
    /\ look.stage \in {"fetch", "served"} =>
        look.did \in LookupDids /\ parseDidWeb(look.did)
    /\ look.stage = "served" => look.since <= dtime /\ dtime <= look.since + MaxFetch
    /\ look.stage = "served" /\ look.did = Subject /\ Accepted(Subject, look.reply) =>
        \A k \in KeysOf(look.reply) \cap DeviceKeys : retired[k] = Never \/ look.since <= retired[k]
    /\ AnswerGood(look.did, look.answer, look.at)

ResolutionInv ==
    /\ ResolutionType /\ CacheGood
    /\ \A l \in Lookups : LookupGood(lookup[l])

LEMMA Times == CacheTtl \in Nat /\ MaxFetch \in Nat /\ Never = -1 /\ Subject \in LookupDids
BY ResolutionAssumption DEF Never

LEMMA NoKeys == KeysOf(NoDocument) = {}
BY DEF KeysOf, NoDocument

LEMMA IdleLookup == NoLookup.answer = NoDocument /\ NoLookup.at = 0 /\ NoLookup.stage = "idle"
BY DEF NoLookup

LEMMA InvCurrent == ResolutionInv => ResolvedKeysCurrent
<1> SUFFICES ASSUME ResolutionInv PROVE ResolvedKeysCurrent  OBVIOUS
<1>1. ResolvedIsOwn
  <2> SUFFICES ASSUME NEW l \in Lookups
               PROVE  /\ lookup[l].answer # NoDocument =>
                           /\ lookup[l].answer.id = lookup[l].did
                           /\ lookup[l].did.method = "key" /\ Configured("key") # "answers" =>
                               KeysOf(lookup[l].answer) = {lookup[l].did.id[2]}
                      /\ lookup[l].stage = "fetch" =>
                           didWebToUrl(lookup[l].did).host = lookup[l].did.id
    BY DEF ResolvedIsOwn
  <2>1. LookupGood(lookup[l])  BY DEF ResolutionInv
  <2> QED  BY <2>1, ParsedHost DEF LookupGood, AnswerGood
<1>2. RetiredKeyFades  BY DEF ResolutionInv, LookupGood, AnswerGood, RetiredKeyFades
<1> QED  BY <1>1, <1>2 DEF ResolvedKeysCurrent

LEMMA ResolutionInitHolds == ResolutionInit => ResolutionInv
<1> SUFFICES ASSUME ResolutionInit PROVE ResolutionInv  OBVIOUS
<1>1. ResolutionType
  BY ResolutionAssumption DEF ResolutionInit, ResolutionType, NotCached, NoLookup
<1>2. CacheGood  BY DEF ResolutionInit, CacheGood, NotCached
<1>3. ASSUME NEW l \in Lookups PROVE LookupGood(lookup[l])
  <2>1. lookup[l] = NoLookup /\ dtime = 0  BY DEF ResolutionInit
  <2>2. lookup[l].answer = NoDocument /\ lookup[l].at = 0 /\ lookup[l].stage = "idle"
    BY <2>1, IdleLookup
  <2> QED  BY <2>1, <2>2, NoKeys DEF LookupGood, AnswerGood
<1> QED  BY <1>1, <1>2, <1>3 DEF ResolutionInv

LEMMA AddDeviceHolds == ASSUME ResolutionInv, NEW k \in DeviceKeys, AddDevice(k) PROVE ResolutionInv'
<1>1. UNCHANGED <<resolvers, dtime, retired, docCache, lookup>>  BY DEF AddDevice
<1>2. ResolutionType'  BY <1>1 DEF ResolutionInv, ResolutionType, AddDevice
<1>3. CacheGood'  BY <1>1 DEF ResolutionInv, CacheGood
<1>4. \A l \in Lookups : LookupGood(lookup[l])'
  BY <1>1 DEF ResolutionInv, LookupGood, AnswerGood, Configured
<1> QED  BY <1>2, <1>3, <1>4 DEF ResolutionInv

LEMMA DropDeviceHolds == ASSUME ResolutionInv, NEW k \in DeviceKeys, DropDevice(k) PROVE ResolutionInv'
<1>1. /\ UNCHANGED <<resolvers, dtime, docCache, lookup>>
      /\ retired' = [retired EXCEPT ![k] = dtime] /\ devices' = devices \ {k} /\ k \in devices
  BY DEF DropDevice
<1>2. retired \in [DeviceKeys -> Nat \cup {Never}] /\ dtime \in Nat
  BY DEF ResolutionInv, ResolutionType
<1>3. \A j \in DeviceKeys : retired'[j] = IF j = k THEN dtime ELSE retired[j]  BY <1>1, <1>2
<1>4. ResolutionType'
  <2>1. devices' # {}
    <3>1. Cardinality(devices) > 1  BY DEF DropDevice
    <3>2. Cardinality({k}) = 1  BY FS_Singleton
    <3>3. devices # {k}  BY <3>1, <3>2
    <3> QED  BY <1>1, <3>3
  <2>2. retired' \in [DeviceKeys -> Nat \cup {Never}]  BY <1>1, <1>2
  <2>3. \A j \in devices' : retired'[j] = Never
    BY <1>1, <1>3 DEF ResolutionInv, ResolutionType
  <2> QED  BY <1>1, <2>1, <2>2, <2>3 DEF ResolutionInv, ResolutionType
<1>5. CacheGood'
  <2> SUFFICES ASSUME NEW did \in LookupDids, dtime < docCache[did].expiresAt
               PROVE  /\ docCache[did].document.id = did
                      /\ docCache[did].expiresAt <= dtime + CacheTtl
                      /\ did = Subject => \A j \in KeysOf(docCache[did].document) \cap DeviceKeys :
                           \/ retired'[j] = Never
                           \/ docCache[did].expiresAt <= retired'[j] + MaxFetch + CacheTtl
    BY <1>1 DEF CacheGood
  <2>1. /\ docCache[did].document.id = did /\ docCache[did].expiresAt <= dtime + CacheTtl
        /\ did = Subject => \A j \in KeysOf(docCache[did].document) \cap DeviceKeys :
             \/ retired[j] = Never
             \/ docCache[did].expiresAt <= retired[j] + MaxFetch + CacheTtl
        /\ docCache[did].expiresAt \in Nat
    BY DEF ResolutionInv, ResolutionType, CacheGood
  <2>2. docCache[did].expiresAt <= dtime + MaxFetch + CacheTtl  BY <1>2, <2>1, Times
  <2> QED  BY <1>3, <2>1, <2>2
<1>6. ASSUME NEW l \in Lookups PROVE LookupGood(lookup[l])'
  <2>1. PICK look : look = lookup[l]  OBVIOUS
  <2>2. LookupGood(look) /\ look.at \in Nat /\ look.since \in Nat
    BY <2>1 DEF ResolutionInv, ResolutionType
  <2>3. look.at <= dtime + MaxFetch  BY <1>2, <2>2, Times DEF LookupGood
  <2>4. AnswerGood(look.did, look.answer, look.at)'
    BY <1>1, <1>3, <2>2, <2>3 DEF LookupGood, AnswerGood, Configured
  <2>5. LookupGood(look)'  BY <1>1, <1>3, <2>2, <2>4 DEF LookupGood
  <2> QED  BY <1>1, <2>1, <2>5
<1> QED  BY <1>4, <1>5, <1>6 DEF ResolutionInv

\* An answer that is good for its DID now keeps the invariant.
LEMMA AnsweredHolds ==
    ASSUME ResolutionInv, NEW l \in Lookups, NEW did, NEW doc, Answered(l, did, doc),
           AnswerGood(did, doc, dtime), UNCHANGED <<resolvers, dtime, devices, retired>>
    PROVE  /\ \A m \in Lookups : LookupGood(lookup[m])'
           /\ DOMAIN docCache' = LookupDids /\ (\A d \in LookupDids : docCache'[d].expiresAt \in Nat)
                => ResolutionType'
<1>1. PICK new : new = [NoLookup EXCEPT !.stage = "answered", !.did = did, !.answer = doc, !.at = dtime]
  OBVIOUS
<1>2. /\ DOMAIN new = {"stage", "did", "reply", "since", "answer", "at"}
      /\ new.stage = "answered" /\ new.did = did /\ new.answer = doc /\ new.at = dtime /\ new.since = 0
  BY <1>1 DEF NoLookup
<1>3. lookup' = [lookup EXCEPT ![l] = new] /\ DOMAIN lookup = Lookups /\ dtime \in Nat
  BY <1>1 DEF Answered, ResolutionInv, ResolutionType
<1>4. DOMAIN lookup' = Lookups /\ \A m \in Lookups : lookup'[m] = IF m = l THEN new ELSE lookup[m]
  BY <1>3
<1>5. ASSUME NEW m \in Lookups PROVE LookupGood(lookup[m])'
  <2>1. CASE m = l
    <3>1. AnswerGood(did, doc, dtime)'  BY DEF AnswerGood, Configured
    <3>2. lookup'[m] = new  BY <1>4, <2>1
    <3> QED  BY <1>2, <1>3, <3>1, <3>2 DEF LookupGood
  <2>2. CASE m # l
    <3>1. LookupGood(lookup[m]) /\ lookup'[m] = lookup[m]  BY <1>4, <2>2 DEF ResolutionInv
    <3> QED  BY <3>1 DEF LookupGood, AnswerGood, Configured
  <2> QED  BY <2>1, <2>2
<1>6. ASSUME DOMAIN docCache' = LookupDids, \A d \in LookupDids : docCache'[d].expiresAt \in Nat
      PROVE  ResolutionType'
  BY <1>2, <1>3, <1>4, <1>6 DEF ResolutionInv, ResolutionType
<1> QED  BY <1>5, <1>6

\* No answer is always good.
LEMMA NoAnswer == \A did : AnswerGood(did, NoDocument, dtime)
BY NoKeys DEF AnswerGood

LEMMA SubjectIsWeb == Subject.method = "web"
BY ResolutionAssumption DEF parseDidWeb

\* The document a did:key DID spells holds its one key.
LEMMA DidKeyOwn ==
    ASSUME NEW did, did.method = "key"
    PROVE  AnswerGood(did, resolveDidKey(did), dtime)
<1>1. CASE resolveDidKey(did) = NoDocument  BY <1>1, NoAnswer
<1>2. CASE resolveDidKey(did) # NoDocument
  <2>1. PICK key : key = extractPublicKeyFromDidKey(did)  OBVIOUS
  <2>2. key # NoKey /\ key = did.id[2]
    BY <1>2, <2>1 DEF resolveDidKey, extractPublicKeyFromDidKey
  <2>3. resolveDidKey(did) =
          [id |-> did, verificationMethod |-> {Ed25519Method(did, didKeyFragment(did), key)}]
    BY <1>2, <2>1 DEF resolveDidKey
  <2>4. Ed25519Method(did, didKeyFragment(did), key).form = "jwk"
        /\ Ed25519Method(did, didKeyFragment(did), key).key = key
    BY DEF Ed25519Method
  <2>5. KeysOf(resolveDidKey(did)) = {did.id[2]}
    BY <2>2, <2>3, <2>4 DEF KeysOf, verificationMethodJwk, KeyForms
  <2> QED  BY <2>3, <2>5, SubjectIsWeb DEF AnswerGood
<1> QED  BY <1>1, <1>2

LEMMA ResolveHolds ==
    ASSUME ResolutionInv, NEW l \in Lookups, NEW did \in LookupDids, ResolveDID(l, did)
    PROVE  ResolutionInv'
<1>1. UNCHANGED <<resolvers, dtime, devices, retired, docCache>>  BY DEF ResolveDID
<1>2. CacheGood'  BY <1>1 DEF ResolutionInv, CacheGood
<1>3. /\ DOMAIN docCache' = LookupDids
      /\ \A d \in LookupDids : docCache'[d].expiresAt \in Nat
  BY <1>1 DEF ResolutionInv, ResolutionType
<1>4. ASSUME NEW doc, Answered(l, did, doc), AnswerGood(did, doc, dtime) PROVE ResolutionInv'
  BY <1>1, <1>2, <1>3, <1>4, AnsweredHolds DEF ResolutionInv
<1>5. PICK mode : mode = Configured(getDidMethod(did))  OBVIOUS
<1>6. CASE mode = "answers"
  <2>1. Answered(l, did, FromRegistry(did))  BY <1>5, <1>6 DEF ResolveDID
  <2>2. FromRegistry(did).id = did  BY DEF FromRegistry
  <2>3. Configured(did.method) = "answers"  BY <1>5, <1>6 DEF getDidMethod
  <2>4. AnswerGood(did, FromRegistry(did), dtime)
    BY <2>2, <2>3, SubjectIsWeb DEF AnswerGood
  <2> QED  BY <1>4, <2>1, <2>4
<1>7. CASE Answered(l, did, NoDocument)  BY <1>4, <1>7, NoAnswer
<1>8. CASE mode # "answers" /\ did.method = "key" /\ Answered(l, did, resolveDidKey(did))
  BY <1>4, <1>8, DidKeyOwn
<1>9. CASE mode # "answers" /\ did.method = "web" /\ ResolveWeb(l, did)
  <2>1. CASE CacheHit(did)
    <3>1. Answered(l, did, docCache[did].document)  BY <1>9, <2>1 DEF ResolveWeb
    <3>2. dtime < docCache[did].expiresAt  BY <2>1 DEF CacheHit
    <3>3. /\ docCache[did].document.id = did
          /\ did = Subject => \A k \in KeysOf(docCache[did].document) \cap DeviceKeys :
                retired[k] = Never \/ docCache[did].expiresAt <= retired[k] + MaxFetch + CacheTtl
          /\ docCache[did].expiresAt \in Nat /\ dtime \in Nat
          /\ retired \in [DeviceKeys -> Nat \cup {Never}]
      BY <3>2 DEF ResolutionInv, ResolutionType, CacheGood
    <3>4. AnswerGood(did, docCache[did].document, dtime)
      BY <1>9, <3>2, <3>3, Times DEF AnswerGood
    <3> QED  BY <1>4, <3>1, <3>4
  <2>2. CASE ~CacheHit(did) /\ didWebToUrl(did) = NoUrl
    <3>1. Answered(l, did, NoDocument)  BY <1>9, <2>2 DEF ResolveWeb
    <3> QED  BY <1>4, <3>1, NoAnswer
  <2>3. CASE ~CacheHit(did) /\ didWebToUrl(did) # NoUrl
    <3>1. PICK new : new = [NoLookup EXCEPT !.stage = "fetch", !.did = did]  OBVIOUS
    <3>2. /\ DOMAIN new = {"stage", "did", "reply", "since", "answer", "at"}
          /\ new.stage = "fetch" /\ new.did = did /\ new.answer = NoDocument
          /\ new.at = 0 /\ new.since = 0
      BY <3>1 DEF NoLookup
    <3>3. lookup' = [lookup EXCEPT ![l] = new] /\ DOMAIN lookup = Lookups /\ dtime \in Nat
      BY <1>9, <2>3, <3>1 DEF ResolveWeb, ResolutionInv, ResolutionType
    <3>4. DOMAIN lookup' = Lookups /\ \A m \in Lookups : lookup'[m] = IF m = l THEN new ELSE lookup[m]
      BY <3>3
    <3>5. parseDidWeb(did)  BY <2>3 DEF didWebToUrl
    <3>6. ASSUME NEW m \in Lookups PROVE LookupGood(lookup[m])'
      <4>1. CASE m = l
        <5>1. AnswerGood(did, NoDocument, 0)'  BY NoKeys DEF AnswerGood
        <5> QED  BY <1>1, <3>2, <3>3, <3>4, <3>5, <4>1, <5>1 DEF LookupGood
      <4>2. CASE m # l
        <5>1. LookupGood(lookup[m]) /\ lookup'[m] = lookup[m]  BY <3>4, <4>2 DEF ResolutionInv
        <5> QED  BY <1>1, <5>1 DEF LookupGood, AnswerGood, Configured
      <4> QED  BY <4>1, <4>2
    <3>7. ResolutionType'  BY <1>1, <3>2, <3>3, <3>4 DEF ResolutionInv, ResolutionType
    <3> QED  BY <1>2, <3>6, <3>7 DEF ResolutionInv
  <2> QED  BY <2>1, <2>2, <2>3
<1> QED  BY <1>5, <1>6, <1>7, <1>8, <1>9 DEF ResolveDID

\* What the subject's web server publishes are the keys it has.
LEMMA PublishedKeys ==
    ASSUME ResolutionInv, NEW doc \in {Published(Subject), Malformed(Subject), Foreign, NoDocument},
           Accepted(Subject, doc)
    PROVE  \A k \in KeysOf(doc) \cap DeviceKeys : retired[k] = Never
<1>1. doc # NoDocument
  <2>1. NoDocument.id.method = ""  BY DEF NoDocument, OtherDid
  <2> QED  BY <2>1 DEF Accepted, isValidDIDDocument
<1>2. doc # Foreign
  <2>1. Foreign.id.method = "other"  BY DEF Foreign, OtherDid
  <2> QED  BY <2>1, SubjectIsWeb DEF Accepted
<1>3. doc # Malformed(Subject)
  <2>1. PICK vm : vm = [Ed25519Method(Subject, "keys-1", "forged") EXCEPT !.type = ""]  OBVIOUS
  <2>2. vm.type = ""  BY <2>1 DEF Ed25519Method
  <2>3. vm \in Malformed(Subject).verificationMethod  BY <2>1 DEF Malformed
  <2> QED  BY <2>2, <2>3 DEF Accepted, isValidDIDDocument, isValidVerificationMethod
<1>4. doc = buildDidWebDocument(Identities(devices))  BY <1>1, <1>2, <1>3 DEF Published
<1>5. PICK did : doc = [id |-> did, verificationMethod |->
                          {Ed25519Method(did, i.kid.fragment, i.key) : i \in Identities(devices)}]
  BY <1>1, <1>4, Zenon DEF buildDidWebDocument
<1>6. ASSUME NEW k \in KeysOf(doc) PROVE k \in devices
  <2>1. PICK vm \in doc.verificationMethod : k = verificationMethodJwk(vm)  BY DEF KeysOf
  <2>2. PICK i \in Identities(devices) : vm = Ed25519Method(did, i.kid.fragment, i.key)
    BY <1>5, <2>1
  <2>3. vm.form = "jwk" /\ vm.key = i.key  BY <2>2 DEF Ed25519Method
  <2>4. k = i.key  BY <2>1, <2>3 DEF verificationMethodJwk, KeyForms
  <2>5. i.key \in devices  BY <2>2 DEF Identities
  <2> QED  BY <2>4, <2>5
<1> QED  BY <1>6 DEF ResolutionInv, ResolutionType

LEMMA ServeHolds == ASSUME ResolutionInv, NEW l \in Lookups, Serve(l) PROVE ResolutionInv'
<1>1. lookup[l].stage = "fetch" /\ UNCHANGED <<resolvers, dtime, devices, retired, docCache>>
  BY DEF Serve
<1>2. PICK doc \in {Published(lookup[l].did), Malformed(lookup[l].did), Foreign, NoDocument} :
        lookup' = [lookup EXCEPT ![l].stage = "served", ![l].reply = doc, ![l].since = dtime]
  BY DEF Serve
<1>3. PICK old : old = lookup[l]  OBVIOUS
<1>4. PICK new : new = [old EXCEPT !.stage = "served", !.reply = doc, !.since = dtime]  OBVIOUS
<1>5. /\ LookupGood(old) /\ old.stage = "fetch" /\ DOMAIN lookup = Lookups /\ dtime \in Nat
      /\ DOMAIN old = {"stage", "did", "reply", "since", "answer", "at"} /\ old.at \in Nat
  BY <1>1, <1>3 DEF ResolutionInv, ResolutionType
<1>6. /\ DOMAIN new = {"stage", "did", "reply", "since", "answer", "at"}
      /\ new.stage = "served" /\ new.did = old.did /\ new.answer = old.answer
      /\ new.at = old.at /\ new.since = dtime /\ new.reply = doc
  BY <1>4, <1>5
<1>7. DOMAIN lookup' = Lookups /\ \A m \in Lookups : lookup'[m] = IF m = l THEN new ELSE lookup[m]
  BY <1>2, <1>3, <1>4, <1>5
<1>8. ASSUME NEW m \in Lookups PROVE LookupGood(lookup[m])'
  <2>1. CASE m = l
    <3>1. LookupGood(new)
      <4>1. new.did = Subject /\ Accepted(Subject, doc) =>
              \A k \in KeysOf(doc) \cap DeviceKeys : retired[k] = Never
        BY <1>2, <1>3, <1>6, PublishedKeys
      <4>2. new.since <= dtime /\ dtime <= new.since + MaxFetch  BY <1>5, <1>6, Times
      <4> QED  BY <1>5, <1>6, <4>1, <4>2 DEF LookupGood
    <3> QED  BY <1>1, <1>7, <2>1, <3>1 DEF LookupGood, AnswerGood, Configured
  <2>2. CASE m # l
    <3>1. LookupGood(lookup[m]) /\ lookup'[m] = lookup[m]  BY <1>7, <2>2 DEF ResolutionInv
    <3> QED  BY <1>1, <3>1 DEF LookupGood, AnswerGood, Configured
  <2> QED  BY <2>1, <2>2
<1>9. ResolutionType'  BY <1>1, <1>5, <1>6, <1>7 DEF ResolutionInv, ResolutionType
<1>10. CacheGood'  BY <1>1 DEF ResolutionInv, CacheGood
<1> QED  BY <1>8, <1>9, <1>10 DEF ResolutionInv

LEMMA ArriveHolds == ASSUME ResolutionInv, NEW l \in Lookups, Arrive(l) PROVE ResolutionInv'
<1>1. lookup[l].stage = "served" /\ UNCHANGED <<resolvers, dtime, devices, retired>>
  BY DEF Arrive
<1>2. PICK did, doc : did = lookup[l].did /\ doc = lookup[l].reply  OBVIOUS
<1>3. /\ did \in LookupDids /\ parseDidWeb(did) /\ dtime \in Nat
      /\ lookup[l].since <= dtime /\ dtime <= lookup[l].since + MaxFetch
      /\ lookup[l].since \in Nat /\ retired \in [DeviceKeys -> Nat \cup {Never}]
      /\ DOMAIN docCache = LookupDids /\ \A d \in LookupDids : docCache[d].expiresAt \in Nat
  BY <1>1, <1>2 DEF ResolutionInv, ResolutionType, LookupGood
<1>4. CASE Accepted(did, doc)
  <2>1. /\ docCache' = [docCache EXCEPT ![did] = [document |-> doc, expiresAt |-> dtime + CacheTtl]]
        /\ Answered(l, did, doc)
    BY <1>2, <1>4 DEF Arrive
  <2>2. did = Subject => \A k \in KeysOf(doc) \cap DeviceKeys :
          retired[k] = Never \/ dtime <= retired[k] + MaxFetch
    <3> SUFFICES ASSUME did = Subject, NEW k \in KeysOf(doc) \cap DeviceKeys, retired[k] # Never
                 PROVE  dtime <= retired[k] + MaxFetch
      OBVIOUS
    <3>1. lookup[l].since <= retired[k]  BY <1>1, <1>2, <1>4 DEF ResolutionInv, LookupGood
    <3>2. retired[k] \in Nat  BY <1>3
    <3> QED  BY <1>3, <3>1, <3>2, Times
  <2>3. did.method = "web" /\ doc.id = did  BY <1>3, <1>4 DEF parseDidWeb, Accepted
  <2>4. AnswerGood(did, doc, dtime)  BY <2>2, <2>3 DEF AnswerGood
  <2>5. \A d \in LookupDids :
          /\ docCache'[d].expiresAt = IF d = did THEN dtime + CacheTtl ELSE docCache[d].expiresAt
          /\ docCache'[d].document = IF d = did THEN doc ELSE docCache[d].document
    BY <1>3, <2>1
  <2>6. DOMAIN docCache' = LookupDids /\ \A d \in LookupDids : docCache'[d].expiresAt \in Nat
    BY <1>3, <2>1, <2>5, Times
  <2>7. CacheGood'
    <3> SUFFICES ASSUME NEW d \in LookupDids, dtime < docCache'[d].expiresAt
                 PROVE  /\ docCache'[d].document.id = d
                        /\ docCache'[d].expiresAt <= dtime + CacheTtl
                        /\ d = Subject => \A k \in KeysOf(docCache'[d].document) \cap DeviceKeys :
                             \/ retired[k] = Never
                             \/ docCache'[d].expiresAt <= retired[k] + MaxFetch + CacheTtl
      BY <1>1 DEF CacheGood
    <3>1. CASE d # did  BY <2>5, <3>1 DEF ResolutionInv, CacheGood
    <3>2. CASE d = did
      <4>1. docCache'[d].expiresAt = dtime + CacheTtl /\ docCache'[d].document = doc
        BY <2>5, <3>2
      <4>2. \A k \in KeysOf(doc) \cap DeviceKeys :
              d = Subject /\ retired[k] # Never => dtime + CacheTtl <= retired[k] + MaxFetch + CacheTtl
        BY <1>3, <2>2, <3>2, Times
      <4> QED  BY <1>3, <2>3, <3>2, <4>1, <4>2, Times
    <3> QED  BY <3>1, <3>2
  <2> QED  BY <1>1, <2>1, <2>4, <2>6, <2>7, AnsweredHolds DEF ResolutionInv
<1>5. CASE ~Accepted(did, doc)
  <2>1. Answered(l, did, NoDocument) /\ UNCHANGED docCache  BY <1>2, <1>5 DEF Arrive
  <2>2. CacheGood'  BY <1>1, <2>1 DEF ResolutionInv, CacheGood
  <2> QED  BY <1>1, <1>3, <2>1, <2>2, NoAnswer, AnsweredHolds DEF ResolutionInv
<1> QED  BY <1>4, <1>5

LEMMA ClearHolds == ASSUME ResolutionInv, NEW dids, ClearCache(dids) PROVE ResolutionInv'
<1>1. UNCHANGED <<resolvers, dtime, devices, retired, lookup>>  BY DEF ClearCache
<1>2. /\ DOMAIN docCache' = LookupDids
      /\ \A d \in LookupDids : docCache'[d] = NotCached \/ docCache'[d] = docCache[d]
  BY DEF ClearCache
<1>3. NotCached.expiresAt = 0  BY DEF NotCached
<1>4. dtime \in Nat  BY DEF ResolutionInv, ResolutionType
<1>5. CacheGood'  BY <1>1, <1>2, <1>3, <1>4 DEF ResolutionInv, CacheGood
<1>6. ResolutionType'  BY <1>1, <1>2, <1>3 DEF ResolutionInv, ResolutionType
<1>7. \A l \in Lookups : LookupGood(lookup[l])'
  BY <1>1 DEF ResolutionInv, LookupGood, AnswerGood, Configured
<1> QED  BY <1>5, <1>6, <1>7 DEF ResolutionInv

LEMMA TickHolds == ASSUME ResolutionInv, ResolutionTick PROVE ResolutionInv'
<1>1. UNCHANGED <<resolvers, devices, retired, docCache, lookup>> /\ dtime' = dtime + 1
  BY DEF ResolutionTick
<1>2. dtime \in Nat /\ dtime' \in Nat  BY <1>1 DEF ResolutionInv, ResolutionType
<1>3. ResolutionType'  BY <1>1, <1>2 DEF ResolutionInv, ResolutionType
<1>4. CacheGood'
  <2>1. \A d \in LookupDids : docCache[d].expiresAt \in Nat  BY DEF ResolutionInv, ResolutionType
  <2> QED  BY <1>1, <1>2, <2>1, Times DEF ResolutionInv, CacheGood
<1>5. ASSUME NEW l \in Lookups PROVE LookupGood(lookup[l])'
  <2>1. PICK look : look = lookup[l]  OBVIOUS
  <2>2. LookupGood(look) /\ look.at \in Nat /\ look.since \in Nat
    BY <2>1 DEF ResolutionInv, ResolutionType
  <2>3. look.stage = "served" => dtime < look.since + MaxFetch  BY <2>1 DEF ResolutionTick
  <2>4. AnswerGood(look.did, look.answer, look.at)'
    BY <1>1, <2>2 DEF LookupGood, AnswerGood, Configured
  <2>5. look.at <= dtime' /\ (look.stage = "served" =>
          look.since <= dtime' /\ dtime' <= look.since + MaxFetch)
    BY <1>1, <1>2, <2>2, <2>3, Times DEF LookupGood
  <2>6. LookupGood(look)'  BY <1>1, <2>2, <2>4, <2>5 DEF LookupGood
  <2> QED  BY <1>1, <2>1, <2>6
<1> QED  BY <1>3, <1>4, <1>5 DEF ResolutionInv

LEMMA ResolutionNextHolds == ResolutionInv /\ [ResolutionNext]_resolutionVars => ResolutionInv'
<1> SUFFICES ASSUME ResolutionInv, [ResolutionNext]_resolutionVars PROVE ResolutionInv'  OBVIOUS
<1>1. CASE \E k \in DeviceKeys : AddDevice(k) \/ DropDevice(k)
  BY <1>1, AddDeviceHolds, DropDeviceHolds
<1>2. CASE \E l \in Lookups : \E did \in LookupDids : ResolveDID(l, did)  BY <1>2, ResolveHolds
<1>3. CASE \E l \in Lookups : Serve(l) \/ Arrive(l)  BY <1>3, ServeHolds, ArriveHolds
<1>4. CASE \E dids \in {LookupDids} \cup {{d} : d \in LookupDids} : ClearCache(dids)
  BY <1>4, ClearHolds
<1>5. CASE ResolutionTick  BY <1>5, TickHolds
<1>6. CASE UNCHANGED resolutionVars
  BY <1>6 DEF resolutionVars, ResolutionInv, ResolutionType, CacheGood, LookupGood, AnswerGood, Configured
<1> QED  BY <1>1, <1>2, <1>3, <1>4, <1>5, <1>6 DEF ResolutionNext

\* A document returned for a DID is that DID's own, and a key its subject has dropped
\* is returned no later than one fetch and one cache lifetime after that, however
\* lookups, cache clearing, late responses and key changes interleave (resolveDID,
\* DidWebResolver.resolve, parseDidWebHost).
THEOREM ResolutionsAreCurrent == ResolutionSpec => []ResolvedKeysCurrent
BY InvCurrent, ResolutionInitHolds, ResolutionNextHolds, PTL DEF ResolutionSpec

-----------------------------------------------------------------------------
(* Replay admission.                                                       *)

USE AdmissionAssumption

\* The instant a message's window closes for good.
Ends(m) == (ValidUntil(m) + 1) * Tps

\* The record of q's message outlives its window.
Remembered(q) == \E c \in cache : c.key = NonceKey(q) /\ c.expiry >= Ends(Message[q])

\* A record is overwritten only by one of the same message, or not at all: consume()
\* tests before it sets, and has()/add() is safe while no signer reuses a nonce.
Careful ==
    \/ Atomic /\ Faults = {}
    \/ \A r, q \in setting.requests :
          NonceKey(r) = NonceKey(q) /\ Message[r].genuine /\ Message[q].genuine
              => Message[r] = Message[q]

AdmissionType ==
    /\ now \in Nat /\ skew \in [Kinds -> Nat]
    /\ cache \subseteq [key: Signers \X Nonces, expiry: Nat]
    /\ pc \in [Requests -> {"idle", "verify", "add"} \cup Settled]
    /\ age \in [Requests -> Nat] /\ ttl \in [Requests -> Nat]
    /\ before \in [Requests -> SUBSET Requests] /\ late \subseteq Requests
    /\ setting \in Settings

\* Whoever is past the signature check is genuine, was asked for, and knows who came
\* before it; an atomic cache never has a nonce half admitted.
Arrived ==
    \A r \in Requests :
        /\ pc[r] # "idle" => r \in setting.requests
        /\ pc[r] \in {"add", "admitted"} => Message[r].genuine
        /\ pc[r] = "add" => ~Atomic
        /\ \A q \in before[r] : Message[q] = Message[r] /\ pc[q] = "admitted"

\* The retention computed before has() still covers the window when add() runs.
TtlCovers ==
    \A r \in Requests : pc[r] = "add" => now + ttl[r] * Tps >= Ends(Message[r])

\* An admitted message is remembered until its window has closed.
AdmittedKept ==
    \A q \in Requests : pc[q] = "admitted" /\ q \notin late => Closed(Message[q]) \/ Remembered(q)

\* has() let a message through that had been admitted only when the window had closed.
AddedLate ==
    \A r \in Requests : pc[r] = "add" =>
        \A q \in before[r] : q \in late \/ Closed(Message[r])

\* Each record of a cache that does not fail belongs to an admitted message.
CacheEarned ==
    Faults = {} => \A c \in cache : \E q \in Requests :
        NonceKey(q) = c.key /\ Message[q].genuine /\ pc[q] = "admitted"

Kept == AdmittedKept /\ AddedLate /\ AdmittedOnce
Earned == CacheEarned /\ ReplayedOnlyIfSpent

AdmissionInv == AdmissionType /\ Arrived /\ TtlCovers /\ Earned /\ (Careful => Kept)

-----------------------------------------------------------------------------
(* Arithmetic of windows and retention.                                    *)

LEMMA MaxOfTwo ==
    ASSUME NEW a \in Int, NEW b \in Int
    PROVE  Max({a, b}) \in {a, b} /\ Max({a, b}) >= a /\ Max({a, b}) >= b
<1>1. \E x \in {a, b} : \A y \in {a, b} : x >= y
  BY a >= b \/ b >= a
<1> QED BY <1>1 DEF Max

LEMMA MinOfTwo ==
    ASSUME NEW a \in Int, NEW b \in Int
    PROVE  Min({a, b}) \in {a, b} /\ Min({a, b}) <= a /\ Min({a, b}) <= b
<1>1. \E x \in {a, b} : \A y \in {a, b} : x <= y
  BY a >= b \/ b >= a
<1> QED BY <1>1 DEF Min

LEMMA MaxOfThree ==
    ASSUME NEW a \in Int, NEW b \in Int, NEW c \in Int
    PROVE  /\ Max({a, b, c}) \in {a, b, c}
           /\ Max({a, b, c}) >= a /\ Max({a, b, c}) >= b /\ Max({a, b, c}) >= c
<1>1. \E x \in {a, b, c} : \A y \in {a, b, c} : x >= y
  <2>1. CASE a >= b /\ a >= c
    BY <2>1
  <2>2. CASE b >= a /\ b >= c
    BY <2>2
  <2>3. CASE c >= a /\ c >= b
    BY <2>3
  <2> QED BY <2>1, <2>2, <2>3
<1> QED BY <1>1 DEF Max

\* Rounded up to whole seconds, a duration is not cut short.
LEMMA CeilCovers ==
    ASSUME NEW t \in Int
    PROVE  CeilSec(t) \in Int /\ CeilSec(t) * Tps >= t
<1> DEFINE n == t + Tps - 1
           d == n \div Tps
<1>1. n \in Int /\ Tps \in Int /\ Tps > 0
  OBVIOUS
<1>2. d \in Int /\ Tps * d <= n /\ n < Tps * d + Tps
  BY <1>1
<1>3. d * Tps = Tps * d
  BY <1>1, <1>2
<1> QED BY <1>1, <1>2, <1>3 DEF CeilSec

LEMMA ProductFacts ==
    ASSUME NEW n \in Nat
    PROVE  n * Tps \in Nat
<1>1. n \in Int /\ Tps \in Int /\ n >= 0 /\ Tps >= 0
  OBVIOUS
<1> QED BY <1>1

\* A window ends at a whole instant.
LEMMA EndsFacts ==
    ASSUME AdmissionType, NEW r \in Requests
    PROVE  ValidUntil(Message[r]) \in Nat /\ Ends(Message[r]) \in Nat
<1>1. Message[r].created \in Nat /\ Message[r].expires \in Nat /\ Message[r].kind \in Kinds
  OBVIOUS
<1>2. \A k \in Kinds : skew[k] \in Nat
  BY DEF AdmissionType
<1>3. Max({skew["proof"], MaxSkew}) \in Nat
  <2>1. skew["proof"] \in Nat /\ MaxSkew \in Nat
    BY <1>2 DEF Kinds
  <2>2. skew["proof"] \in Int /\ MaxSkew \in Int
    BY <2>1
  <2>3. Max({skew["proof"], MaxSkew}) \in {skew["proof"], MaxSkew}
    BY <2>2, MaxOfTwo, Zenon
  <2> QED BY <2>1, <2>3
<1>4. ValidUntil(Message[r]) \in Nat
  BY <1>1, <1>2, <1>3 DEF ValidUntil, Kinds
<1> QED BY <1>4 DEF Ends

LEMMA EndsAlways ==
    AdmissionType => \A r \in Requests : ValidUntil(Message[r]) \in Nat /\ Ends(Message[r]) \in Nat
BY EndsFacts

LEMMA EndsNext ==
    (AdmissionType => \A r \in Requests : ValidUntil(Message[r]) \in Nat /\ Ends(Message[r]) \in Nat)'
BY EndsAlways, PTL

LEMMA EndsTyped ==
    ASSUME AdmissionType, AdmissionType', NEW r \in Requests
    PROVE  /\ ValidUntil(Message[r]) \in Nat /\ ValidUntil(Message[r])' \in Nat
           /\ Ends(Message[r]) \in Nat /\ Ends(Message[r])' \in Nat
BY EndsAlways, EndsNext

\* nonceRetentionSeconds covers the rest of the window.
LEMMA RetentionCovers ==
    ASSUME AdmissionType, NEW r \in Requests
    PROVE  /\ Retention(Message[r]) \in Nat
           /\ now + Retention(Message[r]) * Tps >= Ends(Message[r])
<1> DEFINE m == Message[r]
           t == (ValidUntil(m) + 1) * Tps - now
<1>1. ValidUntil(m) \in Nat /\ now \in Nat /\ MinTtl[m.kind] \in Nat
  BY EndsFacts DEF AdmissionType
<1>2. t \in Int
  BY <1>1
<1>3. CeilSec(t) \in Int /\ CeilSec(t) * Tps >= t
  BY <1>2, CeilCovers
<1>4. /\ Retention(m) \in {1, MinTtl[m.kind], CeilSec(t)}
      /\ Retention(m) >= 1 /\ Retention(m) >= CeilSec(t)
  <2>1. \A x \in Int : /\ Max({1, MinTtl[m.kind], x}) \in {1, MinTtl[m.kind], x}
                       /\ Max({1, MinTtl[m.kind], x}) >= 1 /\ Max({1, MinTtl[m.kind], x}) >= x
    <3>1. 1 \in Int /\ MinTtl[m.kind] \in Int
      BY <1>1
    <3> QED BY <3>1, MaxOfThree, Zenon
  <2>2. Retention(m) = Max({1, MinTtl[m.kind], CeilSec(t)})
    BY DEF Retention, NonceRetentionSeconds
  <2> QED BY <1>3, <2>1, <2>2
<1>5. Retention(m) \in Nat
  BY <1>1, <1>3, <1>4
<1>6. Retention(m) * Tps >= CeilSec(t) * Tps
  BY <1>3, <1>4, <1>5
<1>7. now + Retention(m) * Tps >= now + t
  <2> HIDE DEF t
  <2> QED BY <1>1, <1>2, <1>3, <1>5, <1>6
<1> QED BY <1>1, <1>5, <1>7, EndsFacts DEF Ends

-----------------------------------------------------------------------------
(* Types, and who may be where.                                            *)

\* A record is written with a natural expiry.
LEMMA RecordType ==
    ASSUME AdmissionType, NEW r \in Requests, NEW n \in Nat
    PROVE  Record(NonceKey(r), n) \subseteq [key: Signers \X Nonces, expiry: Nat]
<1>1. NonceKey(r) \in Signers \X Nonces
  BY DEF NonceKey
<1>2. now + n * Tps \in Nat
  <2>1. now \in Nat /\ \A x \in Nat : now + x \in Nat
    BY DEF AdmissionType
  <2> QED BY <2>1, ProductFacts
<1> QED BY <1>1, <1>2 DEF Record, AdmissionType

\* What a step of request r amounts to.
Covers(r, n) == now + n * Tps >= Ends(Message[r])

Moves(r) == \E x \in {"stale", "verify", "denied"} :
    pc' = [pc EXCEPT ![r] = x] /\ UNCHANGED <<cache, late, ttl>>

Refuses(r) ==
    /\ Recorded(NonceKey(r)) /\ pc' = [pc EXCEPT ![r] = "replayed"]
    /\ UNCHANGED <<cache, late, ttl>>

Fails(r) ==
    /\ "cache" \in Faults /\ pc' = [pc EXCEPT ![r] = "denied"] /\ UNCHANGED late
    /\ \E n \in Nat : Covers(r, n) /\ cache' \in {cache, Record(NonceKey(r), n)}

Admits(r) ==
    /\ Admitted(r)
    /\ \E n \in Nat : Covers(r, n) /\ cache' = Record(NonceKey(r), n)
    /\ \/ Atomic /\ ~Recorded(NonceKey(r))
       \/ ~Atomic /\ pc[r] = "add"

Begins(r) ==
    /\ ~Atomic /\ ~Recorded(NonceKey(r)) /\ pc' = [pc EXCEPT ![r] = "add"]
    /\ ttl' = [ttl EXCEPT ![r] = Retention(Message[r])]
    /\ UNCHANGED <<cache, late>>

Progress(r) ==
    /\ UNCHANGED <<now, skew, age, setting>>
    /\ r \in setting.requests /\ pc[r] \in {"idle", "verify", "add"}
    /\ \E B \in SUBSET Requests :
         /\ before' = [before EXCEPT ![r] = B]
         /\ \A q \in B : Message[q] = Message[r] /\ pc[q] = "admitted"
         /\ pc[r] = "add" => B = before[r]
    /\ ttl' \in {ttl, [ttl EXCEPT ![r] = 0], [ttl EXCEPT ![r] = Retention(Message[r])]}
    /\ \/ Moves(r)
       \/ Message[r].genuine /\ (Refuses(r) \/ Fails(r) \/ Admits(r) \/ Begins(r))
    /\ pc[r] = "add" => Fails(r) \/ Admits(r)

LEMMA AdmitFacts ==
    ASSUME AdmissionType, NEW r \in Requests, Admit(r)
    PROVE  /\ Refuses(r) \/ Fails(r) \/ Admits(r) \/ Begins(r)
           /\ ttl' \in {ttl, [ttl EXCEPT ![r] = Retention(Message[r])]}
<1>1. Retention(Message[r]) \in Nat /\ Covers(r, Retention(Message[r]))
  BY RetentionCovers DEF Covers
<1>2. CASE Atomic
  BY <1>1, <1>2 DEF Admit, Consume, Refuses, Fails, Admits
<1>3. CASE ~Atomic
  BY <1>1, <1>3 DEF Admit, Has, Refuses, Fails, Begins
<1> QED BY <1>2, <1>3

LEMMA RequestStep ==
    ASSUME AdmissionType, Arrived, TtlCovers, NEW r \in Requests, UNCHANGED setting,
           Handshake(r) \/ CheckWindow(r) \/ Verify(r) \/ Add(r)
    PROVE  Progress(r)
<1> DEFINE Earlier == {q \in Requests : Message[q] = Message[r] /\ pc[q] = "admitted"}
<1>1. before = [before EXCEPT ![r] = before[r]] /\ before[r] \in SUBSET Requests
  BY DEF AdmissionType
<1> DEFINE Knows ==
             \E B \in SUBSET Requests :
               /\ before' = [before EXCEPT ![r] = B]
               /\ \A q \in B : Message[q] = Message[r] /\ pc[q] = "admitted"
               /\ pc[r] = "add" => B = before[r]
<1>2. before' = [before EXCEPT ![r] = Earlier] /\ pc[r] = "idle" => Knows
  <2>1. Earlier \in SUBSET Requests /\ \A q \in Earlier : Message[q] = Message[r] /\ pc[q] = "admitted"
    OBVIOUS
  <2> HIDE DEF Earlier
  <2> QED BY <2>1
<1>3. before' = before => Knows
  BY <1>1 DEF Arrived
<1>4. CASE Handshake(r)
  <2>1. /\ UNCHANGED <<now, skew, age>> /\ pc[r] = "idle" /\ r \in setting.requests
        /\ before' = [before EXCEPT ![r] = Earlier] /\ Message[r].genuine
    BY <1>4 DEF Handshake, Present
  <2>2. CASE Admit(r)
    BY <1>2, <2>1, <2>2, AdmitFacts DEF Progress
  <2>3. CASE pc' = [pc EXCEPT ![r] = "stale"] /\ UNCHANGED <<cache, ttl, late>>
    BY <1>2, <2>1, <2>3 DEF Progress, Moves
  <2> QED BY <1>4, <2>2, <2>3 DEF Handshake
<1>5. CASE CheckWindow(r)
  <2>1. /\ UNCHANGED <<now, skew, age>> /\ pc[r] = "idle" /\ r \in setting.requests
        /\ before' = [before EXCEPT ![r] = Earlier] /\ UNCHANGED <<cache, ttl, late>>
    BY <1>5 DEF CheckWindow, Present
  <2>2. Moves(r)
    BY <1>5 DEF CheckWindow, Moves
  <2> QED BY <1>2, <2>1, <2>2 DEF Progress
<1>6. CASE Verify(r)
  <2>1. /\ UNCHANGED <<now, skew, age, before>> /\ pc[r] = "verify" /\ r \in setting.requests
        /\ \A q \in before[r] : Message[q] = Message[r] /\ pc[q] = "admitted"
    BY <1>6 DEF Verify, Arrived
  <2>2. CASE Message[r].genuine /\ Admit(r)
    BY <1>3, <2>1, <2>2, AdmitFacts DEF Progress
  <2>3. CASE pc' = [pc EXCEPT ![r] = "denied"] /\ UNCHANGED <<cache, ttl, late>>
    BY <1>3, <2>1, <2>3 DEF Progress, Moves
  <2> QED BY <1>6, <2>2, <2>3 DEF Verify
<1>7. CASE Add(r)
  <2>1. /\ UNCHANGED <<now, skew, age, before>> /\ pc[r] = "add" /\ r \in setting.requests
        /\ \A q \in before[r] : Message[q] = Message[r] /\ pc[q] = "admitted"
        /\ Message[r].genuine /\ ~Atomic /\ ttl' = [ttl EXCEPT ![r] = 0]
    BY <1>7 DEF Add, Arrived
  <2>2. ttl[r] \in Nat /\ Covers(r, ttl[r])
    BY <2>1 DEF AdmissionType, TtlCovers, Covers
  <2>3. Fails(r) \/ Admits(r)
    BY <1>7, <2>1, <2>2 DEF Add, Fails, Admits
  <2> QED BY <1>3, <2>1, <2>3 DEF Progress
<1> QED BY <1>4, <1>5, <1>6, <1>7

\* A request that progresses ends in one of these ways.
LEMMA ProgressFacts ==
    ASSUME AdmissionType, NEW r \in Requests, Progress(r)
    PROVE  /\ \E x \in {"verify", "add"} \cup Settled : pc' = [pc EXCEPT ![r] = x]
           /\ \A q \in Requests : q # r => pc'[q] = pc[q] /\ before'[q] = before[q] /\ ttl'[q] = ttl[q]
           /\ \A q \in Requests : pc[q] = "admitted" => pc'[q] = "admitted" /\ q # r
           /\ late \subseteq late' /\ \A q \in Requests : q # r => (q \in late' <=> q \in late)
           /\ pc'[r] = "admitted" => Admits(r)
           /\ pc'[r] = "add" => Begins(r)
           /\ pc'[r] \in {"add", "admitted"} => Message[r].genuine
<1>1. \E x \in {"verify", "add"} \cup Settled : pc' = [pc EXCEPT ![r] = x]
  BY DEF Progress, Moves, Refuses, Fails, Admits, Admitted, Begins, Settled
<1>2. pc'[r] = "admitted" => Admits(r)
  BY DEF Progress, Moves, Refuses, Fails, Begins, AdmissionType
<1>3. pc'[r] = "add" => Begins(r)
  BY DEF Progress, Moves, Refuses, Fails, Admits, Admitted, AdmissionType
<1>4. pc'[r] \in {"add", "admitted"} => Message[r].genuine
  BY DEF Progress, Moves, AdmissionType
<1>5. late \subseteq late' /\ \A q \in Requests : q # r => (q \in late' <=> q \in late)
  BY DEF Progress, Moves, Refuses, Fails, Admits, Admitted, Begins
<1>6. \A q \in Requests : q # r => pc'[q] = pc[q] /\ before'[q] = before[q] /\ ttl'[q] = ttl[q]
  BY <1>1 DEF Progress, AdmissionType
<1>7. pc[r] # "admitted"
  BY DEF Progress
<1> QED BY <1>1, <1>2, <1>3, <1>4, <1>5, <1>6, <1>7

LEMMA TypeStep ==
    ASSUME AdmissionType, Arrived, TtlCovers, [AdmissionNext]_admissionVars
    PROVE  AdmissionType'
<1>1. ASSUME NEW r \in Requests, Progress(r) PROVE AdmissionType'
  <2>1. pc' \in [Requests -> {"idle", "verify", "add"} \cup Settled]
    BY <1>1, ProgressFacts DEF AdmissionType
  <2>2. ttl' \in [Requests -> Nat] /\ before' \in [Requests -> SUBSET Requests]
    <3>1. Retention(Message[r]) \in Nat
      BY RetentionCovers
    <3>2. PICK t \in Nat : ttl' \in {ttl, [ttl EXCEPT ![r] = t]}
      BY <1>1, <3>1 DEF Progress
    <3>3. ttl' \in [Requests -> Nat]  BY <3>2 DEF AdmissionType
    <3>4. before' \in [Requests -> SUBSET Requests]
      BY <1>1 DEF Progress, AdmissionType
    <3> QED BY <3>3, <3>4
  <2>3. cache' \subseteq [key: Signers \X Nonces, expiry: Nat]
    BY <1>1, RecordType DEF Progress, Moves, Refuses, Fails, Admits, Begins, AdmissionType
  <2>4. late' \subseteq Requests
    BY <1>1 DEF Progress, Moves, Refuses, Fails, Admits, Admitted, Begins, AdmissionType
  <2> QED BY <1>1, <2>1, <2>2, <2>3, <2>4 DEF Progress, AdmissionType
<1>2. ASSUME NEW v \in setting.advertised, SetTimestampSkew(v), UNCHANGED setting PROVE AdmissionType'
  <2>1. v \in Int /\ MaxSkew \in Int /\ MinSkew \in Int
    BY DEF AdmissionType, SettingType
  <2>2. Min({MaxSkew, v}) \in Int
    BY <2>1, MinOfTwo
  <2>3. Max({MinSkew, Min({MaxSkew, v})}) \in Nat
    <3>1. \A x \in Int : Max({MinSkew, x}) \in {MinSkew, x} /\ Max({MinSkew, x}) >= MinSkew
      BY <2>1, MaxOfTwo, Zenon
    <3>2. \A x \in Int : Max({MinSkew, x}) \in Nat
      BY <2>1, <3>1
    <3> QED BY <2>2, <3>2, Zenon
  <2> QED BY <1>2, <2>3 DEF SetTimestampSkew, AdmissionType
<1>3. CASE Sweep /\ UNCHANGED setting
  BY <1>3 DEF Sweep, AdmissionType
<1>4. CASE Tick /\ UNCHANGED setting
  BY <1>4 DEF Tick, AdmissionType
<1>5. CASE UNCHANGED admissionVars
  BY <1>5 DEF admissionVars, AdmissionType
<1> QED BY <1>1, <1>2, <1>3, <1>4, <1>5, RequestStep DEF AdmissionNext

-----------------------------------------------------------------------------
(* Every step keeps the invariant.                                         *)

\* Time only advances, and no setting of the skew makes a window longer.
LEMMA WindowsShrink ==
    ASSUME AdmissionType, AdmissionType', Arrived, TtlCovers, [AdmissionNext]_admissionVars
    PROVE  /\ now <= now' /\ UNCHANGED setting
           /\ \A r \in Requests : Ends(Message[r])' <= Ends(Message[r])
           /\ \A r \in Requests : Closed(Message[r]) => Closed(Message[r])'
<1>1. now <= now' /\ UNCHANGED setting
  <2>1. ASSUME NEW r \in Requests, Progress(r) PROVE now <= now'
    BY <2>1 DEF Progress, AdmissionType
  <2>2. Tick => now <= now'
    BY DEF Tick, AdmissionType
  <2>3. now' = now => now <= now'
    BY DEF AdmissionType
  <2>4. (Sweep \/ \E v \in setting.advertised : SetTimestampSkew(v)) => now' = now
    BY DEF Sweep, SetTimestampSkew
  <2> QED BY <2>1, <2>2, <2>3, <2>4, RequestStep DEF AdmissionNext, admissionVars, AdmissionType
<1>2. \A k \in Kinds : k # "proof" => skew'[k] = skew[k]
  BY RequestStep DEF AdmissionNext, admissionVars, AdmissionType, Progress, SetTimestampSkew,
                     Sweep, Tick
<1>3. skew'["proof"] = skew["proof"] \/ skew'["proof"] <= MaxSkew
  <2>1. ASSUME NEW v \in setting.advertised, SetTimestampSkew(v) PROVE skew'["proof"] <= MaxSkew
    <3>1. v \in Int /\ MaxSkew \in Int /\ MinSkew \in Int /\ MinSkew <= MaxSkew
      BY DEF AdmissionType, SettingType
    <3>2. Min({MaxSkew, v}) \in Int /\ Min({MaxSkew, v}) <= MaxSkew
      BY <3>1, MinOfTwo
    <3>3. \A x \in Int : Max({MinSkew, x}) \in {MinSkew, x}
      BY <3>1, MaxOfTwo, Zenon
    <3>4. \A x \in Int : x <= MaxSkew => Max({MinSkew, x}) <= MaxSkew
      BY <3>1, <3>3
    <3>5. Max({MinSkew, Min({MaxSkew, v})}) <= MaxSkew
      BY <3>2, <3>4, Zenon
    <3> QED BY <2>1, <3>5 DEF SetTimestampSkew, AdmissionType, Kinds
  <2> QED BY <2>1, RequestStep DEF AdmissionNext, admissionVars, AdmissionType, Progress, Sweep, Tick
<1>4. ASSUME NEW r \in Requests
      PROVE  Ends(Message[r])' <= Ends(Message[r]) /\ (Closed(Message[r]) => Closed(Message[r])')
  <2> DEFINE m == Message[r]
  <2>1. /\ skew["proof"] \in Int /\ skew'["proof"] \in Int /\ MaxSkew \in Int
        /\ m.created \in Nat /\ m.expires \in Nat /\ m.kind \in Kinds
    BY DEF AdmissionType, Kinds
  <2>2. Max({skew'["proof"], MaxSkew}) <= Max({skew["proof"], MaxSkew})
    <3>1. \A x \in Int : /\ Max({x, MaxSkew}) \in {x, MaxSkew}
                         /\ Max({x, MaxSkew}) >= x /\ Max({x, MaxSkew}) >= MaxSkew
      BY <2>1, MaxOfTwo, Zenon
    <3>2. \A x \in Int, y \in Int : x = y \/ y <= MaxSkew => Max({y, MaxSkew}) <= Max({x, MaxSkew})
      BY <2>1, <3>1
    <3> QED BY <1>3, <2>1, <3>2, Zenon
  <2>3. Max({skew'["proof"], MaxSkew}) \in Int /\ Max({skew["proof"], MaxSkew}) \in Int
    <3>1. \A x \in Int : Max({x, MaxSkew}) \in Int
      BY <2>1, MaxOfTwo
    <3> QED BY <2>1, <3>1, Zenon
  <2>4. ValidUntil(m)' <= ValidUntil(m)
    <3>1. CASE m.kind = "proof"
      <4>1. ValidUntil(m)' = m.created + Max({skew'["proof"], MaxSkew})
        BY <3>1 DEF ValidUntil
      <4>2. ValidUntil(m) = m.created + Max({skew["proof"], MaxSkew})
        BY <3>1 DEF ValidUntil
      <4> QED BY <2>1, <2>2, <2>3, <4>1, <4>2
    <3>2. CASE m.kind # "proof"
      <4>1. skew'[m.kind] = skew[m.kind] /\ skew[m.kind] \in Nat
        BY <1>2, <2>1, <3>2 DEF AdmissionType
      <4> QED BY <2>1, <3>2, <4>1 DEF ValidUntil, Kinds
    <3> QED BY <3>1, <3>2
  <2>5. ValidUntil(m) \in Nat /\ ValidUntil(m)' \in Nat
    BY EndsTyped
  <2>6. Ends(m)' <= Ends(m) /\ Ends(m) \in Nat /\ Ends(m)' \in Nat
    <3>1. \A a \in Nat, b \in Nat : a <= b => (a + 1) * Tps <= (b + 1) * Tps
      OBVIOUS
    <3> QED BY <2>4, <2>5, <3>1, ProductFacts DEF Ends
  <2>7. (Closed(m) <=> now >= Ends(m)) /\ (Closed(m)' <=> now' >= Ends(m)')
    BY DEF Closed, Ends
  <2> QED BY <1>1, <2>6, <2>7 DEF AdmissionType
<1> QED BY <1>1, <1>4

LEMMA ArrivedStep ==
    ASSUME AdmissionType, Arrived, TtlCovers, [AdmissionNext]_admissionVars
    PROVE  Arrived'
<1>1. ASSUME NEW r \in Requests, Progress(r) PROVE Arrived'
  <2>1. UNCHANGED setting /\ (Atomic' <=> Atomic) /\ r \in setting.requests
    BY <1>1 DEF Progress, Atomic
  <2>2. ASSUME NEW q \in Requests, NEW p \in before'[q]
        PROVE  Message[p] = Message[q] /\ pc'[p] = "admitted"
    <3>1. p \in Requests /\ Message[p] = Message[q] /\ pc[p] = "admitted"
      BY <1>1, <2>2 DEF Progress, Arrived, AdmissionType
    <3> QED BY <1>1, <3>1, ProgressFacts
  <2>3. ASSUME NEW q \in Requests
        PROVE  /\ pc'[q] # "idle" => q \in setting.requests
               /\ pc'[q] \in {"add", "admitted"} => Message[q].genuine
               /\ pc'[q] = "add" => ~Atomic
    <3>1. CASE q = r
      BY <1>1, <2>1, <3>1, ProgressFacts DEF Begins
    <3>2. CASE q # r
      BY <1>1, <3>2, ProgressFacts DEF Arrived
    <3> QED BY <3>1, <3>2
  <2> QED BY <2>1, <2>2, <2>3 DEF Arrived
<1>2. UNCHANGED <<pc, before, setting>> => Arrived'
  BY DEF Arrived, Atomic
<1> QED BY <1>1, <1>2, RequestStep DEF AdmissionNext, admissionVars, SetTimestampSkew, Sweep, Tick

LEMMA TtlStep ==
    ASSUME AdmissionType, AdmissionType', Arrived, TtlCovers, [AdmissionNext]_admissionVars
    PROVE  TtlCovers'
<1>1. ASSUME NEW q \in Requests, pc'[q] = "add" PROVE now' + ttl'[q] * Tps >= Ends(Message[q])'
  <2>1. /\ now \in Nat /\ now' \in Nat /\ now <= now' /\ Ends(Message[q])' <= Ends(Message[q])
        /\ Ends(Message[q]) \in Nat /\ \A n \in Nat : n * Tps \in Nat
    BY WindowsShrink, EndsFacts, ProductFacts DEF AdmissionType
  <2>2. Ends(Message[q])' \in Nat
    BY EndsTyped
  <2>3. ttl'[q] \in Nat /\ now + ttl'[q] * Tps >= Ends(Message[q])
    <3>1. ASSUME NEW r \in Requests, Progress(r)
          PROVE  ttl'[q] \in Nat /\ now + ttl'[q] * Tps >= Ends(Message[q])
      <4>1. CASE q = r
        <5>1. ttl'[q] = Retention(Message[q])
          BY <1>1, <3>1, <4>1, ProgressFacts DEF Begins, AdmissionType
        <5> QED BY <5>1, RetentionCovers
      <4>2. CASE q # r
        BY <1>1, <3>1, <4>2, ProgressFacts DEF TtlCovers, AdmissionType
      <4> QED BY <4>1, <4>2
    <3>2. UNCHANGED <<pc, ttl>> => ttl'[q] \in Nat /\ now + ttl'[q] * Tps >= Ends(Message[q])
      BY <1>1 DEF TtlCovers, AdmissionType
    <3> QED BY <3>1, <3>2, RequestStep DEF AdmissionNext, admissionVars, SetTimestampSkew, Sweep, Tick
  <2>4. \A x \in Nat : now + x >= Ends(Message[q]) => now' + x >= Ends(Message[q])'
    BY <2>1, <2>2
  <2> QED BY <2>1, <2>3, <2>4
<1> QED BY <1>1 DEF TtlCovers

\* An expired record is one whose window has closed.
LEMMA ForgottenClosed ==
    ASSUME AdmissionType, NEW q \in Requests, Remembered(q), ~Recorded(NonceKey(q))
    PROVE  Closed(Message[q])
<1>1. PICK c \in cache : c.key = NonceKey(q) /\ c.expiry >= Ends(Message[q])
  BY DEF Remembered
<1>2. c.expiry \in Nat /\ c.expiry <= now /\ now \in Nat
  BY <1>1 DEF Recorded, AdmissionType
<1> QED BY <1>1, <1>2, EndsFacts DEF Closed, Ends

\* Writing a record of r keeps every admitted message remembered, and r itself.
LEMMA RecordKeeps ==
    ASSUME AdmissionType, Arrived, AdmittedKept, Careful, NEW r \in Requests, NEW n \in Nat,
           Covers(r, n), Message[r].genuine, r \in setting.requests,
           Atomic /\ Faults = {} => ~Recorded(NonceKey(r)),
           UNCHANGED <<now, skew>>, cache' = Record(NonceKey(r), n)
    PROVE  /\ Remembered(r)'
           /\ \A q \in Requests : pc[q] = "admitted" /\ q \notin late
                                    => Closed(Message[q]) \/ Remembered(q)'
<1> DEFINE new == [key |-> NonceKey(r), expiry |-> now + n * Tps]
<1>1. new \in cache' /\ new.key = NonceKey(r) /\ new.expiry = now + n * Tps
  BY DEF Record
<1>2. \A q \in Requests : Ends(Message[q])' = Ends(Message[q])
  BY DEF Ends, ValidUntil
<1>3. \A q \in Requests : NonceKey(q)' = NonceKey(q)
  BY DEF NonceKey
<1>4. new.expiry >= Ends(Message[r])
  BY <1>1 DEF Covers
<1>5. Remembered(r)'
  BY <1>1, <1>2, <1>3, <1>4 DEF Remembered
<1>6. ASSUME NEW q \in Requests, pc[q] = "admitted", q \notin late
      PROVE  Closed(Message[q]) \/ Remembered(q)'
  <2>1. CASE Closed(Message[q])
    BY <2>1
  <2>2. CASE Remembered(q) /\ NonceKey(q) # NonceKey(r)
    <3>1. PICK c \in cache : c.key = NonceKey(q) /\ c.expiry >= Ends(Message[q])
      BY <2>2 DEF Remembered
    <3>2. c \in cache'
      BY <2>2, <3>1 DEF Record
    <3> QED BY <1>2, <1>3, <3>1, <3>2 DEF Remembered
  <2>3. CASE Remembered(q) /\ NonceKey(q) = NonceKey(r)
    <3>1. CASE Atomic /\ Faults = {}
      BY <2>3, <3>1, ForgottenClosed
    <3>2. CASE ~(Atomic /\ Faults = {})
      <4>1. Message[q] = Message[r]
        BY <1>6, <2>3, <3>2 DEF Careful, Arrived
      <4> QED BY <1>1, <1>2, <1>3, <1>4, <2>3, <4>1 DEF Remembered
    <3> QED BY <3>1, <3>2
  <2> QED BY <1>6, <2>1, <2>2, <2>3 DEF AdmittedKept
<1> QED BY <1>5, <1>6

\* An admission, and what it finds, keeps admitted messages apart.
LEMMA KeptProgress ==
    ASSUME AdmissionType, AdmissionType', Arrived, TtlCovers, [AdmissionNext]_admissionVars,
           Careful, Kept, NEW r \in Requests, Progress(r)
    PROVE  Kept'
<1>1. \A q \in Requests : Closed(Message[q])' <=> Closed(Message[q])
  BY DEF Progress, Closed, ValidUntil
<1>2. /\ now' = now /\ skew' = skew /\ r \in setting.requests
      /\ (Atomic' <=> Atomic)
  BY DEF Progress, Atomic
<1>3. AdmittedKept'
  <2>1. CASE UNCHANGED cache
    <3>1. \A q \in Requests : Remembered(q) => Remembered(q)'
      BY <1>2, <2>1 DEF Remembered, Ends, ValidUntil, NonceKey
    <3>2. ~Admits(r) => AdmittedKept'
      BY <1>1, <3>1, ProgressFacts DEF Kept, AdmittedKept
    <3>3. CASE Admits(r)
      <4>1. PICK n \in Nat : Covers(r, n) /\ cache' = Record(NonceKey(r), n)
        BY <3>3 DEF Admits
      <4>2. Message[r].genuine
        BY <3>3, ProgressFacts DEF Admits, Admitted, AdmissionType
      <4>3. Remembered(r)' /\ \A q \in Requests : pc[q] = "admitted" /\ q \notin late
                                 => Closed(Message[q]) \/ Remembered(q)'
        BY <1>2, <3>3, <4>1, <4>2, RecordKeeps DEF Kept, Admits
      <4> QED BY <1>1, <4>3, ProgressFacts DEF AdmittedKept
    <3> QED BY <3>2, <3>3
  <2>2. ASSUME NEW n \in Nat, Covers(r, n), cache' = Record(NonceKey(r), n), Message[r].genuine,
               Fails(r) \/ Admits(r)
        PROVE  AdmittedKept'
    <3>1. Atomic /\ Faults = {} => ~Recorded(NonceKey(r))
      BY <2>2 DEF Fails, Admits
    <3>2. Remembered(r)' /\ \A q \in Requests : pc[q] = "admitted" /\ q \notin late
                               => Closed(Message[q]) \/ Remembered(q)'
      BY <1>2, <2>2, <3>1, RecordKeeps DEF Kept
    <3> QED BY <1>1, <3>2, ProgressFacts DEF AdmittedKept
  <2> QED BY <2>1, <2>2 DEF Progress, Moves, Refuses, Fails, Admits, Begins
<1>4. AddedLate'
  <2>1. ASSUME NEW q \in Requests, pc'[q] = "add", NEW p \in before'[q]
        PROVE  p \in late' \/ Closed(Message[q])'
    <3>1. CASE q # r
      BY <1>1, <2>1, <3>1, ProgressFacts DEF Kept, AddedLate
    <3>2. CASE q = r
      <4>1. ~Recorded(NonceKey(r)) /\ UNCHANGED late
        BY <2>1, <3>2, ProgressFacts DEF Begins
      <4>2. p \in Requests /\ Message[p] = Message[r] /\ pc[p] = "admitted"
        BY <2>1, <3>2 DEF Progress, AdmissionType
      <4>3. NonceKey(p) = NonceKey(r)
        BY <4>2 DEF NonceKey
      <4>4. p \in late \/ Closed(Message[p])
        BY <4>1, <4>2, <4>3, ForgottenClosed DEF Kept, AdmittedKept
      <4> QED BY <1>1, <3>2, <4>1, <4>2, <4>4
    <3> QED BY <3>1, <3>2
  <2> QED BY <2>1 DEF AddedLate
<1>5. AdmittedOnce'
  <2>1. ASSUME NEW a \in Requests, NEW b \in Requests, SamePair(a, b)', Atomic' \/ b \in before'[a]
        PROVE  late' \cap {a, b} # {}
    <3>1. /\ a # b /\ Message[a] = Message[b] /\ pc'[a] = "admitted" /\ pc'[b] = "admitted"
      BY <2>1 DEF SamePair
    <3>2. CASE a # r /\ b # r
      <4>1. SamePair(a, b) /\ (Atomic \/ b \in before[a])
        BY <1>2, <2>1, <3>1, <3>2, ProgressFacts DEF SamePair
      <4> QED BY <3>2, <4>1, ProgressFacts DEF Kept, AdmittedOnce
    <3>3. ASSUME NEW q \in Requests, q # r, Message[q] = Message[r], pc[q] = "admitted",
                 Admits(r), Atomic \/ q \in before'[r]
          PROVE  q \in late \/ Closed(Message[r])
      <4>1. NonceKey(q) = NonceKey(r)
        BY <3>3 DEF NonceKey
      <4>2. CASE Atomic
        <5>1. ~Recorded(NonceKey(q))
          BY <3>3, <4>1, <4>2 DEF Admits
        <5> QED BY <3>3, <5>1, ForgottenClosed DEF Kept, AdmittedKept
      <4>3. CASE ~Atomic
        <5>1. pc[r] = "add" /\ q \in before[r]
          BY <3>3, <4>3 DEF Admits, Progress, AdmissionType
        <5> QED BY <5>1 DEF Kept, AddedLate
      <4> QED BY <4>2, <4>3
    <3>4. Closed(Message[r]) /\ Admits(r) => r \in late'
      BY DEF Admits, Admitted
    <3>5. CASE a = r
      <4>1. Admits(r) /\ pc[b] = "admitted"
        BY <3>1, <3>5, ProgressFacts
      <4> QED BY <1>2, <2>1, <3>1, <3>3, <3>4, <3>5, <4>1, ProgressFacts
    <3>6. CASE b = r
      <4>1. Admits(r) /\ pc[a] = "admitted" /\ a # r
        BY <3>1, <3>6, ProgressFacts
      <4>2. pc[r] # "admitted" /\ before'[a] = before[a]
        BY <4>1, ProgressFacts
      <4>3. Atomic
        BY <1>2, <2>1, <3>6, <4>2 DEF Arrived
      <4> QED BY <3>1, <3>3, <3>4, <3>6, <4>1, <4>3, ProgressFacts
    <3> QED BY <3>2, <3>5, <3>6
  <2> QED BY <2>1 DEF AdmittedOnce
<1> QED BY <1>3, <1>4, <1>5 DEF Kept

\* Other steps only let time pass, forget expired records or change the skew.
LEMMA KeptRest ==
    ASSUME AdmissionType, AdmissionType', Arrived, TtlCovers, [AdmissionNext]_admissionVars,
           Kept, UNCHANGED <<pc, before, late>>,
           \A c \in cache : c \in cache' \/ c.expiry <= now
    PROVE  Kept'
<1>1. /\ now <= now' /\ UNCHANGED setting
      /\ \A r \in Requests : Ends(Message[r])' <= Ends(Message[r])
      /\ \A r \in Requests : Closed(Message[r]) => Closed(Message[r])'
  BY WindowsShrink
<1>2. ASSUME NEW q \in Requests, Remembered(q) PROVE Closed(Message[q])' \/ Remembered(q)'
  <2>1. PICK c \in cache : c.key = NonceKey(q) /\ c.expiry >= Ends(Message[q])
    BY <1>2 DEF Remembered
  <2>2. /\ c.expiry \in Nat /\ now \in Nat /\ NonceKey(q)' = NonceKey(q)
        /\ Ends(Message[q]) \in Nat /\ Ends(Message[q])' \in Nat
    BY EndsTyped DEF AdmissionType, NonceKey
  <2>3. CASE c \in cache'
    <3>1. c.expiry >= Ends(Message[q])'
      BY <1>1, <2>1, <2>2
    <3> QED BY <2>1, <2>2, <2>3, <3>1 DEF Remembered
  <2>4. CASE c.expiry <= now
    <3>1. Closed(Message[q])
      BY <2>1, <2>2, <2>4 DEF Closed, Ends
    <3> QED BY <1>1, <3>1
  <2> QED BY <2>3, <2>4
<1>3. AdmittedKept' /\ AddedLate'
  BY <1>1, <1>2 DEF Kept, AdmittedKept, AddedLate, AdmissionType
<1>4. AdmittedOnce'
  BY <1>1 DEF Kept, AdmittedOnce, SamePair, Atomic
<1> QED BY <1>3, <1>4 DEF Kept

LEMMA KeptStep ==
    ASSUME AdmissionType, AdmissionType', Arrived, TtlCovers, [AdmissionNext]_admissionVars,
           Careful => Kept
    PROVE  (Careful => Kept)'
<1>1. Careful' <=> Careful
  BY WindowsShrink DEF Careful, Atomic, Faults
<1>2. ASSUME Careful, NEW r \in Requests, Progress(r) PROVE Kept'
  BY <1>2, KeptProgress
<1>3. ASSUME Careful, NEW v \in setting.advertised, SetTimestampSkew(v) PROVE Kept'
  BY <1>3, KeptRest DEF SetTimestampSkew
<1>4. ASSUME Careful, Sweep PROVE Kept'
  <2>1. \A c \in cache : c.expiry \in Nat /\ now \in Nat
    BY DEF AdmissionType
  <2>2. \A c \in cache : c \in cache' \/ c.expiry <= now
    BY <1>4, <2>1 DEF Sweep
  <2> QED BY <1>4, <2>2, KeptRest DEF Sweep
<1>5. ASSUME Careful, Tick PROVE Kept'
  BY <1>5, KeptRest DEF Tick
<1>6. ASSUME Careful, UNCHANGED admissionVars PROVE Kept'
  BY <1>6, KeptRest DEF admissionVars
<1> QED BY <1>1, <1>2, <1>3, <1>4, <1>5, <1>6, RequestStep DEF AdmissionNext

\* A cache that does not fail holds admitted messages only.
LEMMA EarnedStep ==
    ASSUME AdmissionType, AdmissionType', Arrived, TtlCovers, [AdmissionNext]_admissionVars, Earned
    PROVE  Earned'
<1>1. UNCHANGED setting /\ Faults' = Faults
  BY WindowsShrink DEF Faults
<1> SUFFICES ASSUME Faults = {} PROVE Earned'
  BY <1>1 DEF Earned, CacheEarned, ReplayedOnlyIfSpent
<1> DEFINE Spent(k) == \E q \in Requests : NonceKey(q) = k /\ Message[q].genuine /\ pc[q] = "admitted"
           SpentNext(k) == \E q \in Requests : NonceKey(q) = k /\ Message[q].genuine /\ pc'[q] = "admitted"
<1>2. \A c \in cache : Spent(c.key)
  BY DEF Earned, CacheEarned
<1>3. (\A c \in cache' : SpentNext(c.key)) => CacheEarned'
  BY DEF CacheEarned, NonceKey
<1>4. ASSUME NEW r \in Requests, Progress(r) PROVE Earned'
  <2>1. \A k : Spent(k) => SpentNext(k)
    BY <1>4, ProgressFacts
  <2>2. \A c \in cache' : SpentNext(c.key)
    <3>1. CASE UNCHANGED cache
      BY <1>2, <2>1, <3>1
    <3>2. ASSUME NEW n \in Nat, cache' = Record(NonceKey(r), n), Admits(r) PROVE \A c \in cache' : SpentNext(c.key)
      <4>1. pc'[r] = "admitted" /\ Message[r].genuine
        BY <3>2, <1>4, ProgressFacts DEF Admits, Admitted, AdmissionType
      <4>2. SpentNext(NonceKey(r))
        BY <4>1
      <4>3. ASSUME NEW c \in cache' PROVE SpentNext(c.key)
        <5>1. c \in cache \/ c.key = NonceKey(r)
          BY <3>2, <4>3 DEF Record
        <5>2. c \in cache => SpentNext(c.key)
          BY <1>2, <2>1
        <5>3. c.key = NonceKey(r) => SpentNext(c.key)
          BY <4>1
        <5> QED BY <5>1, <5>2, <5>3
      <4> QED BY <4>3
    <3>3. ~Fails(r)
      BY DEF Fails
    <3> QED BY <1>4, <3>1, <3>2, <3>3 DEF Progress, Moves, Refuses, Admits, Begins
  <2>3. ASSUME NEW q \in Requests, pc'[q] = "replayed", Message[q].genuine
        PROVE  \E p \in Requests : NonceKey(p) = NonceKey(q) /\ Message[p].genuine
                                     /\ pc'[p] \in {"admitted", "add"}
    <3>1. CASE q = r
      <4>1. Recorded(NonceKey(r))
        BY <1>4, <2>3, <3>1 DEF Progress, Moves, Refuses, Fails, Admits, Admitted, Begins, AdmissionType
      <4>2. SpentNext(NonceKey(r))
        <5>1. PICK c \in cache : c.key = NonceKey(r)
          BY <4>1 DEF Recorded
        <5>2. SpentNext(c.key)
          BY <1>2, <2>1
        <5> QED BY <5>1, <5>2
      <4> QED BY <3>1, <4>2
    <3>2. CASE q # r
      <4>1. pc[q] = "replayed"
        BY <1>4, <2>3, <3>2, ProgressFacts
      <4>2. PICK p \in Requests : NonceKey(p) = NonceKey(q) /\ Message[p].genuine
                                    /\ pc[p] \in {"admitted", "add"}
        BY <2>3, <4>1 DEF Earned, ReplayedOnlyIfSpent
      <4>3. CASE p # r
        BY <1>4, <4>2, <4>3, ProgressFacts
      <4>4. CASE p = r
        <5>1. pc[r] = "add"
          BY <1>4, <4>2, <4>4 DEF Progress
        <5>2. Admits(r)
          BY <1>4, <5>1 DEF Progress, Fails
        <5>3. pc'[p] = "admitted"
          BY <4>4, <5>2 DEF Admits, Admitted, AdmissionType
        <5> QED BY <4>2, <5>3
      <4> QED BY <4>3, <4>4
    <3> QED BY <3>1, <3>2
  <2> QED BY <1>1, <1>3, <2>2, <2>3 DEF Earned, ReplayedOnlyIfSpent, NonceKey
<1>5. ASSUME UNCHANGED pc, cache' \subseteq cache PROVE Earned'
  BY <1>1, <1>2, <1>3, <1>5 DEF Earned, ReplayedOnlyIfSpent, NonceKey
<1> QED BY <1>4, <1>5, RequestStep DEF AdmissionNext, admissionVars, SetTimestampSkew, Sweep, Tick

-----------------------------------------------------------------------------
(* The theorems.                                                           *)

LEMMA AdmissionInvInit == AdmissionInit => AdmissionInv
<1> SUFFICES ASSUME AdmissionInit PROVE AdmissionInv
  OBVIOUS
<1>1. AdmissionType
  BY DEF AdmissionInit, AdmissionType
<1>2. \A r \in Requests : pc[r] = "idle" /\ before[r] = {}
  BY DEF AdmissionInit
<1>3. Arrived /\ TtlCovers
  BY <1>2 DEF Arrived, TtlCovers
<1>4. Earned
  BY <1>2 DEF AdmissionInit, Earned, CacheEarned, ReplayedOnlyIfSpent
<1>5. Kept
  BY <1>2 DEF Kept, AdmittedKept, AddedLate, AdmittedOnce, SamePair
<1> QED BY <1>1, <1>3, <1>4, <1>5 DEF AdmissionInv

LEMMA AdmissionInvStep == AdmissionInv /\ [AdmissionNext]_admissionVars => AdmissionInv'
<1> SUFFICES ASSUME AdmissionInv, [AdmissionNext]_admissionVars PROVE AdmissionInv'
  OBVIOUS
<1> USE DEF AdmissionInv
<1>1. AdmissionType'
  BY TypeStep
<1>2. Arrived' /\ TtlCovers' /\ Earned' /\ (Careful => Kept)'
  BY <1>1, ArrivedStep, TtlStep, EarnedStep, KeptStep
<1> QED BY <1>1, <1>2

\* A genuine message is never refused as a replay because of a forged one, or of one
\* whose verification failed: only an admitted genuine message spends a nonce.
THEOREM ForgeriesSpendNothing == AdmissionSpec => []ReplayedOnlyIfSpent
<1>1. AdmissionInv => ReplayedOnlyIfSpent
  BY DEF AdmissionInv, Earned
<1> QED BY <1>1, AdmissionInvInit, AdmissionInvStep, PTL DEF AdmissionSpec

\* One message is admitted once, whatever the windows, the clock resolution, the delays
\* and the skew set meanwhile.  On a cache with consume() that does not fail this needs
\* nothing of the signers; has() then add(), or a call that throws after it wrote, may
\* replace a record, so there it needs that no signer uses a nonce for two messages.
THEOREM AdmissionIsGuarded == AdmissionSpec => [](Careful => ReplayGuarded)
<1>1. AdmissionInv => (Careful => ReplayGuarded)
  BY DEF AdmissionInv, Earned, Kept, ReplayGuarded
<1> QED BY <1>1, AdmissionInvInit, AdmissionInvStep, PTL DEF AdmissionSpec

-----------------------------------------------------------------------------
(* Verifying an entity card.                                               *)

JobFields ==
    {"stage", "input", "url", "expected", "card", "proof", "key", "clean", "level", "proofOk",
     "verified", "unverified", "fresh", "accountable", "attested", "hops", "started", "seen", "result"}

IsJob(r) == DOMAIN r = JobFields /\ DOMAIN r.result = {"ok", "level", "did", "gate"}

CardTyped ==
    /\ cset \in CardSettings /\ ctime \in Nat
    /\ DOMAIN site = {"services", "aka", "pages"} /\ DOMAIN statusList = {"bits", "from", "until", "kept"}
    /\ statusList.until \in Nat /\ \A v \in statusList.kept : v.until \in Nat
    /\ cset.host = "current" => statusList.kept = {}
    /\ DOMAIN job = Jobs /\ \A j \in Jobs : IsJob(job[j])

LateStages ==
    {"capabilities", "proof", "key", "membership", "claims", "nonce", "accountability", "hops",
     "attestations", "revocation", "done"}

EarlyStages == {"idle", "didDoc", "fetch", "bind", "failed"}

LEMMA IdleIsJob == IsJob(NoJob)
BY DEF IsJob, JobFields, NoJob, NoResult

\* The steps of a call once it has its card.
LateStep(j) ==
    \/ CheckCapabilities(j) \/ BeginProof(j) \/ ResolveKey(j) \/ AssertDidMembership(j) \/ CheckClaims(j)
    \/ ConsumeNonce(j) \/ CheckAccountability(j) \/ CheckHop(j) \/ CheckAttestations(j)
    \/ CheckCardRevocation(j)

\* They keep the card and where it came from.
LEMMA LateStepKeeps ==
    ASSUME CardTyped, NEW j \in Jobs, LateStep(j)
    PROVE  \E q : /\ job' = [job EXCEPT ![j] = q] /\ IsJob(q)
                  /\ job[j].stage \in LateStages /\ q.stage \in LateStages
                  /\ q.card = job[j].card /\ q.url = job[j].url /\ q.expected = job[j].expected
                  /\ q.input = job[j].input /\ q.started = job[j].started
                  /\ UNCHANGED <<cset, ctime, site, statusList, ckeys>>
<1> DEFINE r == job[j]
           Stays(q) == /\ IsJob(q) /\ r.stage \in LateStages /\ q.stage \in LateStages
                      /\ q.card = r.card /\ q.url = r.url /\ q.expected = r.expected
                      /\ q.input = r.input /\ q.started = r.started
<1>0. IsJob(r)  BY DEF CardTyped
<1> SUFFICES \E q : job' = [job EXCEPT ![j] = q] /\ Stays(q) /\ UNCHANGED World
  BY DEF World
<1>1. CASE CheckCapabilities(j)
  BY <1>0, <1>1 DEF CheckCapabilities, IsJob, JobFields, LateStages
<1>2. CASE BeginProof(j)
  BY <1>0, <1>2 DEF BeginProof, IsJob, JobFields, LateStages
<1>3. CASE ResolveKey(j)
  BY <1>0, <1>3 DEF ResolveKey, IsJob, JobFields, LateStages
<1>4. CASE AssertDidMembership(j)
  BY <1>0, <1>4 DEF AssertDidMembership, IsJob, JobFields, LateStages
<1>5. CASE CheckClaims(j)
  BY <1>0, <1>5 DEF CheckClaims, IsJob, JobFields, LateStages
<1>6. CASE ConsumeNonce(j)
  BY <1>0, <1>6 DEF ConsumeNonce, IsJob, JobFields, LateStages
<1>7. CASE CheckAccountability(j)
  BY <1>0, <1>7 DEF CheckAccountability, IsJob, JobFields, LateStages
<1>8. CASE CheckHop(j)
  BY <1>0, <1>8 DEF CheckHop, IsJob, JobFields, LateStages
<1>9. CASE CheckAttestations(j)
  BY <1>0, <1>9 DEF CheckAttestations, IsJob, JobFields, LateStages
<1>10. CASE CheckCardRevocation(j)
  BY <1>0, <1>10 DEF CheckCardRevocation, Verdict, IsJob, JobFields, LateStages
<1> QED  BY <1>1, <1>2, <1>3, <1>4, <1>5, <1>6, <1>7, <1>8, <1>9, <1>10 DEF LateStep

\* What a call knows when it has set out.
SetOut(q, input) ==
    /\ IsJob(q) /\ q.input = input.form /\ q.started = Started
    /\ \A f \in JobFields \ {"stage", "input", "url", "expected", "card", "started"} : q[f] = NoJob[f]
    /\ \/ q.stage = "failed"
       \/ q.stage = "didDoc" /\ q.card = EmptyCard
       \/ q.stage = "fetch" /\ q.card = EmptyCard
          /\ (q.expected # Absent => \E c \in Summaries(input) : q.expected = Some(c.id) /\ q.url = didWebToCardUrl(c.id))
       \/ q.stage = "capabilities" /\ q.expected = Absent /\ q.card \in Summaries(input)
       \/ q.stage = "bind" /\ q.input = "cimd" /\ q.expected = Absent /\ q.card.revocation = Absent
          /\ q.card.cimd # Absent /\ \A c \in q.card.cimd : c.clientId = q.url
       \/ q.stage = "proof" /\ q.input = "request" /\ q.expected = Absent /\ q.card = EmptyCard

LEMMA OnlyIn == \A S : S # {} => Only(S) \in S
BY DEF Only

LEMMA OnlySome == \A x : Only(Some(x)) = x
BY DEF Only, Some

LEMMA ResolveSetsOut ==
    ASSUME CardTyped, NEW j \in Jobs, NEW input \in cset.inputs, ResolveCard(j, input)
    PROVE  \E q : SetOut(q, input) /\ job' = [job EXCEPT ![j] = q]
<1> DEFINE r == [NoJob EXCEPT !.input = input.form, !.started = Started]
<1> USE DEF Absent
<1>0. /\ IsJob(r) /\ r.input = input.form /\ r.started = Started /\ r.card = EmptyCard /\ r.expected = {}
      /\ \A f \in JobFields \ {"stage", "input", "url", "expected", "card", "started"} : r[f] = NoJob[f]
  BY IdleIsJob DEF IsJob, JobFields, NoJob, NoResult
<1> HIDE DEF r
<1>1. SetOut(Failed(r), input)
  BY <1>0 DEF SetOut, Failed, IsJob, JobFields
<1>2. ASSUME NEW url PROVE SetOut(FetchFrom(r, url, Absent), input)
  <2>1. SetOut([r EXCEPT !.stage = "fetch", !.url = url, !.expected = {}], input)
    BY <1>0 DEF SetOut, IsJob, JobFields
  <2> QED  BY <1>1, <2>1 DEF FetchFrom
<1>3. ASSUME NEW did PROVE SetOut(ByDid(r, did), input)
  <2>1. SetOut([r EXCEPT !.stage = "didDoc", !.url = didWebToDidDocUrl(did), !.expected = Some(did)], input)
    BY <1>0 DEF SetOut, IsJob, JobFields
  <2> QED  BY <1>1, <2>1 DEF ByDid
<1>4. ASSUME NEW c \in Summaries(input) PROVE SetOut(resolveInlineSummary(r, c), input)
  <2>1. SetOut([r EXCEPT !.stage = "fetch", !.url = didWebToCardUrl(c.id), !.expected = Some(c.id)], input)
    BY <1>0 DEF SetOut, IsJob, JobFields
  <2>2. SetOut([r EXCEPT !.stage = "capabilities", !.card = c], input)
    BY <1>0 DEF SetOut, IsJob, JobFields
  <2> QED  BY <1>1, <2>1, <2>2 DEF resolveInlineSummary, FetchFrom, Got
<1>5. input.form = "serverMeta" => SetOut(resolveFromServerMeta(r, input.ref), input)
  <2> SUFFICES ASSUME input.form = "serverMeta", input.ref.summary # {}
               PROVE  SetOut(resolveInlineSummary(r, Only(input.ref.summary)), input)
    BY <1>1, <1>2 DEF resolveFromServerMeta
  <2>1. Only(input.ref.summary) \in Summaries(input)  BY OnlyIn DEF Summaries
  <2> QED  BY <1>4, <2>1
<1>6. input.form = "cimd" => SetOut(ByClientMetadata(r, input.ref), input)
  <2> DEFINE c == cardFromClientMetadata(input.ref)
  <2>1. c.cimd = {[clientId |-> input.ref.client_id, jwksUri |-> u] : u \in input.ref.jwks_uri} /\ c.revocation = {}
    BY DEF cardFromClientMetadata, EmptyCard
  <2>2. \A x \in c.cimd : x.clientId = input.ref.client_id  BY <2>1
  <2> HIDE DEF c
  <2>3. input.form = "cimd" /\ c.cimd # {} => SetOut([r EXCEPT !.stage = "bind", !.card = c, !.url = input.ref.client_id], input)
    BY <1>0, <2>1, <2>2 DEF SetOut, IsJob, JobFields
  <2> QED  BY <1>1, <2>3 DEF ByClientMetadata, c
<1>7. input.form = "request" => SetOut([r EXCEPT !.stage = "proof"], input)
  BY <1>0 DEF SetOut, IsJob, JobFields
<1>8. input.form \in InputForms  BY CardAssumption DEF CardTyped, SettingSound
<1>9. job' = [job EXCEPT ![j] =
          CASE input.form \in {"did", "agentFacts"} -> ByDid(r, input.ref.id)
            [] input.form = "cardUrl" -> FetchFrom(r, input.ref.url, Absent)
            [] input.form = "a2a" -> IF input.ref = Absent THEN Failed(r) ELSE FetchFrom(r, Only(input.ref).cardUrl, Absent)
            [] input.form = "serverMeta" -> resolveFromServerMeta(r, input.ref)
            [] input.form = "cimd" -> ByClientMetadata(r, input.ref)
            [] input.form = "request" -> [r EXCEPT !.stage = "proof"]]
  BY DEF ResolveCard, r
<1>10. CASE input.form \in {"did", "agentFacts"}
  BY <1>3, <1>9, <1>10
<1>11. CASE input.form = "cardUrl"
  BY <1>2, <1>9, <1>11
<1>12. CASE input.form = "a2a"
  BY <1>1, <1>2, <1>9, <1>12
<1>13. CASE input.form = "serverMeta"
  BY <1>5, <1>9, <1>13
<1>14. CASE input.form = "cimd"
  BY <1>6, <1>9, <1>14
<1>15. CASE input.form = "request"
  BY <1>7, <1>9, <1>15
<1> QED  BY <1>8, <1>10, <1>11, <1>12, <1>13, <1>14, <1>15 DEF InputForms

\* The steps of a call, by what they do to it.
LEMMA JobStepCases ==
    ASSUME NEW j \in Jobs, JobStep(j)
    PROVE  \/ \E input \in cset.inputs : ResolveCard(j, input)
           \/ FetchDidDoc(j)
           \/ FetchCard(j)
           \/ BindClient(j)
           \/ LateStep(j)
BY DEF JobStep, LateStep

\* The steps of the holder, of its issuer and of the clock.
HolderStep ==
    \/ \E url \in cset.urls : MoveCard(url)
    \/ \E c \in cset.revised : ReviseCard(c)
    \/ \E kid \in DOMAIN ckeys : RotateKey(kid)
    \/ \E index \in cset.revocable : Revoke(index)
    \/ ReissueList
    \/ CardTick

LEMMA HolderStepKeeps ==
    ASSUME CardTyped, HolderStep
    PROVE  /\ UNCHANGED <<cset, nonces, job>> /\ ctime' \in Nat /\ ctime' >= ctime
           /\ DOMAIN site' = DOMAIN site /\ DOMAIN statusList' = DOMAIN statusList
           /\ statusList'.until \in Nat /\ \A v \in statusList'.kept : v.until \in Nat
           /\ cset.host = "current" => statusList'.kept = {}
           /\ statusList.bits \subseteq statusList'.bits /\ Gone \subseteq Gone'
<1> USE DEF CardTyped
<1> DEFINE latest == [bits |-> statusList.bits, from |-> statusList.from, until |-> statusList.until]
<1>a. UNCHANGED <<ctime, statusList>> => Gone' = Gone  BY DEF Gone
<1>b. /\ \A v \in Superseded : v.until \in Nat /\ (v \in statusList.kept \/ v = latest)
      /\ cset.host = "current" => Superseded = {}
  BY DEF Superseded
<1>c. ASSUME statusList'.kept = Superseded, statusList.bits \subseteq statusList'.bits, UNCHANGED ctime
      PROVE  Gone \subseteq Gone'
  BY <1>b, <1>c DEF Gone
<1>1. ASSUME NEW url, MoveCard(url) PROVE UNCHANGED <<cset, nonces, job, ctime, statusList>> /\ DOMAIN site' = DOMAIN site
  BY <1>1 DEF MoveCard, Unmoved
<1>2. ASSUME NEW c, ReviseCard(c) PROVE UNCHANGED <<cset, nonces, job, ctime, statusList>> /\ DOMAIN site' = DOMAIN site
  BY <1>2 DEF ReviseCard, Unmoved
<1>3. ASSUME NEW kid, RotateKey(kid) PROVE UNCHANGED <<cset, nonces, job, ctime, statusList, site>>
  BY <1>3 DEF RotateKey, Unmoved
<1>4. ASSUME NEW index, Revoke(index)
      PROVE  /\ UNCHANGED <<cset, nonces, job, ctime, site>> /\ DOMAIN statusList' = DOMAIN statusList
             /\ statusList.bits \subseteq statusList'.bits /\ statusList'.kept = Superseded
             /\ statusList'.until = statusList.until
  BY <1>4 DEF Revoke, Unmoved
<1>5. ASSUME ReissueList
      PROVE  /\ UNCHANGED <<cset, nonces, job, ctime, site>> /\ DOMAIN statusList' = DOMAIN statusList
             /\ statusList.bits = statusList'.bits /\ statusList'.kept = Superseded
             /\ statusList'.until = ctime + ListTtl
  BY <1>5 DEF ReissueList, Unmoved
<1>6. ASSUME CardTick
      PROVE  /\ UNCHANGED <<cset, nonces, job, site, statusList>> /\ ctime' = ctime + 1 /\ Gone \subseteq Gone'
  BY <1>6 DEF CardTick, Gone
<1>7. ctime + ListTtl \in Nat  BY CardAssumption
<1> HIDE DEF latest
<1> QED  BY <1>a, <1>b, <1>c, <1>1, <1>2, <1>3, <1>4, <1>5, <1>6, <1>7 DEF HolderStep

\* What the first steps of a call make of it.
LEMMA FetchKeeps ==
    ASSUME CardTyped, NEW j \in Jobs, FetchDidDoc(j) \/ FetchCard(j) \/ BindClient(j)
    PROVE  \E q : /\ job' = [job EXCEPT ![j] = q] /\ IsJob(q)
                  /\ \A f \in JobFields \ {"stage", "url", "expected", "card"} : q[f] = job[j][f]
                  /\ q.stage \in {"failed", "fetch", "capabilities"} /\ job[j].stage \in {"didDoc", "fetch", "bind"}
                  /\ UNCHANGED <<cset, ctime, site, statusList, ckeys, nonces>>
<1> DEFINE r == job[j]
<1>0. IsJob(r)  BY DEF CardTyped
<1> DEFINE Good(q) == /\ IsJob(q) /\ q.stage \in {"failed", "fetch", "capabilities"}
                      /\ \A f \in JobFields \ {"stage", "url", "expected", "card"} : q[f] = r[f]
<1>a. Good(Failed(r))
  BY <1>0 DEF Failed, IsJob, JobFields
<1>b. \A url, e : Good([r EXCEPT !.stage = "fetch", !.url = url, !.expected = e])
  BY <1>0 DEF IsJob, JobFields
<1>c. \A c : Good(Got(r, c))
  BY <1>0 DEF Got, IsJob, JobFields
<1>d. ASSUME NEW c, NEW e PROVE Good([Got(r, c) EXCEPT !.expected = e])
  <2> DEFINE g == Got(r, c)
  <2>1. Good(g)  BY <1>c
  <2> HIDE DEF g
  <2>2. Good([g EXCEPT !.expected = e])  BY <2>1 DEF IsJob, JobFields
  <2> QED  BY <2>2 DEF g
<1> HIDE DEF Good
<1> SUFFICES /\ \E q : job' = [job EXCEPT ![j] = q] /\ Good(q)
             /\ r.stage \in {"didDoc", "fetch", "bind"} /\ UNCHANGED World /\ UNCHANGED nonces
  BY DEF Good, World
<1>1. CASE FetchDidDoc(j)
  <2>1. \A url, e : Good(FetchFrom(r, url, e))  BY <1>a, <1>b DEF FetchFrom
  <2> QED  BY <1>a, <1>1, <2>1 DEF FetchDidDoc
<1>2. CASE FetchCard(j)
  BY <1>a, <1>c, <1>2 DEF FetchCard
<1>3. CASE BindClient(j)
  BY <1>a, <1>d, <1>3 DEF BindClient
<1> QED  BY <1>1, <1>2, <1>3

LEMMA CardTypedHolds == CardSpec => []CardTyped
<1>1. CardInit => CardTyped
  <2> SUFFICES ASSUME CardInit PROVE CardTyped
    OBVIOUS
  <2>1. DOMAIN job = Jobs /\ \A j \in Jobs : IsJob(job[j])  BY IdleIsJob DEF CardInit
  <2>2. DOMAIN statusList = {"bits", "from", "until", "kept"} /\ statusList.until = ListTtl /\ statusList.kept = {}
    BY DEF CardInit
  <2>3. /\ cset \in CardSettings /\ ctime = 1 /\ DOMAIN site = {"services", "aka", "pages"}
    BY DEF CardInit
  <2> QED  BY <2>1, <2>2, <2>3, CardAssumption DEF CardTyped
<1>2. CardTyped /\ [CardNext]_cardVars => CardTyped'
  <2> SUFFICES ASSUME CardTyped, [CardNext]_cardVars PROVE CardTyped'
    OBVIOUS
  <2>1. ASSUME NEW j \in Jobs, NEW q, job' = [job EXCEPT ![j] = q], IsJob(q),
               UNCHANGED <<cset, ctime, site, statusList, ckeys>>
        PROVE  CardTyped'
    BY <2>1 DEF CardTyped, IsJob
  <2>2. ASSUME NEW j \in Jobs, NEW input \in cset.inputs, ResolveCard(j, input) PROVE CardTyped'
    <3>1. UNCHANGED <<cset, ctime, site, statusList, ckeys>>  BY <2>2 DEF ResolveCard
    <3> QED  BY <2>1, <2>2, <3>1, ResolveSetsOut DEF SetOut
  <2>3. ASSUME NEW j \in Jobs, FetchDidDoc(j) \/ FetchCard(j) \/ BindClient(j) PROVE CardTyped'
    BY <2>1, <2>3, FetchKeeps
  <2>4. ASSUME NEW j \in Jobs, LateStep(j) PROVE CardTyped'
    BY <2>1, <2>4, LateStepKeeps
  <2>5. ASSUME HolderStep PROVE CardTyped'
    BY <2>5, HolderStepKeeps DEF CardTyped, IsJob
  <2>6. CASE UNCHANGED cardVars
    BY <2>6 DEF cardVars, CardTyped, IsJob
  <2> QED  BY <2>2, <2>3, <2>4, <2>5, <2>6, JobStepCases DEF CardNext, HolderStep
<1> QED  BY <1>1, <1>2, PTL DEF CardSpec

-----------------------------------------------------------------------------
(* Where a card came from.                                                 *)

\* No one else's page has this URL.
OwnPage(url) == url = didWebToCardUrl(Holder) \/ url \notin DOMAIN cset.pages

HoldersCard(c) == c \in {cset.card} \cup cset.revised

\* The holder's pages have its card, and its DID document points to one of them.
SiteSound ==
    /\ \A u \in DOMAIN site.pages :
          \/ HoldersCard(site.pages[u])
          \/ ~ OwnPage(u) /\ site.pages[u] \in Range(cset.pages)
    /\ \A u \in DOMAIN cset.pages : OwnPage(u) \/ u \in DOMAIN site.pages
    /\ \A s \in site.services : OwnPage(s.serviceEndpoint)

\* A call that knows whom it looks for is on its way to the holder's page, or has its
\* card.
Found(r) ==
    /\ r.stage = "fetch" => \A d \in r.expected : normalizeDid(d) = Holder => OwnPage(r.url)
    /\ r.stage = "bind" => /\ r.input = "cimd" /\ r.card.revocation = Absent
                           /\ r.card.cimd # Absent /\ \A c \in r.card.cimd : c.clientId = r.url
    /\ r.stage \notin EarlyStages => \A e, f \in r.card.revocation : e = f
    /\ r.stage \notin EarlyStages => \A d \in r.expected :
          /\ normalizeDid(r.card.id) = normalizeDid(d)
          /\ normalizeDid(d) = Holder =>
               \/ HoldersCard(r.card)
               \/ r.input = "cimd" /\ HttpsOrigin(r.url) = HttpsOrigin(bindClientId(Holder))

FoundInv == SiteSound /\ \A j \in Jobs : Found(job[j])

\* Every card of a setting has at most one status entry.
LEMMA OneEntry ==
    ASSUME CardTyped
    PROVE  /\ \A c : HoldersCard(c) \/ c \in Range(cset.pages) => \A e, f \in c.revocation : e = f
           /\ \A i \in cset.inputs : \A c \in Summaries(i) : \A e, f \in c.revocation : e = f
<1>1. SettingSound(cset)  BY CardAssumption DEF CardTyped
<1>2. \A c \in CardsOf(cset) : \A e, f \in c.revocation : e = f  BY <1>1 DEF SettingSound
<1>3. \A c : HoldersCard(c) \/ c \in Range(cset.pages) => c \in CardsOf(cset)  BY DEF HoldersCard, CardsOf
<1>4. \A i \in cset.inputs : \A c \in Summaries(i) : c \in CardsOf(cset)  BY DEF CardsOf
<1> QED  BY <1>2, <1>3, <1>4

LEMMA FoundInit == CardInit => FoundInv
<1> SUFFICES ASSUME CardInit PROVE FoundInv
  OBVIOUS
<1>1. \A j \in Jobs : Found(job[j])
  BY DEF CardInit, Found, NoJob, EarlyStages
<1>2. cset.card.id = Holder  BY CardAssumption DEF CardInit, SettingSound
<1>3. site.pages = PageAt(cset.pages, didWebToCardUrl(Holder), cset.card) /\ site.services = MountedServices(cset.card)
  BY DEF CardInit
<1>4. \A s \in site.services : s.serviceEndpoint = didWebToCardUrl(Holder)
  <2>1. CardUrlOf(cset.card, Absent) = didWebToCardUrl(Holder)  BY <1>2 DEF CardUrlOf, Absent
  <2>2. toDidServiceEntry(cset.card, Absent).serviceEndpoint = didWebToCardUrl(Holder)
    BY <2>1 DEF toDidServiceEntry
  <2>3. withKyaOsCard(cset.card, FALSE).serviceEntry = Some(toDidServiceEntry(cset.card, Absent))
    BY <1>2, CardAssumption DEF withKyaOsCard
  <2>4. site.services \subseteq {toDidServiceEntry(cset.card, Absent)}
    BY <1>3, <2>3, OnlySome DEF MountedServices, appendService
  <2> QED  BY <2>2, <2>4
<1>5. \A u \in DOMAIN site.pages : HoldersCard(site.pages[u]) \/ (u \in DOMAIN cset.pages /\ ~ OwnPage(u) /\ site.pages[u] = cset.pages[u])
  BY <1>3 DEF PageAt, HoldersCard, OwnPage
<1>6. DOMAIN cset.pages \subseteq DOMAIN site.pages  BY <1>3 DEF PageAt
<1> QED  BY <1>1, <1>4, <1>5, <1>6 DEF FoundInv, SiteSound, OwnPage, Range

\* A step of a call, or of the holder, that leaves the others as they are.
LEMMA FoundStep == CardTyped /\ FoundInv /\ [CardNext]_cardVars => FoundInv'
<1> SUFFICES ASSUME CardTyped, FoundInv, [CardNext]_cardVars PROVE FoundInv'
  OBVIOUS
<1>1. ASSUME NEW j \in Jobs, NEW q, job' = [job EXCEPT ![j] = q], Found(q), UNCHANGED <<cset, site>>
      PROVE  FoundInv'
  <2>1. \A k \in Jobs : job'[k] = job[k] \/ job'[k] = q  BY <1>1 DEF CardTyped
  <2>2. \A r : Found(r) <=> Found(r)'
    BY <1>1 DEF Found, OwnPage, HoldersCard
  <2>3. SiteSound'
    BY <1>1 DEF FoundInv, SiteSound, OwnPage, HoldersCard
  <2> QED  BY <1>1, <2>1, <2>2, <2>3 DEF FoundInv
<1>2. ASSUME NEW j \in Jobs, NEW input \in cset.inputs, ResolveCard(j, input) PROVE FoundInv'
  <2>1. PICK q : SetOut(q, input) /\ job' = [job EXCEPT ![j] = q]  BY <1>2, ResolveSetsOut
  <2>2. \A c \in Summaries(input) : normalizeDid(c.id) = Holder => OwnPage(didWebToCardUrl(c.id))
    BY CardAssumption DEF CardTyped, SettingSound, OwnPage
  <2>3. Found(q)
    <3>1. q.stage \notin EarlyStages => q.expected = {} /\ \A e, f \in q.card.revocation : e = f
      <4>1. EmptyCard.revocation = {}  BY DEF EmptyCard, Absent
      <4> QED  BY <2>1, <4>1, OneEntry DEF SetOut, EarlyStages, Absent
    <3>2. q.stage = "fetch" => \A d \in q.expected : normalizeDid(d) = Holder => OwnPage(q.url)
      BY <2>1, <2>2 DEF SetOut, Absent, Some
    <3> QED  BY <2>1, <3>1, <3>2 DEF SetOut, Found
  <2> QED  BY <1>1, <1>2, <2>1, <2>3 DEF ResolveCard
<1>3. ASSUME NEW j \in Jobs, FetchDidDoc(j) PROVE FoundInv'
  <2> DEFINE r == job[j]
             ends == IF r.url = didWebToDidDocUrl(Holder) THEN cardEndpointFromDidDoc(site.services) ELSE {}
             q == IF ends = {} THEN Failed(r) ELSE FetchFrom(r, Only(ends), r.expected)
  <2>1. job' = [job EXCEPT ![j] = q] /\ UNCHANGED <<cset, site>>
    BY <1>3 DEF FetchDidDoc, World, Absent
  <2>2. \A u \in ends : OwnPage(u)
    BY DEF FoundInv, SiteSound, cardEndpointFromDidDoc
  <2>3. IsJob(r)  BY DEF CardTyped
  <2>4. Failed(r).stage = "failed"
    BY <2>3 DEF Failed, IsJob, JobFields
  <2>5. q.stage # "failed" => q.stage = "fetch" /\ ends # {} /\ q.url = Only(ends)
    BY <2>3, <2>4 DEF FetchFrom, IsJob, JobFields
  <2> HIDE DEF ends, q
  <2>6. Found(q)
    BY <2>2, <2>5, OnlyIn DEF Found, EarlyStages
  <2> QED  BY <1>1, <2>1, <2>6
<1>4. ASSUME NEW j \in Jobs, FetchCard(j) PROVE FoundInv'
  <2> DEFINE r == job[j]
             c == site.pages[r.url]
             q == IF r.url \in DOMAIN site.pages /\ CardAccepted(c, r.expected) THEN Got(r, c) ELSE Failed(r)
  <2>1. job' = [job EXCEPT ![j] = q] /\ UNCHANGED <<cset, site>> /\ r.stage = "fetch"
    BY <1>4 DEF FetchCard, World
  <2>2. IsJob(r)  BY DEF CardTyped
  <2>3. Failed(r).stage = "failed"
    BY <2>2 DEF Failed, IsJob, JobFields
  <2>4. CASE r.url \in DOMAIN site.pages /\ CardAccepted(c, r.expected)
    <3>1. Got(r, c).stage = "capabilities" /\ Got(r, c).card = c /\ Got(r, c).expected = r.expected
      BY <2>2 DEF Got, IsJob, JobFields
    <3>2. \A d \in r.expected : normalizeDid(c.id) = normalizeDid(d)
      BY <2>4 DEF CardAccepted
    <3>3. \A d \in r.expected : normalizeDid(d) = Holder => HoldersCard(c)
      BY <2>1, <2>4 DEF FoundInv, SiteSound, Found
    <3>4. \A e, f \in c.revocation : e = f
      BY <2>4, OneEntry DEF FoundInv, SiteSound
    <3>5. Found(Got(r, c))
      BY <3>1, <3>2, <3>3, <3>4 DEF Found
    <3> QED  BY <1>1, <2>1, <2>4, <3>5
  <2>5. CASE ~ (r.url \in DOMAIN site.pages /\ CardAccepted(c, r.expected))
    <3>1. Found(Failed(r))  BY <2>3 DEF Found, EarlyStages
    <3> QED  BY <1>1, <2>1, <2>5, <3>1
  <2> QED  BY <2>4, <2>5
<1>5. ASSUME NEW j \in Jobs, BindClient(j) PROVE FoundInv'
  <2> DEFINE r == job[j]
             g == Got(r, r.card)
             binds == r.card.id = Holder /\ verifyCimdBind(Only(r.card.cimd), Holder, site.aka, Some(r.card.id))
  <2>1. /\ job' = [job EXCEPT ![j] = IF binds THEN [g EXCEPT !.expected = Some(r.card.id)] ELSE Failed(r)]
        /\ UNCHANGED <<cset, site>> /\ r.stage = "bind"
    BY <1>5 DEF BindClient, World
  <2>2. IsJob(r)  BY DEF CardTyped
  <2>3. Failed(r).stage = "failed"
    BY <2>2 DEF Failed, IsJob, JobFields
  <2>4. g.stage = "capabilities" /\ g.card = r.card /\ g.url = r.url /\ g.input = r.input /\ DOMAIN g = JobFields
    BY <2>2 DEF Got, IsJob, JobFields
  <2>5. r.input = "cimd" /\ r.card.revocation = {} /\ r.card.cimd # {} /\ \A c \in r.card.cimd : c.clientId = r.url
    BY <2>1 DEF FoundInv, Found, Absent
  <2>6. ASSUME binds PROVE Found([g EXCEPT !.expected = Some(r.card.id)])
    <3> DEFINE q == [g EXCEPT !.expected = Some(r.card.id)]
    <3>1. /\ q.stage = "capabilities" /\ q.card = r.card /\ q.url = r.url /\ q.input = "cimd"
          /\ q.expected = {r.card.id}
      BY <2>4, <2>5 DEF JobFields, Some
    <3>2. HttpsOrigin(r.url) = HttpsOrigin(bindClientId(Holder))
      BY <2>5, <2>6, OnlyIn, OnlySome DEF verifyCimdBind, Absent, Some
    <3> HIDE DEF q
    <3>3. Found(q)  BY <2>5, <3>1, <3>2 DEF Found, EarlyStages
    <3> QED  BY <3>3 DEF q
  <2>7. Found(Failed(r))  BY <2>3 DEF Found, EarlyStages
  <2> HIDE DEF binds, g
  <2> QED  BY <1>1, <2>1, <2>6, <2>7
<1>6. ASSUME NEW j \in Jobs, LateStep(j) PROVE FoundInv'
  <2>1. PICK q : /\ job' = [job EXCEPT ![j] = q]
                 /\ job[j].stage \in LateStages /\ q.stage \in LateStages
                 /\ q.card = job[j].card /\ q.url = job[j].url /\ q.expected = job[j].expected
                 /\ q.input = job[j].input /\ UNCHANGED <<cset, site>>
    BY <1>6, LateStepKeeps
  <2>2. Found(job[j])  BY DEF FoundInv
  <2>3. Found(q)  BY <2>1, <2>2 DEF Found, EarlyStages, LateStages
  <2> QED  BY <1>1, <2>1, <2>3
<1>7. ASSUME HolderStep PROVE FoundInv'
  <2>0. UNCHANGED <<cset, job>>  BY <1>7, HolderStepKeeps
  <2>1. \A j \in Jobs : Found(job[j])'
    BY <2>0 DEF FoundInv, Found, OwnPage, HoldersCard
  <2>2. ASSUME NEW url, MoveCard(url) PROVE SiteSound'
    <3> DEFINE rest == [u \in DOMAIN site.pages \ {didWebToCardUrl(Holder)} |-> site.pages[u]]
    <3>1. /\ url \notin DOMAIN site.pages
          /\ site'.pages = PageAt(rest, url, cset.card)
          /\ site'.services = appendService(site.services, toDidServiceEntry(cset.card, Some(url)))
      BY <2>2 DEF MoveCard, CardTyped
    <3>2. OwnPage(url)  BY <3>1 DEF FoundInv, SiteSound, OwnPage
    <3>3. \A s \in site'.services : OwnPage(s.serviceEndpoint)
      <4>1. toDidServiceEntry(cset.card, Some(url)).serviceEndpoint = url
        BY OnlySome DEF toDidServiceEntry, CardUrlOf, Some, Absent
      <4> QED  BY <3>1, <3>2, <4>1 DEF appendService, FoundInv, SiteSound
    <3>4. /\ DOMAIN site'.pages = (DOMAIN site.pages \ {didWebToCardUrl(Holder)}) \cup {url}
          /\ \A u \in DOMAIN site'.pages : site'.pages[u] = IF u = url THEN cset.card ELSE site.pages[u]
      BY <3>1 DEF PageAt
    <3> QED  BY <2>0, <3>2, <3>3, <3>4 DEF FoundInv, SiteSound, OwnPage, HoldersCard
  <2>3. ASSUME NEW c, ReviseCard(c) PROVE SiteSound'
    <3>1. PICK u \in DOMAIN site.pages : site' = [site EXCEPT !.pages[u] = c] /\ c \in cset.revised
      BY <2>3 DEF ReviseCard
    <3>2. /\ site'.services = site.services /\ DOMAIN site'.pages = DOMAIN site.pages
          /\ \A v \in DOMAIN site.pages : site'.pages[v] = IF v = u THEN c ELSE site.pages[v]
      BY <3>1 DEF CardTyped
    <3> QED  BY <2>0, <3>1, <3>2 DEF FoundInv, SiteSound, OwnPage, HoldersCard
  <2>4. UNCHANGED site => SiteSound'
    BY <2>0 DEF FoundInv, SiteSound, OwnPage, HoldersCard
  <2>5. SiteSound'
    BY <1>7, <2>2, <2>3, <2>4 DEF HolderStep, RotateKey, Revoke, ReissueList, CardTick
  <2> QED  BY <2>1, <2>5 DEF FoundInv
<1>8. CASE UNCHANGED cardVars
  BY <1>8 DEF cardVars, FoundInv, SiteSound, Found, OwnPage, HoldersCard
<1> QED  BY <1>2, <1>3, <1>4, <1>5, <1>6, <1>7, <1>8, JobStepCases DEF CardNext, HolderStep

LEMMA FoundHolds == CardSpec => []FoundInv
<1> QED  BY CardTypedHolds, FoundInit, FoundStep, PTL DEF CardSpec

LEMMA FoundIsTheDids == FoundInv => CardIsTheDids
<1> SUFFICES ASSUME FoundInv, NEW j \in Jobs, Past(j, {}), job[j].expected # Absent
             PROVE  /\ normalizeDid(job[j].card.id) = normalizeDid(Only(job[j].expected))
                    /\ normalizeDid(job[j].card.id) = Holder =>
                         \/ job[j].card \in {cset.card} \cup cset.revised
                         \/ job[j].input = "cimd" /\ HttpsOrigin(job[j].url) = HttpsOrigin(bindClientId(Holder))
  BY DEF CardIsTheDids
<1>1. Only(job[j].expected) \in job[j].expected  BY OnlyIn DEF Absent
<1>2. Found(job[j]) /\ job[j].stage \notin {"idle", "didDoc", "fetch", "bind", "failed"}
  BY DEF FoundInv, Past
<1> QED  BY <1>1, <1>2 DEF Found, HoldersCard, EarlyStages

-----------------------------------------------------------------------------
(* What a delegation chain confines.                                       *)

\* A nonempty set of natural numbers has a smallest member.
LEMMA LeastNat ==
    ASSUME NEW S \in SUBSET Nat, S # {}
    PROVE  \E n \in S : \A k \in S : n <= k
<1>1. PICK n \in S : \A k \in S : ~ (<<k, n>> \in OpToRel(<, Nat))
  BY NatLessThanWellFounded, WFMin
<1>2. \A k \in S : ~ (k < n)
  BY <1>1 DEF OpToRel
<1> QED  BY <1>2

LEMMA TensProduct ==
    ASSUME NEW a \in Nat, NEW b \in Nat, a + b <= MaxDigits
    PROVE  Tens[a + b] = Tens[a] * Tens[b] /\ Tens[a] \in Nat /\ Tens[b] \in Nat
<1>0. MaxDigits \in Nat /\ Tens \in [0..MaxDigits -> Nat] /\ Tens[0] = 1
      /\ \A n \in 1..MaxDigits : Tens[n] = 10 * Tens[n - 1]
  BY DecimalAssumption
<1>1. \A n \in 0..MaxDigits : Tens[n] \in Nat  BY <1>0
<1> DEFINE S == {k \in Nat : a + k <= MaxDigits /\ Tens[a + k] # Tens[a] * Tens[k]}
<1>2. S = {}
  <2> SUFFICES ASSUME S # {} PROVE FALSE
    OBVIOUS
  <2>0. S \in SUBSET Nat  OBVIOUS
  <2> HIDE DEF S
  <2>1. PICK k \in S : \A m \in S : k <= m  BY <2>0, LeastNat
  <2> USE DEF S
  <2>2. k # 0  BY <1>0, <1>1, <2>1
  <2>3. k - 1 \in Nat /\ k - 1 \notin S /\ a + (k - 1) <= MaxDigits  BY <1>0, <2>1, <2>2
  <2>4. Tens[a + (k - 1)] = Tens[a] * Tens[k - 1]  BY <2>3
  <2>5. k \in 1..MaxDigits /\ a + k \in 1..MaxDigits /\ (a + k) - 1 = a + (k - 1)  BY <1>0, <2>1, <2>2
  <2>6. Tens[k] = 10 * Tens[k - 1] /\ Tens[a + k] = 10 * Tens[a + (k - 1)]
    BY <1>0, <2>5
  <2>7. Tens[a] \in Nat /\ Tens[k - 1] \in Nat
    <3>1. a \in 0..MaxDigits /\ k - 1 \in 0..MaxDigits  BY <1>0, <2>3
    <3> QED  BY <1>1, <3>1
  <2>8. \A x, y \in Nat : 10 * (x * y) = x * (10 * y)  OBVIOUS
  <2> QED  BY <2>1, <2>4, <2>6, <2>7, <2>8
<1>3. a \in 0..MaxDigits /\ b \in 0..MaxDigits  BY <1>0
<1> QED  BY <1>1, <1>2, <1>3

\* A decimal scaled further keeps its value.
LEMMA ScaledUp ==
    ASSUME NEW d \in Decimals, NEW s \in Nat, d.digits <= s, s <= MaxDigits
    PROVE  /\ Scaled(d, s) \in Nat /\ Tens[MaxDigits - s] \in Nat
           /\ Scaled(d, MaxDigits) = Scaled(d, s) * Tens[MaxDigits - s]
<1>0. MaxDigits \in Nat  BY DecimalAssumption
<1>1. d.whole \in Nat /\ d.fraction \in Nat /\ d.digits \in 0..MaxDigits  BY DEF Decimals
<1>2. s - d.digits \in Nat /\ MaxDigits - s \in Nat /\ MaxDigits - d.digits = (s - d.digits) + (MaxDigits - s)
      /\ MaxDigits = s + (MaxDigits - s)
  BY <1>0, <1>1
<1> DEFINE a == Tens[s]
           b == Tens[MaxDigits - s]
           c == Tens[s - d.digits]
<1>3. Tens[MaxDigits] = a * b /\ a \in Nat /\ b \in Nat
  BY <1>2, TensProduct
<1>4. Tens[MaxDigits - d.digits] = c * b /\ c \in Nat
  <2>1. (s - d.digits) + (MaxDigits - s) <= MaxDigits  BY <1>0, <1>1
  <2> QED  BY <1>2, <2>1, TensProduct
<1>5. \A w, f, x, y, z \in Nat : w * (x * y) + f * (z * y) = (w * x + f * z) * y
  OBVIOUS
<1>6. \A w, f, x, z \in Nat : w * x + f * z \in Nat
  OBVIOUS
<1> HIDE DEF a, b, c
<1>7. d.whole * (a * b) + d.fraction * (c * b) = (d.whole * a + d.fraction * c) * b
  BY <1>1, <1>3, <1>4, <1>5
<1>8. d.whole * a + d.fraction * c \in Nat
  BY <1>1, <1>3, <1>4, <1>6
<1> QED  BY <1>3, <1>4, <1>7, <1>8 DEF Scaled, a, b, c

\* A limit that is not more, at the digits it is compared with, is not more at all.
LEMMA DecimalLteScales ==
    ASSUME NEW c, NEW p, c.digits # Unparsed => c \in Decimals, p.digits # Unparsed => p \in Decimals,
           decimalLte(c, p)
    PROVE  /\ c \in Decimals /\ p \in Decimals
           /\ Scaled(c, MaxDigits) \in Nat /\ Scaled(p, MaxDigits) \in Nat
           /\ Scaled(c, MaxDigits) <= Scaled(p, MaxDigits)
<1>0. MaxDigits \in Nat  BY DecimalAssumption
<1>1. c \in Decimals /\ p \in Decimals /\ Scaled(c, Max({c.digits, p.digits})) <= Scaled(p, Max({c.digits, p.digits}))
  BY DEF decimalLte
<1>2. c.digits \in 0..MaxDigits /\ p.digits \in 0..MaxDigits  BY <1>1 DEF Decimals
<1> DEFINE s == Max({c.digits, p.digits})
<1>3. s \in Nat /\ c.digits <= s /\ p.digits <= s /\ s <= MaxDigits
  <2>1. \E x \in {c.digits, p.digits} : \A y \in {c.digits, p.digits} : x >= y  BY <1>2
  <2> QED  BY <1>2, <2>1 DEF Max
<1> HIDE DEF s
<1>4. /\ Scaled(c, s) \in Nat /\ Scaled(p, s) \in Nat /\ Tens[MaxDigits - s] \in Nat
      /\ Scaled(c, MaxDigits) = Scaled(c, s) * Tens[MaxDigits - s]
      /\ Scaled(p, MaxDigits) = Scaled(p, s) * Tens[MaxDigits - s]
  BY <1>1, <1>3, ScaledUp
<1>5. \A x, y, z \in Nat : x <= y => x * z <= y * z /\ x * z \in Nat /\ y * z \in Nat
  OBVIOUS
<1> QED  BY <1>1, <1>4, <1>5 DEF s

\* Whatever a narrower caveat permits, the wider one permits.
LEMMA NarrowerPermits ==
    ASSUME NEW parent, NEW child, NEW vp, NEW vc, IsHop(vp), IsHop(vc),
           parent \in vp.caveats, child \in vc.caveats,
           NEW use \in Uses, caveatNarrows(parent, child), CaveatPermits(child, use)
    PROVE  CaveatPermits(parent, use)
<1>0. /\ parent.type = child.type
      /\ parent.date \subseteq Int /\ child.date \subseteq Int
      /\ \A l \in parent.limit \cup child.limit : l.digits # Unparsed => l \in Decimals
      /\ use.amount \in Decimals /\ use.at \in Nat
  BY CardAssumption DEF IsHop, caveatNarrows
<1>1. CASE parent.type = "ValidUntil"
  <2>1. child.date # {} /\ \A c \in child.date, p \in parent.date : dateLte(c, p)
    BY <1>1 DEF caveatNarrows
  <2>2. \A d \in child.date : use.at <= d  BY <1>0, <1>1 DEF CaveatPermits
  <2>3. \A p \in parent.date : use.at <= p
    <3> SUFFICES ASSUME NEW p \in parent.date PROVE use.at <= p
      OBVIOUS
    <3>1. PICK c \in child.date : c <= p /\ use.at <= c  BY <2>1, <2>2 DEF dateLte
    <3> QED  BY <1>0, <3>1
  <2> QED  BY <1>1, <2>3 DEF CaveatPermits
<1>2. CASE parent.type = "MaxAmount"
  <2>1. /\ parent.currency = {} \/ parent.currency = child.currency
        /\ child.limit # {} /\ \A c \in child.limit, p \in parent.limit : decimalLte(c, p)
    BY <1>2 DEF caveatNarrows
  <2>2. /\ child.currency = {} \/ child.currency = {use.currency}
        /\ \A l \in child.limit : Scaled(use.amount, MaxDigits) <= Scaled(l, MaxDigits)
    BY <1>0, <1>2 DEF CaveatPermits
  <2>3. Scaled(use.amount, MaxDigits) \in Nat
    BY <1>0, ScaledUp, DecimalAssumption DEF Decimals
  <2>4. ASSUME NEW p \in parent.limit
        PROVE  p.digits # Unparsed /\ Scaled(use.amount, MaxDigits) <= Scaled(p, MaxDigits)
    <3>1. PICK c \in child.limit : decimalLte(c, p)  BY <2>1
    <3>2. c.digits # Unparsed => c \in Decimals  BY <1>0
    <3>3. p.digits # Unparsed => p \in Decimals  BY <1>0
    <3>4. /\ Scaled(c, MaxDigits) \in Nat /\ Scaled(p, MaxDigits) \in Nat
          /\ Scaled(c, MaxDigits) <= Scaled(p, MaxDigits)
      BY <3>1, <3>2, <3>3, DecimalLteScales
    <3>5. p.digits # Unparsed  BY <3>1 DEF decimalLte
    <3> QED  BY <2>2, <2>3, <3>1, <3>4, <3>5
  <2> QED  BY <1>2, <2>1, <2>2, <2>4 DEF CaveatPermits
<1>3. CASE parent.type \notin {"ValidUntil", "MaxAmount"}
  BY <1>0, <1>3 DEF caveatNarrows, CaveatPermits
<1> QED  BY <1>1, <1>2, <1>3

\* Whatever an attenuated credential authorises, the one above it authorises.
LEMMA AttenuationConfines ==
    ASSUME NEW parent, NEW child, IsHop(parent), IsHop(child), attenuates(parent, child),
           NEW use \in Uses, Permits(child, use), \A f \in parent.from : f <= use.at
    PROVE  Permits(parent, use)
<1>1. use.action \in parent.actions  BY DEF Permits, attenuates
<1>2. \A c \in parent.caveats : CaveatPermits(c, use)
  <2> SUFFICES ASSUME NEW c \in parent.caveats PROVE CaveatPermits(c, use)
    OBVIOUS
  <2>1. PICK cc \in child.caveats : caveatNarrows(c, cc)  BY DEF attenuates, caveatReasons
  <2>2. CaveatPermits(cc, use)  BY DEF Permits
  <2> QED  BY <2>1, <2>2, NarrowerPermits
<1>3. \A u \in parent.until : use.at <= u
  <2> SUFFICES ASSUME NEW u \in parent.until PROVE use.at <= u
    OBVIOUS
  <2>1. PICK c \in child.until : c <= u  BY DEF attenuates, dateLte
  <2>2. use.at <= c  BY DEF Permits
  <2> QED  BY <2>1, <2>2, CardAssumption DEF IsHop
<1> QED  BY <1>1, <1>2, <1>3 DEF Permits

\* Of a chain that was valid, every credential authorises what the leaf does from then on.
LEMMA ChainConfinesUse ==
    ASSUME CardTyped, NEW t \in Nat, validateDelegationChain(cset.chain, cset.ctx, t),
           NEW use \in Uses, use.at >= t, Permits(cset.chain[Len(cset.chain)], use),
           NEW i \in 1..Len(cset.chain)
    PROVE  Permits(cset.chain[i], use)
<1> DEFINE chain == cset.chain
           n == Len(chain)
<1>1. chain \in Seq(Range(chain)) /\ \A vc \in Range(chain) : IsHop(vc)
  BY CardAssumption DEF CardTyped, SettingSound
<1>2. n \in Nat /\ \A k \in 1..n : IsHop(chain[k])
  <2>1. n \in Nat /\ DOMAIN chain = 1..n  BY <1>1
  <2> QED  BY <1>1, <2>1 DEF Range
<1>3. ASSUME NEW k \in 1..n PROVE \A f \in chain[k].from : f <= use.at
  <2>1. \A f \in chain[k].from : f <= t  BY <1>3 DEF validateDelegationChain, expiryReasons
  <2>2. use.at \in Nat /\ \A f \in chain[k].from : f \in Int  BY <1>2, <1>3, CardAssumption DEF IsHop
  <2> QED  BY <2>1, <2>2
<1> DEFINE S == {k \in Nat : k < n /\ ~ Permits(chain[n - k], use)}
<1>4. S = {}
  <2> SUFFICES ASSUME S # {} PROVE FALSE
    OBVIOUS
  <2>1. PICK k \in S : \A m \in S : k <= m  BY LeastNat
  <2>2. k # 0
    <3>1. n - 0 = n  BY <1>2
    <3> QED  BY <2>1, <3>1
  <2>3. k - 1 \in Nat /\ k - 1 < n /\ k - 1 \notin S  BY <1>2, <2>1, <2>2
  <2>4. Permits(chain[n - (k - 1)], use)  BY <2>3
  <2>5. n - k \in 1..n /\ n - (k - 1) \in 2..n /\ (n - (k - 1)) - 1 = n - k  BY <1>2, <2>1, <2>2
  <2>6. attenuates(chain[n - k], chain[n - (k - 1)])
    BY <2>5 DEF validateDelegationChain
  <2>7. IsHop(chain[n - k]) /\ IsHop(chain[n - (k - 1)])
    <3>1. n - k \in 1..n /\ n - (k - 1) \in 1..n  BY <1>2, <2>5
    <3> QED  BY <1>2, <3>1
  <2>8. Permits(chain[n - k], use)  BY <1>3, <2>4, <2>5, <2>6, <2>7, AttenuationConfines
  <2> QED  BY <2>1, <2>8
<1>5. n - i \in Nat /\ n - i < n /\ n - (n - i) = i  BY <1>2
<1> QED  BY <1>4, <1>5

-----------------------------------------------------------------------------
(* What has been revoked.                                                  *)

HopClear(i, bits) == \A s \in cset.chain[i].status : s.statusListIndex \notin bits

\* A hop that was passed was not revoked when the call began, if the host serves the
\* current list; if the proof of a list is verified and every status was live, it was
\* not so long revoked that no other version is in force.
Passed(r, i) ==
    /\ cset.host = "current" => HopClear(i, r.started.bits)
    /\ deps.listProof /\ r.fresh => HopClear(i, r.started.gone)

\* What RevokedCardRefused says of a result.
Refused(r) ==
    /\ cset.host = "current" =>
         /\ deps.checker /\ (\E e \in r.card.revocation : e.statusListIndex \in r.started.bits) =>
               ~ r.result.ok /\ r.result.level = "L1"
         /\ r.card.responsibleParty # Absent
            /\ (\E i \in StatusHops(cset.chain) : ~ HopClear(i, r.started.bits)) => ~ r.result.ok
    /\ deps.listProof =>
         /\ deps.checker /\ (\E e \in r.card.revocation : e.statusListIndex \in r.started.gone) =>
               r.result.level # "L3"
         /\ r.card.responsibleParty # Absent
            /\ (\E i \in StatusHops(cset.chain) : ~ HopClear(i, r.started.gone)) =>
               ~ (r.result.ok /\ r.result.level = "L3")

\* A call on its way knows what the hops it has passed were when it began; and of its
\* chain, that it was valid when it was evaluated.
Confined(r) ==
    /\ r.started.bits \subseteq statusList.bits /\ r.started.gone \subseteq Gone
    /\ r.stage = "hops" =>
          /\ r.card.responsibleParty # Absent
          /\ r.hops \subseteq StatusHops(cset.chain)
          /\ \A i \in StatusHops(cset.chain) \ r.hops : Passed(r, i)
    /\ r.stage \in {"hops", "attestations"} /\ r.card.responsibleParty # Absent /\ r.accountable =>
          \E t \in Nat : t <= ctime /\ validateDelegationChain(cset.chain, cset.ctx, t)
    /\ r.stage \in {"attestations", "revocation"} /\ r.card.responsibleParty # Absent /\ r.accountable =>
          \A i \in StatusHops(cset.chain) : Passed(r, i)
    /\ r.stage = "done" /\ r.input # "request" => Refused(r)

ConfinedInv == \A j \in Jobs : Confined(job[j])

\* A status that is revoked when it is asked for reads as revoked where the host serves
\* the current list; where the proof of the list is verified, it does not read as live
\* and clear once every version without the revocation has expired.
LEMMA RevokedReads ==
    ASSUME CardTyped, NEW entry, NEW read \in StatusReads(entry)
    PROVE  /\ cset.host = "current" /\ entry.statusListIndex \in statusList.bits => read.revoked
           /\ deps.listProof /\ entry.statusListIndex \in Gone => read.revoked \/ ~ read.fresh
<1> DEFINE index == entry.statusListIndex
           Reads(x) == /\ cset.host = "current" /\ index \in statusList.bits => x.revoked
                       /\ deps.listProof /\ index \in Gone => x.revoked \/ ~ x.fresh
<1>1. Reads(FailClosed)  BY DEF FailClosed
<1>2. ASSUME NEW list \in ListReplies PROVE Reads(RevocationStatus(list, index))
  <2> DEFINE full == SignedList(statusList)
  <2>1. \/ list.bits = statusList.bits
        \/ deps.listProof /\ ~ verifyEddsaJcs2022(list)
        \/ cset.host # "current" /\ ~ deps.listProof
        \/ \E v \in statusList.kept : list = SignedList(v)
    <3> USE DEF SignedList
    <3>1. CASE list = full  BY <3>1
    <3>2. CASE list \in {[full EXCEPT !.purpose = "suspension"], [full EXCEPT !.until = Some(Unparsed)]}
      BY <3>2
    <3>3. CASE list = [full EXCEPT !.bits = {}, !.signed = FALSE] /\ (deps.listProof \/ cset.host = "any")
      BY <3>3 DEF verifyEddsaJcs2022
    <3>4. CASE list = [full EXCEPT !.bits = {}, !.method = OtherDid("other")] /\ (deps.listProof \/ cset.host = "any")
      <4>1. OtherDid("other") # Holder  BY CardAssumption DEF OtherDid
      <4> QED  BY <3>4, <4>1 DEF verifyEddsaJcs2022
    <3> QED  BY <3>1, <3>2, <3>3, <3>4 DEF ListReplies
  <2>2. CASE list.bits = statusList.bits
    BY <1>1, <2>2 DEF RevocationStatus, Gone
  <2>3. CASE deps.listProof /\ ~ verifyEddsaJcs2022(list)
    BY <1>1, <2>3 DEF RevocationStatus
  <2>4. CASE cset.host # "current" /\ ~ deps.listProof
    BY <2>4
  <2>5. CASE \E v \in statusList.kept : list = SignedList(v)
    <3>1. PICK v \in statusList.kept : list = SignedList(v)  BY <2>5
    <3>2. list.bits = v.bits /\ list.until = {v.until}  BY <3>1 DEF SignedList, Some
    <3>3. cset.host # "current"  BY <3>1 DEF CardTyped
    <3>4. index \in Gone /\ index \notin v.bits => ~ isLive(list, ctime)
      <4>1. index \in Gone /\ index \notin v.bits => v.until < ctime  BY <3>1 DEF Gone
      <4>2. v.until \in Nat /\ ctime \in Nat  BY <3>1 DEF CardTyped
      <4> QED  BY <3>2, <4>1, <4>2 DEF isLive
    <3> QED  BY <1>1, <3>2, <3>3, <3>4 DEF RevocationStatus
  <2> QED  BY <2>1, <2>2, <2>3, <2>4, <2>5
<1> HIDE DEF Reads
<1>3. Reads(read)  BY <1>1, <1>2 DEF StatusReads
<1> QED  BY <1>3 DEF Reads

LEMMA ConfinedInit == CardInit => ConfinedInv
<1> SUFFICES ASSUME CardInit, NEW j \in Jobs PROVE Confined(NoJob)
  BY DEF CardInit, ConfinedInv
<1> QED  BY DEF Confined, NoJob, CardInit

\* The steps before the delegation chain, and of the request gate, are not about it.
LEMMA ConfinedEarlier ==
    ASSUME CardTyped, ConfinedInv, NEW j \in Jobs,
           \/ CheckCapabilities(j) \/ BeginProof(j) \/ ResolveKey(j) \/ AssertDidMembership(j)
           \/ CheckClaims(j) \/ ConsumeNonce(j)
    PROVE  \E q : /\ job' = [job EXCEPT ![j] = q]
                  /\ q.started = job[j].started
                  /\ q.stage \in {"proof", "key", "membership", "claims", "nonce", "accountability"}
                  /\ UNCHANGED <<cset, ctime, statusList>>
<1> DEFINE r == job[j]
           Stays(q) == /\ q.started = r.started
                      /\ q.stage \in {"proof", "key", "membership", "claims", "nonce", "accountability"}
<1>0. IsJob(r)  BY DEF CardTyped
<1> SUFFICES \E q : job' = [job EXCEPT ![j] = q] /\ Stays(q) /\ UNCHANGED World
  BY DEF World
<1>1. CASE CheckCapabilities(j)
  <2>1. \A v, u : Stays([r EXCEPT !.stage = "proof", !.verified = v, !.unverified = u])
    BY <1>0 DEF IsJob, JobFields
  <2>2. \A u : Stays([r EXCEPT !.stage = "proof", !.unverified = u])
    BY <1>0 DEF IsJob, JobFields
  <2> HIDE DEF Stays
  <2> QED  BY <1>1, <2>1, <2>2 DEF CheckCapabilities
<1>2. CASE BeginProof(j)
  BY <1>0, <1>2 DEF BeginProof, IsJob, JobFields
<1>3. CASE ResolveKey(j)
  BY <1>0, <1>3 DEF ResolveKey, IsJob, JobFields
<1>4. CASE AssertDidMembership(j)
  BY <1>0, <1>4 DEF AssertDidMembership, IsJob, JobFields
<1>5. CASE CheckClaims(j)
  BY <1>0, <1>5 DEF CheckClaims, IsJob, JobFields
<1>6. CASE ConsumeNonce(j)
  BY <1>0, <1>6 DEF ConsumeNonce, IsJob, JobFields
<1> QED  BY <1>1, <1>2, <1>3, <1>4, <1>5, <1>6

\* The evaluation of the chain begins, one hop is read, and the card's own entry.
LEMMA ConfinedLater ==
    ASSUME CardTyped, FoundInv, ConfinedInv, NEW j \in Jobs,
           CheckAccountability(j) \/ CheckHop(j) \/ CheckAttestations(j) \/ CheckCardRevocation(j)
    PROVE  \E q : job' = [job EXCEPT ![j] = q] /\ Confined(q) /\ UNCHANGED <<cset, ctime, statusList>>
<1> DEFINE r == job[j]
<1>0. DOMAIN r = JobFields /\ DOMAIN r.result = {"ok", "level", "did", "gate"}  BY DEF CardTyped, IsJob
<1>a. r.started.bits \subseteq statusList.bits /\ r.started.gone \subseteq Gone /\ ctime \in Nat
  BY DEF ConfinedInv, Confined, CardTyped
<1>b. Confined(r)  BY DEF ConfinedInv
<1> SUFFICES (\E q : job' = [job EXCEPT ![j] = q] /\ Confined(q)) /\ UNCHANGED World
  BY DEF World
<1>1. CASE CheckAccountability(j)
  <2> DEFINE q1 == [r EXCEPT !.stage = "done", !.result.gate = GateAnswer(r)]
             q2 == [r EXCEPT !.stage = "attestations"]
             q3 == [r EXCEPT !.stage = "attestations", !.accountable = FALSE]
             q4 == [r EXCEPT !.stage = "hops", !.hops = StatusHops(cset.chain),
                             !.fresh = (StatusHops(cset.chain) # {})]
  <2>1. r.input = "request" => Confined(q1)
    <3>1. q1.stage = "done" /\ q1.input = r.input /\ q1.started = r.started  BY <1>0 DEF JobFields
    <3> HIDE DEF q1
    <3> QED  BY <1>a, <3>1 DEF Confined
  <2>2. r.card.responsibleParty = Absent => Confined(q2)
    <3>1. q2.stage = "attestations" /\ q2.card = r.card /\ q2.started = r.started  BY <1>0 DEF JobFields
    <3> HIDE DEF q2
    <3> QED  BY <1>a, <3>1 DEF Confined
  <2>3. Confined(q3)
    <3>1. q3.stage = "attestations" /\ q3.accountable = FALSE /\ q3.started = r.started  BY <1>0 DEF JobFields
    <3> HIDE DEF q3
    <3> QED  BY <1>a, <3>1 DEF Confined
  <2>4. r.card.responsibleParty # Absent /\ ChainJoins(r) => Confined(q4)
    <3>1. q4.stage = "hops" /\ q4.card = r.card /\ q4.started = r.started /\ q4.hops = StatusHops(cset.chain)
      BY <1>0 DEF JobFields
    <3> HIDE DEF q4
    <3> QED  BY <1>a, <3>1 DEF Confined, ChainJoins
  <2> HIDE DEF q1, q2, q3, q4
  <2>5. /\ job' = [job EXCEPT ![j] =
              IF r.input = "request" THEN q1
              ELSE IF r.card.responsibleParty = Absent THEN q2
              ELSE IF ~ deps.accountability \/ ~ ChainJoins(r) THEN q3 ELSE q4]
        /\ UNCHANGED World
    BY <1>1 DEF CheckAccountability, q1, q2, q3, q4
  <2> QED  BY <2>1, <2>2, <2>3, <2>4, <2>5
<1>2. CASE CheckHop(j)
  <2> DEFINE hop == Min(r.hops)
             entry == statusEntryOf(cset.chain[hop])
             q1 == [r EXCEPT !.stage = "attestations"]
             q2 == [r EXCEPT !.stage = "attestations", !.accountable = FALSE, !.fresh = FALSE]
             q3(read) == [r EXCEPT !.hops = @ \ {hop}, !.fresh = @ /\ read.fresh,
                                   !.seen = @ \cup {[index |-> entry.statusListIndex, live |-> read.fresh]}]
  <2>0. r.stage = "hops"  BY <1>2 DEF CheckHop
  <2>1. r.hops = {} => Confined(q1)
    <3>1. /\ q1.stage = "attestations" /\ q1.card = r.card /\ q1.started = r.started /\ q1.accountable = r.accountable
          /\ q1.fresh = r.fresh
      BY <1>0 DEF JobFields
    <3> HIDE DEF q1
    <3> QED  BY <1>a, <1>b, <2>0, <3>1 DEF Confined, Passed
  <2>2. Confined(q2)
    <3>1. q2.stage = "attestations" /\ q2.accountable = FALSE /\ q2.started = r.started  BY <1>0 DEF JobFields
    <3> HIDE DEF q2
    <3> QED  BY <1>a, <3>1 DEF Confined
  <2>3. ASSUME r.hops # {}, NEW read \in StatusReads(entry), ~ read.revoked PROVE Confined(q3(read))
    <3>1. /\ q3(read).stage = "hops" /\ q3(read).card = r.card /\ q3(read).started = r.started
          /\ q3(read).accountable = r.accountable /\ q3(read).hops = r.hops \ {hop}
          /\ q3(read).fresh => r.fresh /\ read.fresh
      BY <1>0, <2>0 DEF JobFields
    <3>2. hop \in r.hops /\ hop \in StatusHops(cset.chain)
      <4>1. r.hops \subseteq 1..Len(cset.chain) /\ Len(cset.chain) \in Nat /\ r.hops \subseteq StatusHops(cset.chain)
        <5>1. Len(cset.chain) \in Nat  BY CardAssumption DEF CardTyped, SettingSound
        <5> QED  BY <1>b, <2>0, <5>1 DEF Confined, StatusHops
      <4>2. PICK n \in r.hops : \A k \in r.hops : n <= k
        <5> DEFINE left == r.hops
        <5>1. left \in SUBSET Nat /\ left # {}  BY <2>3, <4>1
        <5> HIDE DEF left
        <5>2. \E n \in left : \A k \in left : n <= k  BY <5>1, LeastNat
        <5> QED  BY <5>2 DEF left
      <4> QED  BY <4>1, <4>2 DEF Min
    <3>3. \A s \in cset.chain[hop].status : s = entry
      <4>1. hop \in 1..Len(cset.chain) /\ cset.chain[hop].status # {}  BY <3>2 DEF StatusHops
      <4>2. IsHop(cset.chain[hop])
        <5>1. DOMAIN cset.chain = 1..Len(cset.chain) /\ \A vc \in Range(cset.chain) : IsHop(vc)
          BY CardAssumption DEF CardTyped, SettingSound
        <5> HIDE DEF hop
        <5> QED  BY <4>1, <5>1 DEF Range
      <4>3. entry \in cset.chain[hop].status  BY <4>1 DEF statusEntryOf
      <4> QED  BY <4>2, <4>3 DEF IsHop
    <3>4. /\ cset.host = "current" => entry.statusListIndex \notin statusList.bits
          /\ deps.listProof /\ read.fresh => entry.statusListIndex \notin Gone
      BY <2>3, RevokedReads
    <3>5. /\ cset.host = "current" => HopClear(hop, r.started.bits)
          /\ deps.listProof /\ read.fresh => HopClear(hop, r.started.gone)
      BY <1>a, <3>3, <3>4 DEF HopClear
    <3> HIDE DEF q3, hop, entry
    <3>6. \A i \in StatusHops(cset.chain) \ q3(read).hops : Passed(q3(read), i)
      BY <1>b, <2>0, <3>1, <3>5 DEF Confined, Passed
    <3> QED  BY <1>a, <1>b, <2>0, <3>1, <3>2, <3>6 DEF Confined
  <2> HIDE DEF q1, q2, q3, hop, entry
  <2>5. /\ UNCHANGED World
        /\ IF r.hops = {} THEN job' = [job EXCEPT ![j] = q1]
           ELSE \E read \in StatusReads(entry) :
                  job' = [job EXCEPT ![j] = IF read.revoked THEN q2 ELSE q3(read)]
    BY <1>2 DEF CheckHop, q1, q2, q3, hop, entry
  <2> QED  BY <2>1, <2>2, <2>3, <2>5
<1>3. CASE CheckAttestations(j)
  <2> DEFINE a == \A x \in r.card.attestations : deps.attestations /\ x.vc.trusted
             q == [r EXCEPT !.stage = "revocation", !.attested = a]
  <2>1. job' = [job EXCEPT ![j] = q] /\ UNCHANGED World /\ r.stage = "attestations"
    BY <1>3 DEF CheckAttestations
  <2>2. /\ q.stage = "revocation" /\ q.card = r.card /\ q.started = r.started /\ q.accountable = r.accountable
        /\ q.fresh = r.fresh
    BY <1>0 DEF JobFields
  <2> HIDE DEF q
  <2>3. Confined(q)  BY <1>a, <1>b, <2>1, <2>2 DEF Confined, Passed
  <2> QED  BY <2>1, <2>3
<1>4. CASE CheckCardRevocation(j)
  <2> DEFINE reads == IF deps.checker /\ r.card.revocation # Absent
                      THEN StatusReads(Only(r.card.revocation)) ELSE {[revoked |-> FALSE, fresh |-> TRUE]}
             extra(read) == {[index |-> e.statusListIndex, live |-> read.fresh] :
                                e \in IF deps.checker THEN r.card.revocation ELSE {}}
             q(read) == [r EXCEPT !.stage = "done", !.result = Verdict(r, read), !.seen = @ \cup extra(read)]
  <2>1. PICK read \in reads : job' = [job EXCEPT ![j] = q(read)] /\ UNCHANGED World /\ r.stage = "revocation"
    BY <1>4 DEF CheckCardRevocation
  <2>2. /\ q(read).stage = "done" /\ q(read).card = r.card /\ q(read).started = r.started
        /\ q(read).result = Verdict(r, read) /\ q(read).input = r.input
    BY <1>0 DEF JobFields
  <2>3. /\ read.revoked => ~ Verdict(r, read).ok /\ Verdict(r, read).level = "L1"
        /\ ~ r.accountable => ~ Verdict(r, read).ok
        /\ Verdict(r, read).level = "L3" => read.fresh /\ r.fresh
    BY DEF Verdict, deriveConformanceLevel
  <2>4. ASSUME deps.checker, NEW e \in r.card.revocation
        PROVE  /\ cset.host = "current" /\ e.statusListIndex \in r.started.bits => read.revoked
               /\ deps.listProof /\ e.statusListIndex \in r.started.gone => read.revoked \/ ~ read.fresh
    <3>1. Only(r.card.revocation) = e
      BY <2>1, <2>4, OnlyIn DEF FoundInv, Found, EarlyStages
    <3>2. read \in StatusReads(e)  BY <2>1, <2>4, <3>1 DEF Absent
    <3> QED  BY <1>a, <3>2, RevokedReads
  <2> HIDE DEF q, reads, extra
  <2>5. ASSUME r.card.responsibleParty # Absent, r.accountable, NEW i \in StatusHops(cset.chain)
        PROVE  Passed(r, i)
    BY <1>b, <2>1, <2>5 DEF Confined
  <2>6. Refused(q(read))
    <3>1. cset.host = "current" =>
            /\ deps.checker /\ (\E e \in r.card.revocation : e.statusListIndex \in r.started.bits) =>
                  ~ q(read).result.ok /\ q(read).result.level = "L1"
            /\ r.card.responsibleParty # Absent
               /\ (\E i \in StatusHops(cset.chain) : ~ HopClear(i, r.started.bits)) => ~ q(read).result.ok
      BY <2>2, <2>3, <2>4, <2>5 DEF Passed
    <3>2. deps.listProof =>
            /\ deps.checker /\ (\E e \in r.card.revocation : e.statusListIndex \in r.started.gone) =>
                  q(read).result.level # "L3"
            /\ r.card.responsibleParty # Absent
               /\ (\E i \in StatusHops(cset.chain) : ~ HopClear(i, r.started.gone)) =>
                  ~ (q(read).result.ok /\ q(read).result.level = "L3")
      BY <2>2, <2>3, <2>4, <2>5 DEF Passed
    <3> QED  BY <2>2, <3>1, <3>2 DEF Refused
  <2>7. Confined(q(read))
    BY <1>a, <2>2, <2>6 DEF Confined
  <2> QED  BY <2>1, <2>7
<1> QED  BY <1>1, <1>2, <1>3, <1>4

LEMMA ConfinedStep == CardTyped /\ FoundInv /\ ConfinedInv /\ [CardNext]_cardVars => ConfinedInv'
<1> SUFFICES ASSUME CardTyped, FoundInv, ConfinedInv, [CardNext]_cardVars PROVE ConfinedInv'
  OBVIOUS
<1>1. ASSUME NEW j \in Jobs, NEW q, job' = [job EXCEPT ![j] = q], Confined(q),
             UNCHANGED <<cset, ctime, statusList>>
      PROVE  ConfinedInv'
  <2>1. \A k \in Jobs : job'[k] = job[k] \/ job'[k] = q  BY <1>1 DEF CardTyped
  <2>2. \A r : Confined(r) => Confined(r)'
    BY <1>1 DEF Confined, Passed, Refused, HopClear, Gone, deps
  <2> QED  BY <1>1, <2>1, <2>2 DEF ConfinedInv
<1>2. ASSUME NEW j \in Jobs, NEW input \in cset.inputs, ResolveCard(j, input) PROVE ConfinedInv'
  <2>1. PICK q : SetOut(q, input) /\ job' = [job EXCEPT ![j] = q]  BY <1>2, ResolveSetsOut
  <2>2. /\ q.stage \in {"failed", "didDoc", "fetch", "capabilities", "bind", "proof"} /\ q.started.bits = statusList.bits
        /\ q.started.gone = Gone
    BY <2>1 DEF SetOut, Started
  <2>3. Confined(q)  BY <2>2 DEF Confined
  <2> QED  BY <1>1, <1>2, <2>1, <2>3 DEF ResolveCard
<1>3. ASSUME NEW j \in Jobs, FetchDidDoc(j) \/ FetchCard(j) \/ BindClient(j) PROVE ConfinedInv'
  <2>1. PICK q : /\ job' = [job EXCEPT ![j] = q] /\ UNCHANGED <<cset, ctime, statusList>>
                 /\ q.started = job[j].started /\ q.stage \in {"failed", "fetch", "capabilities"}
    BY <1>3, FetchKeeps DEF JobFields
  <2>2. Confined(q)  BY <2>1 DEF ConfinedInv, Confined
  <2> QED  BY <1>1, <2>1, <2>2
<1>4. ASSUME NEW j \in Jobs,
             \/ CheckCapabilities(j) \/ BeginProof(j) \/ ResolveKey(j) \/ AssertDidMembership(j)
             \/ CheckClaims(j) \/ ConsumeNonce(j)
      PROVE  ConfinedInv'
  <2>1. PICK q : /\ job' = [job EXCEPT ![j] = q] /\ UNCHANGED <<cset, ctime, statusList>>
                 /\ q.started = job[j].started
                 /\ q.stage \in {"proof", "key", "membership", "claims", "nonce", "accountability"}
    BY <1>4, ConfinedEarlier
  <2>2. Confined(q)  BY <2>1 DEF ConfinedInv, Confined
  <2> QED  BY <1>1, <2>1, <2>2
<1>5. ASSUME NEW j \in Jobs, CheckAccountability(j) \/ CheckHop(j) \/ CheckAttestations(j) \/ CheckCardRevocation(j)
      PROVE  ConfinedInv'
  BY <1>1, <1>5, ConfinedLater
<1>6. ASSUME HolderStep PROVE ConfinedInv'
  <2>1. /\ UNCHANGED <<cset, job>> /\ ctime' \in Nat /\ ctime' >= ctime /\ statusList.bits \subseteq statusList'.bits
        /\ Gone \subseteq Gone'
    BY <1>6, HolderStepKeeps
  <2>2. ASSUME NEW r, Confined(r) PROVE Confined(r)'
    <3>1. (\E t \in Nat : t <= ctime /\ validateDelegationChain(cset.chain, cset.ctx, t)) =>
            \E t \in Nat : t <= ctime' /\ validateDelegationChain(cset.chain, cset.ctx, t)
      BY <2>1 DEF CardTyped
    <3> QED  BY <2>1, <2>2, <3>1 DEF Confined, Passed, Refused, HopClear, deps
  <2> QED  BY <2>1, <2>2 DEF ConfinedInv
<1>7. CASE UNCHANGED cardVars
  BY <1>7 DEF cardVars, ConfinedInv, Confined, Passed, Refused, HopClear, Gone, deps
<1> QED  BY <1>2, <1>3, <1>4, <1>5, <1>6, <1>7, JobStepCases DEF CardNext, HolderStep, LateStep

LEMMA ConfinedHolds == CardSpec => []ConfinedInv
<1> QED  BY CardTypedHolds, FoundHolds, ConfinedInit, ConfinedStep, PTL DEF CardSpec

LEMMA ConfinedFollows == CardTyped /\ ConfinedInv => RevokedCardRefused /\ ChainConfines
<1> SUFFICES ASSUME CardTyped, ConfinedInv PROVE RevokedCardRefused /\ ChainConfines
  OBVIOUS
<1>1. RevokedCardRefused
  <2> SUFFICES ASSUME NEW j \in Jobs, job[j].stage = "done", job[j].input # "request",
                      NEW r, r = job[j], Refused(r)
               PROVE  LET Listed(bits) == deps.checker /\ \E e \in r.card.revocation : e.statusListIndex \in bits
                          ChainListed(bits) == r.card.responsibleParty # Absent
                             /\ \E i \in 1..Len(cset.chain) : \E s \in cset.chain[i].status : s.statusListIndex \in bits
                      IN /\ cset.host = "current" =>
                              /\ Listed(r.started.bits) => ~ r.result.ok /\ r.result.level = "L1"
                              /\ ChainListed(r.started.bits) => ~ r.result.ok
                         /\ deps.listProof =>
                              /\ Listed(r.started.gone) => r.result.level # "L3"
                              /\ ChainListed(r.started.gone) => ~ (r.result.ok /\ r.result.level = "L3")
    BY DEF RevokedCardRefused, ConfinedInv, Confined
  <2>1. \A bits : (\E i \in 1..Len(cset.chain) : \E s \in cset.chain[i].status : s.statusListIndex \in bits) =>
           \E i \in StatusHops(cset.chain) : ~ HopClear(i, bits)
    BY DEF StatusHops, HopClear
  <2> QED  BY <2>1 DEF Refused
<1>2. ChainConfines
  <2> SUFFICES ASSUME NEW j \in Jobs, job[j].stage \in {"hops", "attestations"},
                      job[j].card.responsibleParty # Absent, job[j].accountable,
                      NEW use \in Uses, use.at >= ctime, Permits(cset.chain[Len(cset.chain)], use),
                      NEW i \in 1..Len(cset.chain)
               PROVE  Permits(cset.chain[i], use)
    BY DEF ChainConfines
  <2>1. PICK t \in Nat : t <= ctime /\ validateDelegationChain(cset.chain, cset.ctx, t)
    BY DEF ConfinedInv, Confined
  <2>2. use.at >= t  BY <2>1, CardAssumption DEF CardTyped
  <2> QED  BY <2>1, <2>2, ChainConfinesUse
<1> QED  BY <1>1, <1>2

\* A card that is accepted stands, however its subject, its issuer and the fetches
\* interleave with the verification (resolveCard, verifyCard).
THEOREM AcceptedCardStands == CardSpec => []CardStands
<1>1. CardTyped /\ FoundInv /\ ConfinedInv => CardStands
  BY FoundIsTheDids, ConfinedFollows DEF CardStands
<1> QED  BY <1>1, CardTypedHolds, FoundHolds, ConfinedHolds, PTL

\* A delegation chain that was accepted confines its leaf (evaluateDelegationChain).
THEOREM ChainsConfine == CardSpec => []ChainConfines
<1> QED  BY ConfinedFollows, CardTypedHolds, ConfinedHolds, PTL

-----------------------------------------------------------------------------
(* What assurance rests on.                                                *)

\* The keys the holder published since the call began.
PublishedSince(r) == r.started.keys \cup {ckeys[k] : k \in DOMAIN ckeys}

\* The holder's keys; who began before a rotation has seen the key it replaced.
KeysSound ==
    /\ \A k \in DOMAIN ckeys : k.did = Holder
    /\ \A k \in DOMAIN ckeys, j \in Jobs :
          ckeys[k].name # "new" /\ job[j].stage # "idle" => ckeys[k] \in job[j].started.keys

\* The holder signed the proof of a call, for this request and this audience.
Signed(r) ==
    LET proof == Only(r.proof) IN
    /\ proof.jws.over.requestHash = computeRequestHash(cset.request)
    /\ proof.jws.over.audience = deps.audience
    /\ proof.jws.over.nonce = proof.nonce /\ proof.jws.over.did = proof.did
    /\ proof.did = Holder
    /\ proof.jws.key \in PublishedSince(r)
    /\ proof.expires - proof.created <= MaxTtlSec
    /\ r.level \in {"L3", "L3-minus"} /\ (r.level = "L3" => deps.tokenCnf = Some(proof.jws.key))

AllAttested(r) == \A c \in Range(r.card.capabilities) : \E vc \in c.attestations : vc.trusted

\* What is known at each stage of the proof, of the capabilities and of the statuses.
Proven(r) ==
    LET proof == Only(r.proof) IN
    /\ r.started.nonces \subseteq nonces
    /\ r.stage \in {"key", "membership"} /\ r.clean => proof.kid.did = proof.did
    /\ r.stage = "membership" /\ ~ deps.didKeys => Only(r.key) \in PublishedSince(r) /\ proof.kid.did = Holder
    /\ r.stage = "claims" /\ r.clean => Only(r.key) \in PublishedSince(r) /\ proof.did = Holder
    /\ r.stage = "nonce" => Signed(r)
    /\ r.proofOk => /\ Signed(r) /\ <<proof.did, proof.nonce>> \in nonces \ r.started.nonces
                    /\ r.stage \in {"accountability", "hops", "attestations", "revocation", "done"}
    /\ r.verified # {} /\ r.unverified = {} => AllAttested(r)
    /\ r.stage \in EarlyStages \cup {"capabilities"} => r.verified = {}
    /\ r.fresh /\ r.stage # "done" => \A s \in r.seen : s.live
    /\ r.stage \notin {"hops", "attestations", "revocation", "done"} => r.seen = {}
    /\ r.result.level = "L3" => r.stage = "done" /\ r.proofOk /\ AllAttested(r) /\ \A s \in r.seen : s.live
    /\ r.result.gate = "ok" => /\ r.stage = "done" /\ r.proofOk
                               /\ deps.minLevel = Some("L3") => deps.tokenCnf = Some(proof.jws.key)

\* No proof is accepted twice.
NonceOnce ==
    \A i, j \in Jobs : i # j /\ job[i].proofOk /\ job[j].proofOk =>
        Only(job[i].proof).nonce # Only(job[j].proof).nonce

ProvenInv == KeysSound /\ NonceOnce /\ \A j \in Jobs : Proven(job[j])

LEMMA ProvenInit == CardInit => ProvenInv
<1> SUFFICES ASSUME CardInit PROVE ProvenInv
  OBVIOUS
<1>1. \A j \in Jobs : job[j] = NoJob  BY DEF CardInit
<1>2. Proven(NoJob)
  BY DEF Proven, NoJob, NoResult, CardInit, EarlyStages
<1>3. KeysSound
  BY <1>1, CardAssumption DEF KeysSound, CardInit, NoJob, SettingSound
<1>4. NonceOnce  BY <1>1 DEF NonceOnce, NoJob
<1> QED  BY <1>1, <1>2, <1>3, <1>4 DEF ProvenInv

\* The capabilities, the presentation of the proof and its key.
LEMMA ProvenBegins ==
    ASSUME CardTyped, ProvenInv, NEW j \in Jobs,
           CheckCapabilities(j) \/ BeginProof(j) \/ ResolveKey(j) \/ AssertDidMembership(j) \/ CheckClaims(j)
    PROVE  \E q : /\ job' = [job EXCEPT ![j] = q] /\ Proven(q) /\ ~ q.proofOk
                  /\ q.started = job[j].started /\ job[j].stage # "idle"
                  /\ UNCHANGED <<cset, ckeys, nonces>>
<1> DEFINE r == job[j]
           Same(q, F) == \A f \in JobFields \ F : q[f] = r[f]
           Good(q) == Proven(q) /\ ~ q.proofOk /\ q.started = r.started
<1>0. IsJob(r) /\ Proven(r)  BY DEF CardTyped, ProvenInv
<1> SUFFICES /\ \E q : job' = [job EXCEPT ![j] = q] /\ Good(q)
             /\ r.stage # "idle" /\ UNCHANGED World /\ UNCHANGED nonces
  BY DEF World
<1>1. CASE CheckCapabilities(j)
  <2> DEFINE good == {c \in Range(r.card.capabilities) :
                        \E vc \in c.attestations : vc.trusted /\ vc.index \notin statusList.bits}
             names == {c.name : c \in good}
             others == {c.name : c \in Range(r.card.capabilities) \ good}
             all == capabilityNames(r.card.capabilities)
             q1 == [r EXCEPT !.stage = "proof", !.verified = names, !.unverified = others]
             q2 == [r EXCEPT !.stage = "proof", !.unverified = all]
  <2>1. /\ job' = [job EXCEPT ![j] = IF deps.capabilities THEN q1 ELSE q2]
        /\ UNCHANGED World /\ UNCHANGED nonces /\ r.stage = "capabilities"
    BY <1>1 DEF CheckCapabilities
  <2>2. others = {} => AllAttested(r)
    <3>1. ASSUME others = {}, NEW c \in Range(r.card.capabilities)
          PROVE  \E vc \in c.attestations : vc.trusted
      <4>1. c \in good
        <5> HIDE DEF good
        <5>1. c \notin good => c.name \in others  OBVIOUS
        <5> HIDE DEF others
        <5> QED  BY <3>1, <5>1
      <4> QED  BY <4>1
    <3> HIDE DEF others, good
    <3> QED  BY <3>1 DEF AllAttested
  <2>3. /\ q1.stage = "proof" /\ q1.verified = names /\ q1.unverified = others
        /\ Same(q1, {"stage", "verified", "unverified"})
    BY <1>0 DEF IsJob, JobFields
  <2>4. q2.stage = "proof" /\ Same(q2, {"stage", "unverified"})
    BY <1>0 DEF IsJob, JobFields
  <2> HIDE DEF q1, q2, names, others, all
  <2>5. Good(q1)
    BY <1>0, <2>1, <2>2, <2>3 DEF Proven, AllAttested, Signed, EarlyStages, JobFields
  <2>6. Good(q2)
    BY <1>0, <2>1, <2>4 DEF Proven, AllAttested, Signed, EarlyStages, JobFields
  <2> QED  BY <2>1, <2>5, <2>6
<1>2. CASE BeginProof(j)
  <2> DEFINE q1 == [r EXCEPT !.stage = "accountability",
                             !.result.gate = IF r.input = "request" THEN "proof_missing" ELSE "none"]
             q2 == [r EXCEPT !.stage = "accountability", !.clean = FALSE]
             q3(p) == [r EXCEPT !.stage = "key", !.proof = p, !.clean = (Only(p).kid.did = Only(p).did)]
  <2>1. PICK p :
          /\ job' = [job EXCEPT ![j] = q1] \/ job' = [job EXCEPT ![j] = q2] \/ job' = [job EXCEPT ![j] = q3(p)]
          /\ UNCHANGED World /\ UNCHANGED nonces /\ r.stage = "proof"
    BY <1>2 DEF BeginProof
  <2>2. q1.stage = "accountability" /\ q1.result.gate # "ok" /\ q1.result.level = r.result.level
        /\ Same(q1, {"stage", "result"})
    BY <1>0 DEF IsJob, JobFields
  <2>3. q2.stage = "accountability" /\ Same(q2, {"stage", "clean"})
    BY <1>0 DEF IsJob, JobFields
  <2>4. q3(p).stage = "key" /\ q3(p).proof = p /\ (q3(p).clean => Only(p).kid.did = Only(p).did)
        /\ Same(q3(p), {"stage", "proof", "clean"})
    BY <1>0 DEF IsJob, JobFields
  <2> HIDE DEF q1, q2, q3
  <2>5. Good(q1)
    BY <1>0, <2>1, <2>2 DEF Proven, AllAttested, Signed, EarlyStages, JobFields
  <2>6. Good(q2)
    BY <1>0, <2>1, <2>3 DEF Proven, AllAttested, Signed, EarlyStages, JobFields
  <2>7. Good(q3(p))
    BY <1>0, <2>1, <2>4 DEF Proven, AllAttested, Signed, EarlyStages, JobFields
  <2> QED  BY <2>1, <2>5, <2>6, <2>7
<1>3. CASE ResolveKey(j)
  <2> DEFINE proof == Only(r.proof)
             found == {ckeys[k] : k \in {kid \in DOMAIN ckeys : kid = proof.kid}}
                      \cup (IF deps.didKeys THEN cset.stored ELSE {})
             q1(key) == [r EXCEPT !.stage = "membership", !.key = Some(key)]
             q2 == [r EXCEPT !.stage = "claims", !.clean = FALSE]
  <2>1. /\ (\E key \in found : job' = [job EXCEPT ![j] = q1(key)]) \/ job' = [job EXCEPT ![j] = q2]
        /\ UNCHANGED World /\ UNCHANGED nonces /\ r.stage = "key"
    BY <1>3 DEF ResolveKey
  <2>2. ASSUME NEW key \in found PROVE Good(q1(key))
    <3>1. q1(key).stage = "membership" /\ Only(q1(key).key) = key /\ Same(q1(key), {"stage", "key"})
      BY <1>0, OnlySome DEF IsJob, JobFields
    <3>2. ~ deps.didKeys => key \in {ckeys[k] : k \in DOMAIN ckeys} /\ proof.kid.did = Holder
      BY <2>2 DEF ProvenInv, KeysSound
    <3> HIDE DEF q1, found
    <3> QED  BY <1>0, <2>1, <3>1, <3>2 DEF Proven, AllAttested, Signed, PublishedSince, EarlyStages, JobFields
  <2>3. q2.stage = "claims" /\ ~ q2.clean /\ Same(q2, {"stage", "clean"})
    BY <1>0 DEF IsJob, JobFields
  <2> HIDE DEF q1, q2, found
  <2>4. Good(q2)
    BY <1>0, <2>1, <2>3 DEF Proven, AllAttested, Signed, EarlyStages, JobFields
  <2> QED  BY <2>1, <2>2, <2>4
<1>4. CASE AssertDidMembership(j)
  <2> DEFINE m == MembershipOk(Only(r.key), Only(r.proof).did)
             q == [r EXCEPT !.stage = "claims", !.clean = @ /\ m]
  <2>1. job' = [job EXCEPT ![j] = q] /\ UNCHANGED World /\ UNCHANGED nonces /\ r.stage = "membership"
    BY <1>4 DEF AssertDidMembership
  <2>2. q.stage = "claims" /\ (q.clean => r.clean /\ m) /\ Same(q, {"stage", "clean"})
    BY <1>0 DEF IsJob, JobFields
  <2>3. r.clean /\ m => Only(r.key) \in PublishedSince(r) /\ Only(r.proof).did = Holder
    BY <1>0, <2>1 DEF Proven, MembershipOk, PublishedSince
  <2> HIDE DEF q, m
  <2>4. Good(q)
    BY <1>0, <2>1, <2>2, <2>3 DEF Proven, AllAttested, Signed, PublishedSince, EarlyStages, JobFields
  <2> QED  BY <2>1, <2>4
<1>5. CASE CheckClaims(j)
  <2> DEFINE proof == Only(r.proof)
             key == Only(r.key)
             level == CnfLevel(proof, key, deps.tokenCnf)
             ok == r.clean /\ r.key # Absent /\ ClaimsOk(proof, key)
             q1 == [r EXCEPT !.stage = "nonce", !.level = level]
             q2 == [r EXCEPT !.stage = "accountability", !.clean = FALSE]
  <2>1. /\ job' = [job EXCEPT ![j] = IF ok THEN q1 ELSE q2]
        /\ UNCHANGED World /\ UNCHANGED nonces /\ r.stage = "claims"
    BY <1>5 DEF CheckClaims
  <2>2. q1.stage = "nonce" /\ q1.level = level /\ Same(q1, {"stage", "level"})
    BY <1>0 DEF IsJob, JobFields
  <2>3. q2.stage = "accountability" /\ ~ q2.clean /\ Same(q2, {"stage", "clean"})
    BY <1>0 DEF IsJob, JobFields
  <2>4. level \in {"L3", "L3-minus"} /\ (level = "L3" => deps.tokenCnf = Some(key))
    BY DEF CnfLevel
  <2>5. ok => /\ proof.jws.over = coveredClaims(proof) /\ proof.jws.key = key
              /\ proof.requestHash = computeRequestHash(cset.request) /\ proof.audience = deps.audience
              /\ proof.expires - proof.created <= MaxTtlSec
              /\ key \in PublishedSince(r) /\ proof.did = Holder
    BY <1>0, <2>1 DEF ClaimsOk, verifyDetachedJws, checkWindow, Proven
  <2>6. coveredClaims(proof).requestHash = proof.requestHash /\ coveredClaims(proof).audience = proof.audience
        /\ coveredClaims(proof).nonce = proof.nonce /\ coveredClaims(proof).did = proof.did
    BY DEF coveredClaims
  <2> HIDE DEF q1, q2, level, ok, key
  <2>7. ok => Signed(q1)
    BY <2>2, <2>4, <2>5, <2>6 DEF Signed, PublishedSince, JobFields
  <2>8. ok => Good(q1)
    BY <1>0, <2>1, <2>2, <2>7 DEF Proven, AllAttested, EarlyStages, JobFields
  <2>9. Good(q2)
    BY <1>0, <2>1, <2>3 DEF Proven, AllAttested, EarlyStages, JobFields
  <2> QED  BY <2>1, <2>8, <2>9
<1> QED  BY <1>1, <1>2, <1>3, <1>4, <1>5

\* The nonce is consumed: no other call had it.
LEMMA ProvenNonce ==
    ASSUME CardTyped, ProvenInv, NEW j \in Jobs, ConsumeNonce(j)
    PROVE  ProvenInv'
<1> SUFFICES ASSUME NEW r, r = job[j], NEW proof, proof = Only(r.proof),
                    NEW q1, q1 = [r EXCEPT !.stage = "accountability", !.proofOk = TRUE],
                    NEW q2, q2 = [r EXCEPT !.stage = "accountability", !.clean = FALSE]
             PROVE  ProvenInv'
  OBVIOUS
<1> DEFINE pair == <<proof.did, proof.nonce>>
           Same(q, F) == \A f \in JobFields \ F : q[f] = r[f]
<1>0. IsJob(r) /\ Proven(r) /\ DOMAIN job = Jobs  BY DEF CardTyped, ProvenInv
<1>1. /\ r.stage = "nonce" /\ UNCHANGED World
      /\ \/ job' = [job EXCEPT ![j] = q1] /\ pair \notin nonces /\ nonces' = nonces \cup {pair}
         \/ job' = [job EXCEPT ![j] = q2] /\ UNCHANGED nonces
  BY DEF ConsumeNonce
<1>2. q1.stage = "accountability" /\ q1.proofOk /\ Same(q1, {"stage", "proofOk"})
  BY <1>0 DEF IsJob, JobFields
<1>3. q2.stage = "accountability" /\ ~ q2.clean /\ Same(q2, {"stage", "clean"})
  BY <1>0 DEF IsJob, JobFields
<1>4. \A x : x.started = r.started => PublishedSince(x)' = PublishedSince(r)
  BY <1>1 DEF PublishedSince, World
<1>5. nonces \subseteq nonces' /\ UNCHANGED <<cset, ckeys>>  BY <1>1 DEF World
<1>6. ASSUME NEW x, Proven(x) PROVE Proven(x)'
  <2>1. Signed(x) => Signed(x)'  BY <1>5 DEF Signed, PublishedSince, deps
  <2> QED  BY <1>5, <1>6, <2>1 DEF Proven, AllAttested, PublishedSince, deps
<1>7. ~ r.proofOk /\ Signed(r) /\ r.started.nonces \subseteq nonces
  BY <1>0, <1>1 DEF Proven
<1>8. KeysSound'
  <2>1. \A k \in Jobs : job'[k].started = job[k].started /\ (job[k].stage = "idle" => job'[k].stage = "idle")
    BY <1>0, <1>1, <1>2, <1>3 DEF JobFields
  <2> QED  BY <1>5, <2>1 DEF ProvenInv, KeysSound
<1>9. CASE job' = [job EXCEPT ![j] = q1] /\ pair \notin nonces /\ nonces' = nonces \cup {pair}
  <2>1. job'[j] = q1 /\ \A k \in Jobs \ {j} : job'[k] = job[k]  BY <1>0, <1>9
  <2>2. Signed(q1)'
    BY <1>2, <1>5, <1>7 DEF Signed, PublishedSince, deps, JobFields
  <2>3. pair \in nonces' \ r.started.nonces  BY <1>7, <1>9
  <2>4. Proven(q1)'
    BY <1>0, <1>1, <1>2, <1>5, <2>2, <2>3 DEF Proven, AllAttested, EarlyStages, deps, JobFields
  <2>5. ASSUME NEW k \in Jobs \ {j}, job[k].proofOk PROVE Only(job[k].proof).nonce # proof.nonce
    <3>1. /\ Only(job[k].proof).did = Holder
          /\ <<Only(job[k].proof).did, Only(job[k].proof).nonce>> \in nonces
      BY <2>5 DEF ProvenInv, Proven, Signed
    <3>2. proof.did = Holder  BY <1>7 DEF Signed
    <3> QED  BY <1>9, <3>1, <3>2
  <2>6. NonceOnce'
    <3>1. Only(q1.proof) = proof  BY <1>2 DEF JobFields
    <3>2. SUFFICES ASSUME NEW i \in Jobs, NEW k \in Jobs, i # k, job'[i].proofOk, job'[k].proofOk
                   PROVE  Only(job'[i].proof).nonce # Only(job'[k].proof).nonce
      BY DEF NonceOnce
    <3>3. CASE i = j
      <4>1. job'[i] = q1 /\ job'[k] = job[k] /\ k \in Jobs \ {j}  BY <2>1, <3>2, <3>3
      <4> QED  BY <2>5, <3>1, <3>2, <4>1
    <3>4. CASE k = j
      <4>1. job'[k] = q1 /\ job'[i] = job[i] /\ i \in Jobs \ {j}  BY <2>1, <3>2, <3>4
      <4> QED  BY <2>5, <3>1, <3>2, <4>1
    <3>5. CASE i # j /\ k # j
      <4>1. job'[i] = job[i] /\ job'[k] = job[k]  BY <2>1, <3>5
      <4> QED  BY <3>2, <4>1 DEF ProvenInv, NonceOnce
    <3> QED  BY <3>3, <3>4, <3>5
  <2>7. \A k \in Jobs : Proven(job[k])'
    BY <1>6, <2>1, <2>4 DEF ProvenInv
  <2> QED  BY <1>8, <2>6, <2>7 DEF ProvenInv
<1>10. CASE job' = [job EXCEPT ![j] = q2] /\ UNCHANGED nonces
  <2>1. job'[j] = q2 /\ \A k \in Jobs \ {j} : job'[k] = job[k]  BY <1>0, <1>10
  <2>2. Proven(q2)
    BY <1>0, <1>1, <1>3 DEF Proven, AllAttested, Signed, EarlyStages, JobFields
  <2>3. NonceOnce'
    <3>1. ~ q2.proofOk  BY <1>3, <1>7 DEF JobFields
    <3>2. SUFFICES ASSUME NEW i \in Jobs, NEW k \in Jobs, i # k, job'[i].proofOk, job'[k].proofOk
                   PROVE  Only(job'[i].proof).nonce # Only(job'[k].proof).nonce
      BY DEF NonceOnce
    <3>3. job'[i] = job[i] /\ job'[k] = job[k]  BY <2>1, <3>1, <3>2
    <3> QED  BY <3>2, <3>3 DEF ProvenInv, NonceOnce
  <2>4. \A k \in Jobs : Proven(job[k])'
    BY <1>6, <2>1, <2>2 DEF ProvenInv
  <2> QED  BY <1>8, <2>3, <2>4 DEF ProvenInv
<1> QED  BY <1>1, <1>9, <1>10

\* The delegation chain, the attestations and the card's own status.
LEMMA ProvenEnds ==
    ASSUME CardTyped, ProvenInv, NEW j \in Jobs,
           CheckAccountability(j) \/ CheckHop(j) \/ CheckAttestations(j) \/ CheckCardRevocation(j)
    PROVE  \E q : /\ job' = [job EXCEPT ![j] = q] /\ Proven(q)
                  /\ q.proofOk = job[j].proofOk /\ q.proof = job[j].proof
                  /\ q.started = job[j].started /\ job[j].stage # "idle"
                  /\ UNCHANGED <<cset, ckeys, nonces>>
<1> DEFINE r == job[j]
           Same(q, F) == \A f \in JobFields \ F : q[f] = r[f]
           Good(q) == Proven(q) /\ q.proofOk = r.proofOk /\ q.proof = r.proof /\ q.started = r.started
<1>0. IsJob(r) /\ Proven(r)  BY DEF CardTyped, ProvenInv
<1> SUFFICES /\ \E q : job' = [job EXCEPT ![j] = q] /\ Good(q)
             /\ r.stage # "idle" /\ UNCHANGED World /\ UNCHANGED nonces
  BY DEF World
<1>1. CASE CheckAccountability(j)
  <2> DEFINE q1 == [r EXCEPT !.stage = "done", !.result.gate = GateAnswer(r)]
             q2 == [r EXCEPT !.stage = "attestations"]
             q3 == [r EXCEPT !.stage = "attestations", !.accountable = FALSE]
             q4 == [r EXCEPT !.stage = "hops", !.hops = StatusHops(cset.chain),
                             !.fresh = (StatusHops(cset.chain) # {})]
  <2>1. /\ \/ job' = [job EXCEPT ![j] = q1] \/ job' = [job EXCEPT ![j] = q2]
           \/ job' = [job EXCEPT ![j] = q3] \/ job' = [job EXCEPT ![j] = q4]
        /\ UNCHANGED World /\ UNCHANGED nonces /\ r.stage = "accountability"
    BY <1>1 DEF CheckAccountability
  <2>2. GateAnswer(r) = "ok" =>
           r.proofOk /\ (deps.minLevel = Some("L3") => deps.tokenCnf = Some(Only(r.proof).jws.key))
    <3> SUFFICES ASSUME GateAnswer(r) = "ok"
                 PROVE  r.proofOk /\ (deps.minLevel = Some("L3") => deps.tokenCnf = Some(Only(r.proof).jws.key))
      OBVIOUS
    <3>1. r.proofOk /\ ~ (deps.minLevel # Absent /\ AssuranceRank[r.level] < AssuranceRank[Only(deps.minLevel)])
      BY DEF GateAnswer
    <3>2. Signed(r)  BY <1>0, <3>1 DEF Proven
    <3>3. AssuranceRank["L3"] = 2 /\ AssuranceRank["L3-minus"] = 1  BY DEF AssuranceRank
    <3>4. deps.minLevel = Some("L3") => deps.minLevel # Absent /\ Only(deps.minLevel) = "L3"
      BY OnlySome DEF Some, Absent
    <3> QED  BY <3>1, <3>2, <3>3, <3>4 DEF Signed
  <2>3. /\ q1.stage = "done" /\ q1.result.gate = GateAnswer(r) /\ q1.result.level = r.result.level
        /\ Same(q1, {"stage", "result"})
    BY <1>0 DEF IsJob, JobFields
  <2>4. q2.stage = "attestations" /\ Same(q2, {"stage"})
    BY <1>0 DEF IsJob, JobFields
  <2>5. q3.stage = "attestations" /\ Same(q3, {"stage", "accountable"})
    BY <1>0 DEF IsJob, JobFields
  <2>6. q4.stage = "hops" /\ Same(q4, {"stage", "hops", "fresh"})
    BY <1>0 DEF IsJob, JobFields
  <2> HIDE DEF q1, q2, q3, q4
  <2>7. Good(q1)
    BY <1>0, <2>1, <2>2, <2>3 DEF Proven, AllAttested, Signed, PublishedSince, EarlyStages, JobFields
  <2>8. Good(q2)
    BY <1>0, <2>1, <2>4 DEF Proven, AllAttested, Signed, PublishedSince, EarlyStages, JobFields
  <2>9. Good(q3)
    BY <1>0, <2>1, <2>5 DEF Proven, AllAttested, Signed, PublishedSince, EarlyStages, JobFields
  <2>10. Good(q4)
    BY <1>0, <2>1, <2>6 DEF Proven, AllAttested, Signed, PublishedSince, EarlyStages, JobFields
  <2> QED  BY <2>1, <2>7, <2>8, <2>9, <2>10
<1>2. CASE CheckHop(j)
  <2> DEFINE hop == Min(r.hops)
             entry == statusEntryOf(cset.chain[hop])
             q1 == [r EXCEPT !.stage = "attestations"]
             q2 == [r EXCEPT !.stage = "attestations", !.accountable = FALSE, !.fresh = FALSE]
             q3(read) == [r EXCEPT !.hops = @ \ {hop}, !.fresh = @ /\ read.fresh,
                                   !.seen = @ \cup {[index |-> entry.statusListIndex, live |-> read.fresh]}]
  <2>1. PICK read :
          /\ job' = [job EXCEPT ![j] = q1] \/ job' = [job EXCEPT ![j] = q2] \/ job' = [job EXCEPT ![j] = q3(read)]
          /\ UNCHANGED World /\ UNCHANGED nonces /\ r.stage = "hops"
    BY <1>2 DEF CheckHop
  <2>2. q1.stage = "attestations" /\ Same(q1, {"stage"})
    BY <1>0 DEF IsJob, JobFields
  <2>3. q2.stage = "attestations" /\ ~ q2.fresh /\ Same(q2, {"stage", "accountable", "fresh"})
    BY <1>0 DEF IsJob, JobFields
  <2>4. /\ (q3(read).fresh => r.fresh /\ read.fresh)
        /\ q3(read).seen = r.seen \cup {[index |-> entry.statusListIndex, live |-> read.fresh]}
        /\ Same(q3(read), {"hops", "fresh", "seen"})
    BY <1>0 DEF IsJob, JobFields
  <2> HIDE DEF q1, q2, q3, hop, entry
  <2>5. Good(q1)
    BY <1>0, <2>1, <2>2 DEF Proven, AllAttested, Signed, PublishedSince, EarlyStages, JobFields
  <2>6. Good(q2)
    BY <1>0, <2>1, <2>3 DEF Proven, AllAttested, Signed, PublishedSince, EarlyStages, JobFields
  <2>7. Good(q3(read))
    BY <1>0, <2>1, <2>4 DEF Proven, AllAttested, Signed, PublishedSince, EarlyStages, JobFields
  <2> QED  BY <2>1, <2>5, <2>6, <2>7
<1>3. CASE CheckAttestations(j)
  <2> DEFINE a == \A x \in r.card.attestations : deps.attestations /\ x.vc.trusted
             q == [r EXCEPT !.stage = "revocation", !.attested = a]
  <2>1. job' = [job EXCEPT ![j] = q] /\ UNCHANGED World /\ UNCHANGED nonces /\ r.stage = "attestations"
    BY <1>3 DEF CheckAttestations
  <2>2. q.stage = "revocation" /\ Same(q, {"stage", "attested"})
    BY <1>0 DEF IsJob, JobFields
  <2> HIDE DEF q
  <2>3. Good(q)
    BY <1>0, <2>1, <2>2 DEF Proven, AllAttested, Signed, PublishedSince, EarlyStages, JobFields
  <2> QED  BY <2>1, <2>3
<1>4. CASE CheckCardRevocation(j)
  <2> DEFINE reads == IF deps.checker /\ r.card.revocation # Absent
                      THEN StatusReads(Only(r.card.revocation)) ELSE {[revoked |-> FALSE, fresh |-> TRUE]}
             extra(read) == {[index |-> e.statusListIndex, live |-> read.fresh] :
                                e \in IF deps.checker THEN r.card.revocation ELSE {}}
             q(read) == [r EXCEPT !.stage = "done", !.result = Verdict(r, read), !.seen = @ \cup extra(read)]
  <2>1. PICK read \in reads : /\ job' = [job EXCEPT ![j] = q(read)] /\ UNCHANGED World /\ UNCHANGED nonces
                              /\ r.stage = "revocation"
    BY <1>4 DEF CheckCardRevocation
  <2>2. /\ q(read).stage = "done" /\ q(read).result = Verdict(r, read) /\ q(read).seen = r.seen \cup extra(read)
        /\ Same(q(read), {"stage", "result", "seen"})
    BY <1>0 DEF IsJob, JobFields
  <2>3. \A s \in extra(read) : s.live = read.fresh
    OBVIOUS
  <2>4. /\ Verdict(r, read).gate = "none"
        /\ Verdict(r, read).level = "L3" =>
              r.proofOk /\ read.fresh /\ r.fresh /\ r.verified # {} /\ r.unverified = {}
    BY DEF Verdict, deriveConformanceLevel
  <2> HIDE DEF q, reads, extra
  <2>5. /\ q(read).fresh = r.fresh /\ q(read).verified = r.verified /\ q(read).unverified = r.unverified
        /\ q(read).card = r.card /\ q(read).started = r.started /\ q(read).proof = r.proof
        /\ q(read).proofOk = r.proofOk /\ q(read).level = r.level
    BY <2>2 DEF JobFields
  <2>6. /\ Verdict(r, read).level = "L3" => r.proofOk /\ AllAttested(r) /\ \A s \in q(read).seen : s.live
    BY <1>0, <2>1, <2>2, <2>3, <2>4 DEF Proven
  <2>7. Good(q(read))
    <3> SUFFICES ASSUME NEW x, x = q(read) PROVE Good(x)
      OBVIOUS
    <3>1. /\ x.stage = "done" /\ x.fresh = r.fresh /\ x.verified = r.verified /\ x.unverified = r.unverified
          /\ x.card = r.card /\ x.started = r.started /\ x.proof = r.proof
          /\ x.proofOk = r.proofOk /\ x.level = r.level
          /\ x.result.level = Verdict(r, read).level /\ x.result.gate = "none"
      BY <2>2, <2>4, <2>5
    <3>2. Signed(r) => Signed(x)  BY <3>1 DEF Signed, PublishedSince
    <3>3. AllAttested(r) => AllAttested(x)  BY <3>1 DEF AllAttested
    <3>4. x.result.level = "L3" => r.proofOk /\ AllAttested(r) /\ \A s \in x.seen : s.live
      BY <2>6, <3>1
    <3> QED
      BY <1>0, <2>1, <3>1, <3>2, <3>3, <3>4 DEF Proven, EarlyStages
  <2> QED  BY <2>1, <2>7
<1> QED  BY <1>1, <1>2, <1>3, <1>4

\* A step of one call that consumes no nonce.
LEMMA ProvenJob ==
    ASSUME CardTyped, ProvenInv, NEW j \in Jobs, NEW q,
           job' = [job EXCEPT ![j] = q], Proven(q), UNCHANGED <<cset, ckeys, nonces>>,
           ~ q.proofOk \/ (q.proofOk = job[j].proofOk /\ q.proof = job[j].proof),
           \A k \in DOMAIN ckeys : ckeys[k].name # "new" => ckeys[k] \in q.started.keys
    PROVE  ProvenInv'
<1>1. job'[j] = q /\ \A k \in Jobs \ {j} : job'[k] = job[k]  BY DEF CardTyped
<1>2. ASSUME NEW x, Proven(x) PROVE Proven(x)'
  <2>1. Signed(x) => Signed(x)'  BY DEF Signed, PublishedSince, deps
  <2> QED  BY <1>2, <2>1 DEF Proven, AllAttested, PublishedSince, deps
<1>3. KeysSound'
  BY <1>1 DEF ProvenInv, KeysSound
<1>4. NonceOnce'
  <2>1. SUFFICES ASSUME NEW i \in Jobs, NEW k \in Jobs, i # k, job'[i].proofOk, job'[k].proofOk
                 PROVE  Only(job'[i].proof).nonce # Only(job'[k].proof).nonce
    BY DEF NonceOnce
  <2>2. \A x \in {i, k} : job[x].proofOk /\ job'[x].proof = job[x].proof
    BY <1>1, <2>1
  <2> QED  BY <2>1, <2>2 DEF ProvenInv, NonceOnce
<1>5. \A k \in Jobs : Proven(job[k])'
  BY <1>1, <1>2 DEF ProvenInv
<1> QED  BY <1>3, <1>4, <1>5 DEF ProvenInv

LEMMA ProvenStep == CardTyped /\ ProvenInv /\ [CardNext]_cardVars => ProvenInv'
<1> SUFFICES ASSUME CardTyped, ProvenInv, [CardNext]_cardVars PROVE ProvenInv'
  OBVIOUS
<1>0. ASSUME NEW j \in Jobs, job[j].stage # "idle"
      PROVE  \A k \in DOMAIN ckeys : ckeys[k].name # "new" => ckeys[k] \in job[j].started.keys
  BY <1>0 DEF ProvenInv, KeysSound
<1>1. ASSUME NEW j \in Jobs, NEW input \in cset.inputs, ResolveCard(j, input) PROVE ProvenInv'
  <2>1. PICK q : SetOut(q, input) /\ job' = [job EXCEPT ![j] = q]  BY <1>1, ResolveSetsOut
  <2>2. UNCHANGED <<cset, ckeys, nonces>>  BY <1>1 DEF ResolveCard
  <2>3. q.started.nonces = nonces /\ q.started.keys = {ckeys[k] : k \in DOMAIN ckeys}
    BY <2>1 DEF SetOut, Started
  <2>4. /\ ~ q.proofOk /\ q.verified = {} /\ q.seen = {} /\ q.result = NoResult
        /\ q.stage \in {"failed", "didDoc", "fetch", "capabilities", "bind", "proof"}
    BY <2>1 DEF SetOut, JobFields, NoJob
  <2>5. Proven(q)
    BY <2>3, <2>4 DEF Proven, NoResult, EarlyStages
  <2>6. \A k \in DOMAIN ckeys : ckeys[k] \in q.started.keys  BY <2>3
  <2> QED  BY <2>1, <2>2, <2>4, <2>5, <2>6, ProvenJob
<1>2. ASSUME NEW j \in Jobs, FetchDidDoc(j) \/ FetchCard(j) \/ BindClient(j) PROVE ProvenInv'
  <2>1. PICK q : /\ job' = [job EXCEPT ![j] = q]
                 /\ \A f \in JobFields \ {"stage", "url", "expected", "card"} : q[f] = job[j][f]
                 /\ q.stage \in {"failed", "fetch", "capabilities"} /\ job[j].stage \in {"didDoc", "fetch", "bind"}
                 /\ UNCHANGED <<cset, ckeys, nonces>>
    BY <1>2, FetchKeeps
  <2>2. Proven(job[j])  BY DEF ProvenInv
  <2>3. ~ job[j].proofOk /\ job[j].verified = {} /\ job[j].result.level # "L3" /\ job[j].result.gate # "ok"
        /\ job[j].seen = {}
    BY <2>1, <2>2 DEF Proven, EarlyStages
  <2>4. /\ q.started = job[j].started /\ q.proofOk = job[j].proofOk /\ q.verified = job[j].verified
        /\ q.result = job[j].result /\ q.seen = job[j].seen
    BY <2>1 DEF JobFields
  <2>5. Proven(q)
    BY <2>1, <2>2, <2>3, <2>4 DEF Proven, EarlyStages
  <2> QED  BY <1>0, <2>1, <2>3, <2>4, <2>5, ProvenJob
<1>3. ASSUME NEW j \in Jobs, LateStep(j) PROVE ProvenInv'
  <2>1. CASE CheckCapabilities(j) \/ BeginProof(j) \/ ResolveKey(j) \/ AssertDidMembership(j) \/ CheckClaims(j)
    BY <1>0, <2>1, ProvenBegins, ProvenJob
  <2>2. CASE ConsumeNonce(j)
    BY <2>2, ProvenNonce
  <2>3. CASE CheckAccountability(j) \/ CheckHop(j) \/ CheckAttestations(j) \/ CheckCardRevocation(j)
    BY <1>0, <2>3, ProvenEnds, ProvenJob
  <2> QED  BY <1>3, <2>1, <2>2, <2>3 DEF LateStep
<1>4. ASSUME HolderStep PROVE ProvenInv'
  <2>1. UNCHANGED <<cset, nonces, job>>  BY <1>4, HolderStepKeeps
  <2>2. /\ DOMAIN ckeys' = DOMAIN ckeys
        /\ \A k \in DOMAIN ckeys : ckeys'[k] = ckeys[k] \/ (ckeys[k].name # "new" /\ ckeys'[k].name = "new")
    <3>1. ASSUME NEW kid \in DOMAIN ckeys, RotateKey(kid)
          PROVE  /\ DOMAIN ckeys' = DOMAIN ckeys
                 /\ \A k \in DOMAIN ckeys :
                       ckeys'[k] = ckeys[k] \/ (ckeys[k].name # "new" /\ ckeys'[k].name = "new")
      <4> DEFINE fresh == [kty |-> "OKP", name |-> "new"]
      <4>1. ckeys' = [ckeys EXCEPT ![kid] = fresh] /\ ckeys[kid].name # "new" /\ fresh.name = "new"
        BY <3>1 DEF RotateKey
      <4> HIDE DEF fresh
      <4> QED  BY <4>1
    <3>2. (\E kid \in DOMAIN ckeys : RotateKey(kid)) \/ UNCHANGED ckeys
      BY <1>4 DEF HolderStep, MoveCard, ReviseCard, Revoke, ReissueList, CardTick
    <3> QED  BY <3>1, <3>2
  <2>3. KeysSound'
    BY <2>1, <2>2 DEF ProvenInv, KeysSound
  <2>4. NonceOnce'
    BY <2>1 DEF ProvenInv, NonceOnce
  <2>5. ASSUME NEW j \in Jobs PROVE Proven(job[j])'
    <3> SUFFICES ASSUME NEW r, r = job[j] PROVE Proven(r)'
      BY <2>1
    <3>1. Proven(r)  BY DEF ProvenInv
    <3>2. CASE r.stage = "idle"
      <4>1. ~ r.proofOk /\ r.verified = {} /\ r.result.level # "L3" /\ r.result.gate # "ok" /\ r.seen = {}
        BY <3>1, <3>2 DEF Proven, EarlyStages
      <4> QED  BY <2>1, <3>1, <3>2, <4>1 DEF Proven
    <3>3. CASE r.stage # "idle"
      <4>1. PublishedSince(r) \subseteq PublishedSince(r)'
        <5>1. SUFFICES ASSUME NEW k \in DOMAIN ckeys PROVE ckeys[k] \in PublishedSince(r)'
          BY <2>1 DEF PublishedSince
        <5>2. CASE ckeys'[k] = ckeys[k]
          BY <2>2, <5>2 DEF PublishedSince
        <5>3. CASE ckeys[k].name # "new"
          <6>1. ckeys[k] \in r.started.keys  BY <1>0, <3>3, <5>3
          <6> QED  BY <6>1 DEF PublishedSince
        <5> QED  BY <2>2, <5>2, <5>3
      <4>2. Signed(r) => Signed(r)'
        BY <2>1, <4>1 DEF Signed, deps
      <4>3. AllAttested(r)' = AllAttested(r) /\ deps' = deps  BY <2>1 DEF AllAttested, deps
      <4> HIDE DEF ProvenInv
      <4> QED  BY <2>1, <3>1, <4>1, <4>2, <4>3 DEF Proven
    <3> QED  BY <3>2, <3>3
  <2> QED  BY <2>3, <2>4, <2>5 DEF ProvenInv
<1>5. CASE UNCHANGED cardVars
  <2>1. UNCHANGED <<cset, ckeys, nonces, job>>  BY <1>5 DEF cardVars
  <2>2. KeysSound' /\ NonceOnce'  BY <2>1 DEF ProvenInv, KeysSound, NonceOnce
  <2>3. ASSUME NEW j \in Jobs PROVE Proven(job[j])'
    <3> SUFFICES ASSUME NEW r, r = job[j] PROVE Proven(r)'
      BY <2>1
    <3>1. Proven(r)  BY DEF ProvenInv
    <3>2. PublishedSince(r)' = PublishedSince(r) /\ deps' = deps /\ AllAttested(r)' = AllAttested(r)
      BY <2>1 DEF PublishedSince, deps, AllAttested
    <3>3. Signed(r) => Signed(r)'  BY <2>1, <3>2 DEF Signed
    <3> QED  BY <2>1, <3>1, <3>2, <3>3 DEF Proven
  <2> QED  BY <2>2, <2>3 DEF ProvenInv
<1> QED  BY <1>1, <1>2, <1>3, <1>4, <1>5, JobStepCases DEF CardNext, HolderStep

LEMMA ProvenHolds == CardSpec => []ProvenInv
<1> QED  BY CardTypedHolds, ProvenInit, ProvenStep, PTL DEF CardSpec

\* Level L3, or a pass of the request gate, was earned by a proof of the holder for this
\* request, with a key published since the verification began, used once
\* (verifyCardProof, deriveConformanceLevel, requireProof).
THEOREM AssuranceIsEarned == CardSpec => []AssuranceEarned
<1>1. ProvenInv => AssuranceEarned
  <2> SUFFICES ASSUME ProvenInv, NEW j \in Jobs, job[j].stage = "done",
                      NEW r, r = job[j], NEW proof, proof = Only(r.proof),
                      r.result.level = "L3" \/ r.result.gate = "ok"
               PROVE  /\ proof.jws.over.requestHash = computeRequestHash(cset.request)
                      /\ proof.jws.over.audience = deps.audience
                      /\ proof.jws.over.nonce = proof.nonce /\ proof.jws.over.did = proof.did
                      /\ proof.did = Holder
                      /\ proof.jws.key \in r.started.keys \cup {ckeys[k] : k \in DOMAIN ckeys}
                      /\ <<proof.did, proof.nonce>> \notin r.started.nonces
                      /\ proof.expires - proof.created <= MaxTtlSec
                      /\ \A q \in Jobs \ {j} : job[q].proofOk => Only(job[q].proof).nonce # proof.nonce
                      /\ r.result.level = "L3" =>
                           /\ \A c \in Range(r.card.capabilities) : \E vc \in c.attestations : vc.trusted
                           /\ \A s \in r.seen : s.live
                      /\ r.result.gate = "ok" /\ deps.minLevel = Some("L3") => deps.tokenCnf = Some(proof.jws.key)
    BY DEF AssuranceEarned
  <2>1. Proven(r)  BY DEF ProvenInv
  <2>2. r.proofOk  BY <2>1 DEF Proven
  <2>3. Signed(r) /\ <<proof.did, proof.nonce>> \notin r.started.nonces  BY <2>1, <2>2 DEF Proven
  <2>4. \A q \in Jobs \ {j} : job[q].proofOk => Only(job[q].proof).nonce # proof.nonce
    BY <2>2 DEF ProvenInv, NonceOnce
  <2>5. r.result.level = "L3" => AllAttested(r) /\ \A s \in r.seen : s.live  BY <2>1 DEF Proven
  <2>6. r.result.gate = "ok" /\ deps.minLevel = Some("L3") => deps.tokenCnf = Some(proof.jws.key)
    BY <2>1 DEF Proven
  <2> QED  BY <2>3, <2>4, <2>5, <2>6 DEF Signed, PublishedSince, AllAttested
<1> QED  BY <1>1, ProvenHolds, PTL
=============================================================================
