---------------------------- MODULE IpClassifier ----------------------------
(***************************************************************************)
(* The address policy of src/src/utils/ip-classifier.ts, and the one of    *)
(* providers/runtime-fetch.ts for address literals.  The text of an        *)
(* address is kept as far as the parsers tell texts apart: the dotted      *)
(* parts of an IPv4 address; the hextets of an IPv6 address on each side   *)
(* of "::", with a dotted tail if there is one.                            *)
(***************************************************************************)
EXTENDS Integers, Sequences, SequencesExt

NotAByte == 256     \* a part that is no integer from 0 to 255
BadHextet == -1     \* a group that is not one to four hexadecimal digits
MaxHextet == 65535
NoQuad == <<>>

V4(parts) == [family |-> 4, parts |-> parts]
V6(halves, quad) == [family |-> 6, halves |-> halves, quad |-> quad]

\* The texts of addresses, well formed or not.
AddressText(a) ==
    IF a.family = 4
    THEN a = V4(a.parts) /\ a.parts \in Seq(0..NotAByte)
    ELSE /\ a = V6(a.halves, a.quad)
         /\ a.halves \in Seq(Seq(BadHextet..MaxHextet)) /\ a.halves # <<>>
         /\ a.quad = NoQuad \/ a.quad \in [1..4 -> 0..NotAByte]

isBlockedIpv4(parts) ==
    \/ Len(parts) # 4
    \/ \E i \in 1..Len(parts) : parts[i] \notin 0..255
    \/ LET a == parts[1]  b == parts[2]  c == parts[3] IN
       \/ a \in {0, 10, 127} \/ a >= 224
       \/ a = 169 /\ b = 254
       \/ a = 172 /\ b \in 16..31
       \/ a = 192 /\ b = 168
       \/ a = 100 /\ b \in 64..127
       \/ a = 192 /\ b = 0 /\ c \in {0, 2}
       \/ a = 198 /\ b = 51 /\ c = 100
       \/ a = 203 /\ b = 0 /\ c = 113
       \/ a = 198 /\ b \in {18, 19}

NotIpv6 == <<>>

\* The hextets before "::", and those behind it with a dotted tail folded in.
GroupsBefore(text) == IF Len(text.halves) = 1 THEN <<>> ELSE text.halves[1]
GroupsBehind(text) ==
    text.halves[Len(text.halves)] \o
        (IF text.quad = NoQuad THEN <<>>
         ELSE <<text.quad[1] * 256 + text.quad[2], text.quad[3] * 256 + text.quad[4]>>)

\* The bytes of an IPv6 text, NotIpv6 if it is not well formed.
ipv6ToBytes(text) ==
    LET given == GroupsBefore(text) \o GroupsBehind(text)
        zeros == IF Len(text.halves) = 1 THEN <<>> ELSE [i \in 1..(8 - Len(given)) |-> 0]
        hextets == GroupsBefore(text) \o zeros \o GroupsBehind(text)
    IN IF \/ \E i \in 1..Len(text.quad) : text.quad[i] \notin 0..255
          \/ Len(text.halves) > 2
          \/ \E i \in 1..Len(given) : given[i] = BadHextet
          \/ Len(text.halves) = 2 /\ Len(given) > 7
          \/ Len(text.halves) = 1 /\ Len(given) # 8
       THEN NotIpv6
       ELSE [i \in 1..16 |-> IF i % 2 = 1 THEN hextets[(i + 1) \div 2] \div 256
                             ELSE hextets[i \div 2] % 256]

Zeros(bytes, from, to) == \A i \in from..to : bytes[i] = 0

\* The first clause that applies decides.
BlockedBytes(b) ==
    LET embedded == isBlockedIpv4(SubSeq(b, 13, 16))
        nat64 == b[1] = 0 /\ b[2] = 100 /\ b[3] = 255 /\ b[4] = 155
    IN IF Zeros(b, 1, 10) /\ b[11] = 255 /\ b[12] = 255 THEN embedded
       ELSE IF Zeros(b, 1, 15) /\ b[16] \in {0, 1} THEN TRUE
       ELSE IF \/ b[1] = 254 /\ b[2] \div 64 \in {2, 3}
               \/ b[1] \div 2 = 126
               \/ b[1] = 255 THEN TRUE
       ELSE IF nat64 /\ Zeros(b, 5, 12) THEN embedded
       ELSE IF nat64 /\ b[5] = 0 /\ b[6] = 1 THEN embedded
       ELSE IF b[1] = 32 /\ b[2] = 2 THEN isBlockedIpv4(SubSeq(b, 3, 6))
       ELSE IF b[1] = 32 /\ b[2] = 1 /\ b[3] = 0 /\ b[4] = 0 THEN TRUE
       ELSE IF Zeros(b, 1, 12) THEN embedded
       ELSE \/ b[1] = 32 /\ b[2] = 1 /\ b[3] = 13 /\ b[4] = 184
            \/ b[1] = 1 /\ b[2] = 0 /\ Zeros(b, 3, 8)

isBlockedIpv6(text) == ipv6ToBytes(text) = NotIpv6 \/ BlockedBytes(ipv6ToBytes(text))

isBlockedAddress(address) ==
    IF address.family = 6 THEN isBlockedIpv6(address) ELSE isBlockedIpv4(address.parts)

\* The host of a URL as a literal: NoLiteral for a domain name.  URL.hostname has
\* already put an IPv6 literal into its shortest form; fe80:, fc and fd are
\* prefixes of that text.
NoLiteral == V4(<<>>)

isPrivateOrLoopbackHost(literal) ==
    IF literal.family = 6
    THEN LET h == literal.halves IN
         \/ h \in {<<<<>>, <<>>>>, <<<<>>, <<1>>>>}
         \/ /\ h[1] # <<>>
            /\ h[1][1] \in {65152} \cup (64512..65023) \cup (4032..4063) \cup {252, 253}
    ELSE /\ Len(literal.parts) = 4
         /\ LET a == literal.parts[1]  b == literal.parts[2] IN
            \/ a \in {127, 10, 0}
            \/ a = 169 /\ b = 254
            \/ a = 192 /\ b = 168
            \/ a = 172 /\ b \in 16..31

-----------------------------------------------------------------------------
(* The reference the policy is checked against.                            *)

\* The special-purpose blocks of RFC 6890 and its successors, as prefixes.
Special4 ==
    {<<<<0>>, 8>>, <<<<10>>, 8>>, <<<<100, 64>>, 10>>, <<<<127>>, 8>>, <<<<169, 254>>, 16>>,
     <<<<172, 16>>, 12>>, <<<<192, 0, 0>>, 24>>, <<<<192, 0, 2>>, 24>>, <<<<192, 168>>, 16>>,
     <<<<198, 18>>, 15>>, <<<<198, 51, 100>>, 24>>, <<<<203, 0, 113>>, 24>>, <<<<224>>, 3>>}
Special6 ==
    {<<<<254, 128>>, 9>>, <<<<252>>, 7>>, <<<<255>>, 8>>, <<<<32, 1, 0, 0>>, 32>>,
     <<<<32, 1, 13, 184>>, 32>>, <<<<1, 0, 0, 0, 0, 0, 0, 0>>, 64>>}
\* Prefixes with the bits of an IPv4 address behind them.
Wrapped ==
    {<<<<0, 0, 0, 0, 0, 0, 0, 0, 0, 0, 0, 0>>, 96>>, <<<<0, 0, 0, 0, 0, 0, 0, 0, 0, 0, 255, 255>>, 96>>,
     <<<<0, 100, 255, 155, 0, 0, 0, 0, 0, 0, 0, 0>>, 96>>, <<<<0, 100, 255, 155, 0, 1>>, 48>>}

Powers == <<2, 4, 8, 16, 32, 64, 128>>

InPrefix(bytes, prefix) ==
    LET whole == prefix[2] \div 8  rest == prefix[2] % 8  part == Powers[8 - rest] IN
    /\ \A i \in 1..whole : bytes[i] = prefix[1][i]
    /\ rest # 0 => bytes[whole + 1] \div part = prefix[1][whole + 1] \div part

Public4(bytes) == ~ \E p \in Special4 : InPrefix(bytes, p)

\* What may be connected to: a global address that is not another way to write a
\* special-purpose one.
PublicUnicast(address) ==
    IF address.family = 4
    THEN Len(address.parts) = 4 /\ Range(address.parts) \subseteq 0..255 /\ Public4(address.parts)
    ELSE LET b == ipv6ToBytes(address) IN
         /\ b # NotIpv6
         /\ ~ \E p \in Special6 : InPrefix(b, p)
         /\ (\E p \in Wrapped : InPrefix(b, p)) => Public4(SubSeq(b, 13, 16))
         /\ InPrefix(b, <<<<32, 2>>, 16>>) => Public4(SubSeq(b, 3, 6))
=============================================================================
