-------------------------- MODULE RconFrameProofs ---------------------------
(***************************************************************************)
(* Proofs about frames, for every size of a byte and every limit on        *)
(* payloads: ReadFrom takes back what WriteTo wrote and not a byte more,   *)
(* and the packets writeResponse cuts a response into are of legal size    *)
(* and make up the response.  Then what the frames carry: the types of     *)
(* RconClient, what the client reads of an answer that the server has      *)
(* begun to write, and what the steps of the server do to the stream.      *)
(***************************************************************************)
EXTENDS RconClient, SequenceTheorems, TLAPS

(* Division and remainder by the radix. *)
LEMMA DivMod ==
    ASSUME NEW n \in Nat
    PROVE  /\ n \div Radix \in Nat /\ n % Radix \in Byte
           /\ n = Radix * (n \div Radix) + (n % Radix)
<1>1. Radix \in Nat /\ Radix > 0
  BY FramingAssumption
<1>2. n \div Radix \in Int /\ n % Radix \in 0..(Radix - 1)
  BY <1>1
<1>3. n = Radix * (n \div Radix) + (n % Radix)
  BY <1>1
<1>4. n \div Radix >= 0
  BY <1>1
<1> QED
  BY <1>2, <1>3, <1>4 DEF Byte

(* The product of bounds: a number that is at most n/Radix is below k when *)
(* n is below Radix * k.                                                   *)
LEMMA DivBound ==
    ASSUME NEW n \in Nat, NEW k \in Nat, n < Radix * k
    PROVE  n \div Radix < k
<1> DEFINE q == n \div Radix
<1>1. q \in Nat /\ Radix \in Nat /\ Radix >= 2 /\ Radix * q <= n
  BY DivMod, FramingAssumption DEF Byte
<1> HIDE DEF q
<1>2. ASSUME q >= k PROVE Radix * q >= Radix * k
  <2>1. PICK d \in Nat : q = k + d
    BY <1>1, <1>2
  <2>2. Radix * q = Radix * k + Radix * d /\ Radix * d >= 0
    BY <1>1, <2>1
  <2> QED
    BY <1>1, <2>2
<1>3. q < k
  BY <1>1, <1>2
<1> QED
  BY <1>3, Zenon DEF q

(* binary.LittleEndian: four bytes hold a uint32. *)
LEMMA WordRoundTrip ==
    ASSUME NEW n \in Nat, n < Word
    PROVE  PutUint32(n) \in Seq(Byte) /\ Len(PutUint32(n)) = 4 /\ Uint32(PutUint32(n)) = n
<1> DEFINE R == Radix
           a == n \div R
           b == a \div R
           c == b \div R
<1>1. R \in Nat /\ R >= 2
  BY FramingAssumption, Zenon
<1>2. a \in Nat /\ n % R \in Byte /\ n = R * a + (n % R)
  BY DivMod, Zenon
<1>3. b \in Nat /\ a % R \in Byte /\ a = R * b + (a % R)
  BY <1>2, DivMod, Zenon
<1>4. c \in Nat /\ b % R \in Byte /\ b = R * c + (b % R)
  BY <1>3, DivMod, Zenon
<1>5. a < R * R * R
  <2>1. R * R * R \in Nat /\ n < R * (R * R * R)
    BY <1>1 DEF Word
  <2> QED
    BY <2>1, DivBound, Zenon
<1>6. b < R * R
  <2>1. R * R \in Nat /\ a < R * (R * R)
    BY <1>1, <1>5
  <2> QED
    BY <1>2, <2>1, DivBound, Zenon
<1>7. c < R
  BY <1>1, <1>3, <1>6, DivBound, Zenon
<1>8. c % R = c /\ c \in Byte
  BY <1>1, <1>4, <1>7 DEF Byte
<1>9. PutUint32(n) = <<n % R, a % R, b % R, c>>
  BY <1>8, Zenon DEF PutUint32
<1> HIDE DEF a, b, c
<1>10. n = (n % R) + R * ((a % R) + R * ((b % R) + R * c))
  <2>1. b = (b % R) + R * c
    BY <1>1, <1>4 DEF Byte
  <2>2. a = (a % R) + R * b
    BY <1>1, <1>3 DEF Byte
  <2>3. n = (n % R) + R * a
    BY <1>1, <1>2 DEF Byte
  <2> QED
    BY <2>1, <2>2, <2>3, Zenon
<1> QED
  BY <1>2, <1>3, <1>4, <1>8, <1>9, <1>10 DEF Uint32

(* An int32 survives its conversion to uint32 and back. *)
LEMMA Int32RoundTrip ==
    ASSUME NEW i \in Int32
    PROVE  AsUint32(i) \in Nat /\ AsUint32(i) < Word /\ AsInt32(AsUint32(i)) = i
<1>1. Word \in Nat
  BY FramingAssumption DEF Word
<1> QED
  BY <1>1 DEF Int32, AsUint32, AsInt32

(* The elements of a concatenation. *)
LEMMA Joined ==
    ASSUME NEW s \in Seq(Byte), NEW t \in Seq(Byte)
    PROVE  /\ s \o t \in Seq(Byte) /\ Len(s \o t) = Len(s) + Len(t)
           /\ Len(s) \in Nat /\ Len(t) \in Nat
           /\ \A i \in 1..Len(s) : (s \o t)[i] = s[i]
           /\ \A i \in 1..Len(t) : (s \o t)[Len(s) + i] = t[i]
<1>1. Len(s) \in Nat /\ Len(t) \in Nat
  BY LenProperties, Zenon
<1>2. /\ s \o t \in Seq(Byte) /\ Len(s \o t) = Len(s) + Len(t)
      /\ \A i \in 1..Len(s) + Len(t) : (s \o t)[i] = IF i <= Len(s) THEN s[i] ELSE t[i - Len(s)]
  BY ConcatProperties, Zenon
<1>3. ASSUME NEW i \in 1..Len(t) PROVE (s \o t)[Len(s) + i] = t[i]
  <2>1. Len(s) + i \in 1..Len(s) + Len(t) /\ ~(Len(s) + i <= Len(s)) /\ Len(s) + i - Len(s) = i
    BY <1>1
  <2> QED
    BY <1>2, <2>1
<1>4. ASSUME NEW i \in 1..Len(s) PROVE (s \o t)[i] = s[i]
  <2>1. i \in 1..Len(s) + Len(t) /\ i <= Len(s)
    BY <1>1
  <2> QED
    BY <1>2, <2>1, Zenon
<1> QED
  BY <1>1, <1>2, <1>3, <1>4, Zenon

(* Holds(s, k, t): after its first k bytes s goes on with t. *)
Holds(s, k, t) ==
    /\ k \in Nat /\ k + Len(t) <= Len(s)
    /\ \A i \in 1..Len(t) : s[k + i] = t[i]

(* Cat is concatenation, as a name the provers leave alone. *)
Cat(s, t) == s \o t

(* A stream holds what has been written to it, and what it held before. *)
LEMMA CatHolds ==
    ASSUME NEW s \in Seq(Byte), NEW t \in Seq(Byte)
    PROVE  /\ Cat(s, t) \in Seq(Byte) /\ Len(Cat(s, t)) = Len(s) + Len(t)
           /\ Holds(Cat(s, t), Len(s), t)
           /\ \A k, u : u \in Seq(Byte) /\ Holds(s, k, u) => Holds(Cat(s, t), k, u)
<1> DEFINE w == Cat(s, t)
<1>1. /\ w \in Seq(Byte) /\ Len(w) = Len(s) + Len(t)
      /\ Len(s) \in Nat /\ Len(t) \in Nat
      /\ \A i \in 1..Len(s) : w[i] = s[i]
      /\ \A i \in 1..Len(t) : w[Len(s) + i] = t[i]
  BY Joined, Zenon DEF Cat
<1> HIDE DEF w
<1>2. Holds(w, Len(s), t)
  BY <1>1 DEF Holds
<1>3. ASSUME NEW k, NEW u \in Seq(Byte), Holds(s, k, u) PROVE Holds(w, k, u)
  <2>1. Len(u) \in Nat /\ k \in Nat
    BY <1>3, LenProperties, Zenon DEF Holds
  <2>2. \A i \in 1..Len(u) : k + i \in 1..Len(s) /\ s[k + i] = u[i]
    BY <1>1, <1>3, <2>1 DEF Holds
  <2> QED
    BY <1>1, <1>3, <2>1, <2>2 DEF Holds
<1> QED
  BY <1>1, <1>2, <1>3, Zenon DEF w

(* What a stream holds is what SubSeq returns. *)
LEMMA HoldsSlice ==
    ASSUME NEW s \in Seq(Byte), NEW k, NEW t \in Seq(Byte), Holds(s, k, t)
    PROVE  SubSeq(s, k + 1, k + Len(t)) = t
<1> DEFINE u == SubSeq(s, k + 1, k + Len(t))
           m == k + 1
           n == k + Len(t)
<1>1. Len(t) \in Nat /\ k \in Nat /\ (\A i \in 1..Len(t) : t[i] \in Byte /\ s[k + i] = t[i])
  BY LenProperties, ElementOfSeq, Zenon DEF Holds
<1>2. m \in Int /\ n \in Int /\ n - m + 1 = Len(t) /\ \A i \in 1..Len(t) : m + i - 1 = k + i
  BY <1>1
<1>3. \A i \in m..n : s[i] \in Byte
  <2> SUFFICES ASSUME NEW i \in m..n PROVE s[i] \in Byte
    BY Zenon
  <2>1. i - k \in 1..Len(t) /\ k + (i - k) = i
    BY <1>1
  <2> QED
    BY <1>1, <2>1, Zenon
<1> HIDE DEF m, n
<1>4. /\ SubSeq(s, m, n) \in Seq(Byte)
      /\ Len(SubSeq(s, m, n)) = IF m <= n THEN n - m + 1 ELSE 0
      /\ \A i \in 1..n - m + 1 : SubSeq(s, m, n)[i] = s[m + i - 1]
  BY <1>2, <1>3, SubSeqProperties
<1>5. u = SubSeq(s, m, n)
  BY Zenon DEF m, n
<1> HIDE DEF u
<1>6. u \in Seq(Byte) /\ Len(u) = Len(t) /\ \A i \in 1..Len(t) : u[i] = t[i]
  BY <1>1, <1>2, <1>4, <1>5
<1>7. u = t
  BY <1>6, SeqEqual, Zenon
<1> QED
  BY <1>7, Zenon DEF u

(* s is a frame with the fields a, b, c and body, and r behind it. *)
IsFrame(s, a, b, c, body, r) ==
    /\ Len(s) = 14 + Len(body) + Len(r)
    /\ \A i \in 1..4 : s[i] = a[i]
    /\ SubSeq(s, 5, 8) = b /\ SubSeq(s, 9, 12) = c
    /\ SubSeq(s, 13, 12 + Len(body)) = body
    /\ SubSeq(s, 15 + Len(body), Len(s)) = r

(* Where the fields of a frame are, with more of the stream behind it. *)
LEMMA Fields ==
    ASSUME NEW a \in Seq(Byte), NEW b \in Seq(Byte), NEW c \in Seq(Byte), Len(a) = 4, Len(b) = 4, Len(c) = 4,
           NEW body \in Seq(Byte), NEW z \in Seq(Byte), Len(z) = 2, NEW r \in Seq(Byte)
    PROVE  IsFrame(a \o b \o c \o body \o z \o r, a, b, c, body, r)
<1> DEFINE s1 == Cat(a, b)
           s2 == Cat(s1, c)
           s3 == Cat(s2, body)
           s4 == Cat(s3, z)
           s  == Cat(s4, r)
           L  == Len(body)
           M  == Len(r)
<1>0. L \in Nat /\ M \in Nat
  BY LenProperties, Zenon
<1> HIDE DEF L, M
<1> DEFINE Grown(u, t, w) ==
             /\ w \in Seq(Byte) /\ Len(w) = Len(u) + Len(t) /\ Holds(w, Len(u), t)
             /\ \A k, v : v \in Seq(Byte) /\ Holds(u, k, v) => Holds(w, k, v)
<1>1. s1 \in Seq(Byte) /\ Len(s1) = 8 /\ Holds(s1, 0, a) /\ Holds(s1, 4, b)
  <2>1. Holds(a, 0, a)
    BY DEF Holds
  <2>2. Grown(a, b, s1)
    BY CatHolds, Zenon
  <2> HIDE DEF s1
  <2> QED
    BY <2>1, <2>2
<1> HIDE DEF s1
<1>2. s2 \in Seq(Byte) /\ Len(s2) = 12 /\ Holds(s2, 0, a) /\ Holds(s2, 4, b) /\ Holds(s2, 8, c)
  <2>1. Grown(s1, c, s2)
    BY <1>1, CatHolds, Zenon
  <2> HIDE DEF s2
  <2> QED
    BY <1>1, <2>1
<1> HIDE DEF s2
<1>3. /\ s3 \in Seq(Byte) /\ Len(s3) = 12 + L
      /\ Holds(s3, 0, a) /\ Holds(s3, 4, b) /\ Holds(s3, 8, c) /\ Holds(s3, 12, body)
  <2>1. Grown(s2, body, s3)
    BY <1>2, CatHolds, Zenon
  <2> HIDE DEF s3
  <2> QED
    BY <1>2, <2>1, Zenon DEF L
<1> HIDE DEF s3
<1>4. /\ s4 \in Seq(Byte) /\ Len(s4) = 14 + L
      /\ Holds(s4, 0, a) /\ Holds(s4, 4, b) /\ Holds(s4, 8, c) /\ Holds(s4, 12, body)
  <2>1. Grown(s3, z, s4)
    BY <1>3, CatHolds, Zenon
  <2> HIDE DEF s4
  <2> QED
    BY <1>0, <1>3, <2>1
<1> HIDE DEF s4
<1>5. /\ s \in Seq(Byte) /\ Len(s) = 14 + L + M /\ Holds(s, 14 + L, r)
      /\ Holds(s, 0, a) /\ Holds(s, 4, b) /\ Holds(s, 8, c) /\ Holds(s, 12, body)
  <2>1. Grown(s4, r, s)
    BY <1>4, CatHolds, Zenon
  <2> HIDE DEF s
  <2> QED
    BY <1>0, <1>4, <2>1, Zenon DEF M
<1> HIDE DEF s
<1>6. \A i \in 1..4 : s[i] = a[i]
  <2>1. \A i \in 1..4 : s[0 + i] = a[i]
    BY <1>5, Zenon DEF Holds
  <2> QED
    BY <2>1
<1>7. SubSeq(s, 4 + 1, 4 + Len(b)) = b /\ SubSeq(s, 8 + 1, 8 + Len(c)) = c
  BY <1>5, HoldsSlice, Zenon
<1>8. SubSeq(s, 12 + 1, 12 + L) = body
  BY <1>5, HoldsSlice, Zenon DEF L
<1>9. SubSeq(s, (14 + L) + 1, (14 + L) + M) = r
  BY <1>5, HoldsSlice, Zenon DEF M
<1>10. /\ 4 + 1 = 5 /\ 4 + 4 = 8 /\ 8 + 1 = 9 /\ 8 + 4 = 12 /\ 12 + 1 = 13
       /\ (14 + L) + 1 = 15 + L /\ (14 + L) + M = Len(s) /\ Len(b) = 4 /\ Len(c) = 4
  BY <1>0, <1>5
<1>11. s = a \o b \o c \o body \o z \o r
  BY Zenon DEF s, s4, s3, s2, s1, Cat
<1> QED
  BY <1>5, <1>6, <1>7, <1>8, <1>9, <1>10, <1>11, Zenon DEF L, M, IsFrame

(* The fields of what WriteTo writes. *)
LEMMA WrittenFrame ==
    ASSUME NEW p \in Packet, Len(p.Body) <= MaxPayloadSize, NEW r \in Seq(Byte)
    PROVE  /\ p.Body \in Seq(Byte) /\ Len(p.Body) \in Nat
           /\ WriteTo(p) \in Seq(Byte)
           /\ Uint32(WriteTo(p) \o r) = 10 + Len(p.Body)
           /\ \E a, b, c \in Seq(Byte) :
                /\ AsInt32(Uint32(b)) = p.ID /\ AsInt32(Uint32(c)) = p.Type
                /\ IsFrame(WriteTo(p) \o r, a, b, c, p.Body, r)
<1> DEFINE a == PutUint32(SizeOf(p))
           b == PutUint32(AsUint32(p.ID))
           c == PutUint32(AsUint32(p.Type))
           z == <<0, 0>>
           s == WriteTo(p) \o r
           L == Len(p.Body)
<1>1. p.ID \in Int32 /\ p.Type \in Int32 /\ p.Body \in Seq(Byte) /\ L \in Nat
  BY DEF Packet
<1>2. SizeOf(p) = 10 + L /\ SizeOf(p) \in Nat /\ SizeOf(p) < Word
  <2>1. Word \in Nat /\ MaxPayloadSize \in Nat /\ MaxPayloadSize + MinPacketSize < Word
    BY FramingAssumption DEF Word
  <2> QED
    BY <1>1, <2>1 DEF SizeOf, HeaderSize, PaddingSize, MinPacketSize
<1>3. a \in Seq(Byte) /\ Len(a) = 4 /\ Uint32(a) = SizeOf(p)
  BY <1>2, WordRoundTrip, Zenon
<1>4. b \in Seq(Byte) /\ Len(b) = 4 /\ AsInt32(Uint32(b)) = p.ID
  BY <1>1, Int32RoundTrip, WordRoundTrip, Zenon
<1>5. c \in Seq(Byte) /\ Len(c) = 4 /\ AsInt32(Uint32(c)) = p.Type
  BY <1>1, Int32RoundTrip, WordRoundTrip, Zenon
<1>6. z \in Seq(Byte) /\ Len(z) = 2
  BY FramingAssumption DEF Byte
<1> DEFINE w == a \o b \o c \o p.Body \o z
<1>7. WriteTo(p) = w
  BY Zenon DEF WriteTo
<1> HIDE DEF a, b, c, z
<1>8. w \in Seq(Byte)
  BY <1>1, <1>3, <1>4, <1>5, <1>6, Joined, Zenon
<1>9. IsFrame(w \o r, a, b, c, p.Body, r)
  BY <1>1, <1>3, <1>4, <1>5, <1>6, Fields, Zenon
<1> HIDE DEF w
<1>10. IsFrame(s, a, b, c, p.Body, r)
  BY <1>7, <1>9, Zenon
<1> HIDE DEF s
<1>11. Uint32(s) = 10 + L
  <2>1. \A i \in 1..4 : s[i] = a[i]
    BY <1>10, Zenon DEF IsFrame
  <2>2. s[1] = a[1] /\ s[2] = a[2] /\ s[3] = a[3] /\ s[4] = a[4]
    BY <2>1
  <2> QED
    BY <1>2, <1>3, <2>2, Zenon DEF Uint32
<1> QED
  BY <1>1, <1>3, <1>4, <1>5, <1>7, <1>8, <1>10, <1>11, Zenon DEF s

(* ReadFrom of a stream that begins with a frame WriteTo wrote returns     *)
(* that packet and leaves the rest of the stream, whatever that is and     *)
(* however it ends; the body may be as large as MaxPayloadSize, or empty.  *)
THEOREM FrameRoundTrip ==
    ASSUME NEW p \in Packet, Len(p.Body) <= MaxPayloadSize, NEW r \in Seq(Byte), NEW end
    PROVE  ReadFrom(WriteTo(p) \o r, end) = [err |-> "nil", p |-> p, rest |-> r]
<1> DEFINE s == WriteTo(p) \o r
           L == Len(p.Body)
<1>1. L \in Nat /\ Len(r) \in Nat /\ Uint32(s) = 10 + L
  BY WrittenFrame, LenProperties, Zenon
<1>2. PICK a, b, c \in Seq(Byte) :
        /\ AsInt32(Uint32(b)) = p.ID /\ AsInt32(Uint32(c)) = p.Type
        /\ IsFrame(s, a, b, c, p.Body, r)
  BY WrittenFrame, Zenon
<1> HIDE DEF s
<1>3. Len(s) = 14 + L + Len(r) /\ SubSeq(s, 13, 12 + L) = p.Body /\ SubSeq(s, 15 + L, Len(s)) = r
      /\ SubSeq(s, 5, 8) = b /\ SubSeq(s, 9, 12) = c
  BY <1>2, Zenon DEF IsFrame
<1> HIDE DEF L
<1>4. ReadFull(Len(s), 4, end) = "nil" /\ ReadFull(Len(s) - 4, 10 + L, end) = "nil"
  BY <1>1, <1>3 DEF ReadFull
<1>5. 4 + (10 + L) - PaddingSize = 12 + L /\ 5 + (10 + L) = 15 + L
  BY <1>1 DEF PaddingSize
<1>6. ~(10 + L > MaxPayloadSize + MinPacketSize) /\ ~(10 + L < MinPacketSize)
  BY <1>1, FramingAssumption DEF L, MinPacketSize, HeaderSize, PaddingSize
<1>7. p = [ID |-> p.ID, Type |-> p.Type, Body |-> p.Body]
  BY Zenon DEF Packet
<1>8. ReadFrom(s, end) = [err |-> "nil", p |-> p, rest |-> r]
  BY <1>1, <1>2, <1>3, <1>4, <1>5, <1>6, <1>7, Zenon DEF ReadFrom
<1> QED
  BY <1>8, Zenon DEF s

(* ReadFrom of a frame that is cut short, anywhere, returns the error of   *)
(* the stream or an unexpected EOF, and never a packet.                    *)
THEOREM CutFrameIsError ==
    ASSUME NEW p \in Packet, Len(p.Body) <= MaxPayloadSize,
           NEW s \in Seq(Byte), NEW t \in Seq(Byte), s \o t = WriteTo(p), t # <<>>,
           NEW end, end # "nil"
    PROVE  ReadFrom(s, end).err \in {end, "ErrUnexpectedEOF"}
<1> DEFINE L == Len(p.Body)
           w == WriteTo(p)
<1>1. w \o <<>> = w /\ <<>> \in Seq(Byte) /\ Len(<<>>) = 0
  BY WrittenFrame, ConcatEmptySeq, EmptySeq, Zenon
<1>2. L \in Nat /\ Uint32(w) = 10 + L
  BY <1>1, WrittenFrame, Zenon
<1>3. Len(w) = 14 + L
  <2>1. PICK a, b, c \in Seq(Byte) : IsFrame(w \o <<>>, a, b, c, p.Body, <<>>)
    BY <1>1, WrittenFrame, Zenon
  <2>2. Len(w) = 14 + L + Len(<<>>)
    BY <1>1, <2>1, Zenon DEF IsFrame
  <2> QED
    BY <1>1, <1>2, <2>2
<1>4. Len(s) \in Nat /\ Len(s) < Len(w) /\ \A i \in 1..Len(s) : w[i] = s[i]
  <2>1. Len(t) \in Nat /\ Len(t) # 0
    BY EmptySeq, Zenon
  <2>2. Len(s) \in Nat /\ Len(s \o t) = Len(s) + Len(t) /\ \A i \in 1..Len(s) : (s \o t)[i] = s[i]
    BY Joined, Zenon
  <2>3. s \o t = w
    BY Zenon
  <2> HIDE DEF w
  <2>4. Len(w) = Len(s) + Len(t) /\ \A i \in 1..Len(s) : w[i] = s[i]
    BY <2>2, <2>3, Zenon
  <2> QED
    BY <2>1, <2>2, <2>4
<1> HIDE DEF w, L
<1>5. CASE Len(s) < 4
  <2>1. ReadFull(Len(s), 4, end) \in {end, "ErrUnexpectedEOF"}
    BY <1>4, <1>5 DEF ReadFull
  <2> QED
    BY <2>1, Zenon DEF ReadFrom
<1>6. CASE Len(s) >= 4
  <2>1. Uint32(s) = 10 + L
    <3>1. s[1] = w[1] /\ s[2] = w[2] /\ s[3] = w[3] /\ s[4] = w[4]
      BY <1>4, <1>6
    <3> QED
      BY <1>2, <3>1, Zenon DEF Uint32
  <2>2. ReadFull(Len(s), 4, end) = "nil" /\ ReadFull(Len(s) - 4, 10 + L, end) \in {end, "ErrUnexpectedEOF"}
    BY <1>2, <1>3, <1>4, <1>6 DEF ReadFull
  <2>3. ~(10 + L > MaxPayloadSize + MinPacketSize) /\ ~(10 + L < MinPacketSize)
    BY <1>2, FramingAssumption DEF L, MinPacketSize, HeaderSize, PaddingSize
  <2> QED
    BY <2>1, <2>2, <2>3, Zenon DEF ReadFrom
<1> QED
  BY <1>4, <1>5, <1>6

(* A round of writeResponse's loop: a packet within the limit, nothing     *)
(* lost and nothing sent twice, and less to send than before unless the    *)
(* response was empty, so the loop ends.                                   *)
THEOREM ResponseIsSplit ==
    ASSUME NEW body \in Seq(Byte)
    PROVE  /\ Len(Chunk(body)) <= MaxPayloadSize
           /\ Chunk(body) \o AfterChunk(body) = body
           /\ body # <<>> => Len(AfterChunk(body)) < Len(body)
<1> DEFINE k == IF Len(body) < MaxPayloadSize THEN Len(body) ELSE MaxPayloadSize
<1>1. Len(body) \in Nat /\ k \in Nat /\ k <= Len(body) /\ k <= MaxPayloadSize /\ (body # <<>> => k > 0)
  BY FramingAssumption
<1> HIDE DEF k
<1>2. Chunk(body) = SubSeq(body, 1, k)
  BY Zenon DEF Chunk, k
<1>3. Chunk(body) \in Seq(Byte) /\ Len(Chunk(body)) = k /\ \A i \in 1..k : Chunk(body)[i] = body[i]
  BY <1>1, <1>2
<1>4. AfterChunk(body) = SubSeq(body, k + 1, Len(body))
  BY <1>3, Zenon DEF AfterChunk
<1>5. /\ AfterChunk(body) \in Seq(Byte) /\ Len(AfterChunk(body)) = Len(body) - k
      /\ \A i \in 1..(Len(body) - k) : AfterChunk(body)[i] = body[k + i]
  BY <1>1, <1>4
<1>6. Chunk(body) \o AfterChunk(body) = body
  <2>1. 1 \in 1..Len(body) + 1 /\ k \in 1 - 1..Len(body) /\ Len(body) \in k..Len(body)
    BY <1>1
  <2>2. SubSeq(body, 1, k) \o SubSeq(body, k + 1, Len(body)) = SubSeq(body, 1, Len(body))
    BY <2>1, ConcatAdjacentSubSeq, Zenon
  <2> QED
    BY <1>2, <1>4, <2>2, SubSeqFull, Zenon
<1> QED
  BY <1>1, <1>3, <1>5, <1>6

-----------------------------------------------------------------------------
(* Concatenation is associative. *)
LEMMA JoinedThrice ==
    ASSUME NEW s \in Seq(Byte), NEW t \in Seq(Byte), NEW u \in Seq(Byte)
    PROVE  (s \o t) \o u = s \o (t \o u)
BY ConcatAssociative

(* A stream that begins with another is that one and a rest. *)
LEMMA SplitOff ==
    ASSUME NEW s \in Seq(Byte), NEW a \in Seq(Byte), Holds(s, 0, a)
    PROVE  \E u \in Seq(Byte) : s = a \o u /\ Len(u) = Len(s) - Len(a)
<1> DEFINE k == Len(a)
           n == Len(s)
           u == SubSeq(s, k + 1, n)
<1>1. k \in Nat /\ n \in Nat /\ k <= n
  BY LenProperties DEF Holds
<1>2. SubSeq(s, 0 + 1, 0 + Len(a)) = a
  BY HoldsSlice, Zenon
<1>3. 0 + 1 = 1 /\ 0 + Len(a) = k
  BY <1>1
<1>4. \A i \in k + 1..n : s[i] \in Byte
  BY <1>1, ElementOfSeq
<1> HIDE DEF k, n
<1>5. u \in Seq(Byte) /\ Len(u) = n - k
  <2>1. k + 1 \in Int /\ n \in Int
    BY <1>1
  <2>2. u \in Seq(Byte) /\ Len(u) = IF k + 1 <= n THEN n - (k + 1) + 1 ELSE 0
    BY <1>4, <2>1, SubSeqProperties, Zenon
  <2> HIDE DEF u
  <2> QED
    BY <1>1, <2>2
<1>6. 1 \in 1..n + 1 /\ k \in 1 - 1..n /\ n \in k..n
  BY <1>1
<1>7. SubSeq(s, 1, k) \o SubSeq(s, k + 1, n) = SubSeq(s, 1, n)
  BY <1>6, ConcatAdjacentSubSeq, Zenon DEF n
<1>8. s = a \o u
  BY <1>2, <1>3, <1>7, SubSeqFull, Zenon DEF n
<1> QED
  BY <1>5, <1>8, Zenon DEF k, n

(* Two ways to cut the same stream in two: into s and t, or after a. *)
Overlaps(s, t, a, b) ==
    \/ \E u \in Seq(Byte) : s = a \o u /\ u \o t = b
    \/ \E x \in Seq(Byte) : x # <<>> /\ s \o x = a

(* One of the two parts is longer. *)
LEMMA Overlap ==
    ASSUME NEW s \in Seq(Byte), NEW t \in Seq(Byte), NEW a \in Seq(Byte), NEW b \in Seq(Byte), s \o t = a \o b
    PROVE  Overlaps(s, t, a, b)
<1> DEFINE w == Cat(s, t)
<1>1. /\ Len(w) = Len(s) + Len(t) /\ Len(s) \in Nat /\ Len(t) \in Nat
      /\ \A i \in 1..Len(s) : w[i] = s[i]
  BY Joined, Zenon DEF Cat
<1>2. /\ Len(w) = Len(a) + Len(b) /\ Len(a) \in Nat /\ Len(b) \in Nat
      /\ \A i \in 1..Len(a) : w[i] = a[i]
  BY Joined DEF Cat
<1> HIDE DEF w
<1>3. CASE Len(a) <= Len(s)
  <2>1. Holds(s, 0, a)
    BY <1>1, <1>2, <1>3 DEF Holds
  <2>2. PICK u \in Seq(Byte) : s = a \o u /\ Len(u) = Len(s) - Len(a)
    BY <2>1, SplitOff, Zenon
  <2>3. (a \o u) \o t = a \o (u \o t) /\ u \o t \in Seq(Byte)
    <3>1. u \in Seq(Byte)
      BY <2>2, Zenon
    <3>2. u \o t \in Seq(Byte)
      BY <3>1, Joined, Zenon
    <3>3. (a \o u) \o t = a \o (u \o t)
      BY <3>1, JoinedThrice, ZenonT(40)
    <3> QED
      BY <3>2, <3>3, Zenon
  <2>4. a \o (u \o t) = a \o b
    BY <2>2, <2>3, Zenon
  <2>5. u \o t = b
    BY <2>3, <2>4, ConcatSimplifications, Zenon
  <2> QED
    BY <2>2, <2>5, Zenon DEF Overlaps
<1>4. CASE Len(a) > Len(s)
  <2>1. Holds(a, 0, s)
    BY <1>1, <1>2, <1>4 DEF Holds
  <2>2. PICK x \in Seq(Byte) : a = s \o x /\ Len(x) = Len(a) - Len(s)
    BY <2>1, SplitOff, Zenon
  <2>3. Len(x) # 0
    BY <1>1, <1>2, <1>4, <2>2
  <2> QED
    BY <2>2, <2>3, EmptySeq, Zenon DEF Overlaps
<1>5. Len(a) <= Len(s) \/ Len(a) > Len(s)
  BY <1>1, <1>2
<1> QED
  BY <1>3, <1>4, <1>5, Zenon

(* What ReadFrom makes of a stream whose next frame has arrived in whole   *)
(* or in part: the packet, leaving what came after it, or the error that   *)
(* the stream ends with, leaving nothing.                                  *)
LEMMA ReadsOrEnds ==
    ASSUME NEW p \in Packet, Len(p.Body) <= MaxPayloadSize,
           NEW s \in Seq(Byte), NEW t \in Seq(Byte), NEW r \in Seq(Byte), s \o t = WriteTo(p) \o r,
           NEW end \in {"EOF", "timeout", "wait"}
    PROVE  \/ \E u \in Seq(Byte) : u \o t = r /\ ReadFrom(s, end) = [err |-> "nil", p |-> p, rest |-> u]
           \/ /\ ReadFrom(s, end).err \in {end, "ErrUnexpectedEOF"}
              /\ ReadFrom(s, end).rest = <<>>
<1>1. WriteTo(p) \in Seq(Byte)
  BY EmptySeq, WrittenFrame, Zenon
<1>2. CASE \E u \in Seq(Byte) : s = WriteTo(p) \o u /\ u \o t = r
  <2>1. PICK u \in Seq(Byte) : s = WriteTo(p) \o u /\ u \o t = r
    BY <1>2, Zenon
  <2>2. ReadFrom(s, end) = [err |-> "nil", p |-> p, rest |-> u]
    BY <2>1, FrameRoundTrip, Zenon
  <2> QED
    BY <2>1, <2>2, Zenon
<1>3. CASE \E x \in Seq(Byte) : x # <<>> /\ s \o x = WriteTo(p)
  <2>1. ReadFrom(s, end).err \in {end, "ErrUnexpectedEOF"}
    BY <1>3, CutFrameIsError, Zenon
  <2>2. ReadFrom(s, end).rest = <<>>
    BY <2>1, Zenon DEF ReadFrom
  <2> QED
    BY <2>1, <2>2, Zenon
<1>4. Overlaps(s, t, WriteTo(p), r)
  BY <1>1, Overlap, Zenon
<1> QED
  BY <1>2, <1>3, <1>4, Zenon DEF Overlaps

(* A frame, or anything else, cut in two by the network. *)
LEMMA CutInTwo ==
    ASSUME NEW s \in Seq(Byte), NEW k \in Nat, k <= Len(s)
    PROVE  /\ SubSeq(s, 1, k) \in Seq(Byte) /\ SubSeq(s, k + 1, Len(s)) \in Seq(Byte)
           /\ SubSeq(s, 1, k) \o SubSeq(s, k + 1, Len(s)) = s
           /\ k = Len(s) => SubSeq(s, 1, k) = s /\ SubSeq(s, k + 1, Len(s)) = <<>>
<1>1. Len(s) \in Nat
  BY LenProperties, Zenon
<1>2. SubSeq(s, 1, k) \in Seq(Byte) /\ SubSeq(s, k + 1, Len(s)) \in Seq(Byte)
  BY <1>1
<1>3. 1 \in 1..Len(s) + 1 /\ k \in 1 - 1..Len(s) /\ Len(s) \in k..Len(s)
  BY <1>1
<1>4. SubSeq(s, 1, k) \o SubSeq(s, k + 1, Len(s)) = SubSeq(s, 1, Len(s))
  BY <1>3, ConcatAdjacentSubSeq, Zenon
<1>5. SubSeq(s, 1, Len(s)) = s
  BY SubSeqFull, Zenon
<1>6. SubSeq(s, Len(s) + 1, Len(s)) = <<>>
  BY <1>1, SubSeqEmpty
<1> QED
  BY <1>2, <1>4, <1>5, <1>6, Zenon

(* Whatever the stream holds, ReadFrom leaves bytes, its body is bytes,    *)
(* and it fails the way the stream ends or with an error of its own; only  *)
(* at the end of the stream is it an unexpected one.                       *)
LEMMA ReadFromType ==
    ASSUME NEW s \in Seq(Byte), NEW end \in {"EOF", "timeout", "wait"}
    PROVE  /\ ReadFrom(s, end).rest \in Seq(Byte) /\ ReadFrom(s, end).p.Body \in Seq(Byte)
           /\ ReadFrom(s, end).err \in {"nil", end, "ErrUnexpectedEOF", "ErrResponseTooLong", "ErrResponseTooShort"}
           /\ ReadFrom(s, end).err = "ErrUnexpectedEOF" => end = "EOF"
<1> DEFINE n == Len(s)
           size == Uint32(s)
           R == ReadFrom(s, end)
<1>1. n \in Nat
  BY LenProperties, Zenon
<1>2. n >= 4 => size \in Nat
  <2>1. SUFFICES ASSUME n >= 4 PROVE size \in Nat
    BY Zenon
  <2>2. s[1] \in Nat /\ s[2] \in Nat /\ s[3] \in Nat /\ s[4] \in Nat /\ Radix \in Nat
    BY <1>1, <2>1, ElementOfSeq, FramingAssumption DEF Byte
  <2>3. \A i, j \in Nat : i + Radix * j \in Nat
    BY <2>2
  <2> QED
    BY <2>2, <2>3, Zenon DEF Uint32
<1> HIDE DEF size
<1>3. /\ R.err \in {"nil", end, "ErrUnexpectedEOF", "ErrResponseTooLong", "ErrResponseTooShort"}
      /\ R.err = "ErrUnexpectedEOF" => end = "EOF"
      /\ R.err = "nil" => n >= 4 /\ size >= MinPacketSize /\ n - 4 >= size
      /\ R.err \in {"ErrResponseTooLong", "ErrResponseTooShort"} => n >= 4
  <2>1. MaxPayloadSize + MinPacketSize \in Nat /\ MinPacketSize \in Nat
    BY FramingAssumption DEF MinPacketSize, HeaderSize, PaddingSize
  <2>2. R.err = IF ReadFull(n, 4, end) # "nil" THEN ReadFull(n, 4, end)
                ELSE IF size > MaxPayloadSize + MinPacketSize THEN "ErrResponseTooLong"
                ELSE IF size < MinPacketSize THEN "ErrResponseTooShort"
                ELSE ReadFull(n - 4, size, end)
    BY Zenon DEF ReadFrom, size
  <2>3. ReadFull(n, 4, end) = "nil" => n >= 4
    BY <1>1, Zenon DEF ReadFull
  <2>4. size \in Nat /\ ReadFull(n - 4, size, end) = "nil" => n - 4 >= size
    BY <1>1, Zenon DEF ReadFull
  <2>5. \A x, y : ReadFull(x, y, end) \in {"nil", end, "ErrUnexpectedEOF"}
                  /\ (ReadFull(x, y, end) = "ErrUnexpectedEOF" => end = "EOF")
    BY Zenon DEF ReadFull
  <2> HIDE DEF R
  <2> QED
    BY <1>1, <1>2, <2>1, <2>2, <2>3, <2>4, <2>5
<1>4. R.rest \in Seq(Byte)
  <2>1. R.rest = CASE R.err = "nil" -> SubSeq(s, 5 + size, n)
                   [] R.err \in {"ErrResponseTooLong", "ErrResponseTooShort"} -> SubSeq(s, 5, n)
                   [] OTHER -> <<>>
    BY Zenon DEF ReadFrom, size
  <2>2. n >= 4 => SubSeq(s, 5, n) \in Seq(Byte) /\ (n >= 4 + size => SubSeq(s, 5 + size, n) \in Seq(Byte))
    BY <1>1, <1>2
  <2> HIDE DEF R
  <2> QED
    BY <1>1, <1>2, <1>3, <2>1, <2>2
<1>5. R.p.Body \in Seq(Byte)
  <2>1. R.p.Body = IF R.err = "nil" THEN SubSeq(s, 13, 4 + size - PaddingSize) ELSE <<>>
    BY Zenon DEF ReadFrom, size
  <2>2. R.err = "nil" => 4 + size - PaddingSize \in Nat /\ 4 + size - PaddingSize <= n
    BY <1>1, <1>2, <1>3 DEF MinPacketSize, HeaderSize, PaddingSize
  <2>3. \A k \in Nat : k <= n => SubSeq(s, 13, k) \in Seq(Byte)
    BY <1>1
  <2> HIDE DEF R
  <2> QED
    BY <2>1, <2>2, <2>3
<1> QED
  BY <1>3, <1>4, <1>5, Zenon

(* What a round of writeResponse's loop sends, and what it leaves, is      *)
(* bytes again.                                                            *)
LEMMA ChunkType ==
    ASSUME NEW body \in Seq(Byte)
    PROVE  Chunk(body) \in Seq(Byte) /\ AfterChunk(body) \in Seq(Byte)
<1> DEFINE k == IF Len(body) < MaxPayloadSize THEN Len(body) ELSE MaxPayloadSize
<1>1. Len(body) \in Nat /\ k \in Nat /\ k <= Len(body)
  BY FramingAssumption
<1> HIDE DEF k
<1>2. Chunk(body) = SubSeq(body, 1, k)
  BY DEF Chunk, k
<1>3. Chunk(body) \in Seq(Byte) /\ Len(Chunk(body)) = k
  BY <1>1, <1>2
<1>4. AfterChunk(body) = SubSeq(body, k + 1, Len(body))
  BY <1>3, Zenon DEF AfterChunk
<1>5. AfterChunk(body) \in Seq(Byte)
  BY <1>1, <1>4
<1> QED
  BY <1>3, <1>5, Zenon

(* A word has 16 values at least. *)
LEMMA WordSize == Word \in Nat /\ Word >= 16
<1>1. Radix \in Nat /\ Radix >= 2
  BY FramingAssumption, Zenon
<1>2. \A x, y \in Nat : x >= 2 /\ y >= 2 => x * y \in Nat /\ x * y >= 2 * y
  OBVIOUS
<1>3. Radix * Radix \in Nat /\ Radix * Radix >= 4
  BY <1>1, <1>2
<1>4. (Radix * Radix) * Radix \in Nat /\ (Radix * Radix) * Radix >= 8
  BY <1>1, <1>2, <1>3
<1>5. ((Radix * Radix) * Radix) * Radix \in Nat /\ ((Radix * Radix) * Radix) * Radix >= 16
  BY <1>1, <1>2, <1>4
<1> QED
  BY <1>5, Zenon DEF Word

(* Small numbers are int32s. *)
LEMMA Int32Small == 0 \in Int32 /\ 1 \in Int32
BY WordSize DEF Int32

(* No frame is empty. *)
LEMMA FrameSize ==
    ASSUME NEW p \in Packet, Len(p.Body) <= MaxPayloadSize
    PROVE  WriteTo(p) # <<>>
<1>1. ReadFrom(WriteTo(p) \o <<>>, "EOF") = [err |-> "nil", p |-> p, rest |-> <<>>] /\ WriteTo(p) \in Seq(Byte)
  BY FrameRoundTrip, WrittenFrame, EmptySeq, Zenon
<1>2. <<>> \o <<>> = <<>>
  BY ConcatEmptySeq, EmptySeq, Zenon
<1>3. ReadFrom(<<>>, "EOF").err = "EOF"
  BY DEF ReadFrom, ReadFull
<1> QED
  BY <1>1, <1>2, <1>3

(* Sendable: a packet that fits a frame. *)
Sendable == {p \in Packet : Len(p.Body) <= MaxPayloadSize}

(* A frame is bytes. *)
LEMMA SentBytes == ASSUME NEW p \in Sendable PROVE WriteTo(p) \in Seq(Byte)
BY WrittenFrame, EmptySeq, Zenon DEF Sendable

-----------------------------------------------------------------------------
(* The types of the client. *)

(* Ids are positive, and nextID never returns the one before. *)
LEMMA NextIDProperties ==
    ASSUME NEW i \in Int32
    PROVE  NextID(i) \in Int32 /\ NextID(i) > 0 /\ NextID(i) # i
BY WordSize DEF NextID, Int32

Codes == {0, 2, 3, 200, 400, 401, 405, 413, 500, 502, 503, 504}
Places == {"start", "ready", "dial", "auth", "send", "read", "backoff", "end"}

(* The types of what a call of Execute computes and of what it returns ... *)
CallType ==
    /\ opt \in Configs /\ mode \in {"multi", "single", "idle"} /\ pc \in Places
    /\ pc = "start" => cmd = 0
    /\ cmd \in 0..MaxCommands /\ check \in {"nil"} \cup CommandErrs
    /\ attempt \in Nat /\ wait \in 0..Max
    /\ conn \in {"none", "open", "closed"}
    /\ err \in Errors /\ resp \in Seq(Byte) /\ code \in Codes
    /\ clean \in BOOLEAN /\ failed \in Nat

(* ... and of what is sent and read. *)
ByteType == net \in Nets /\ id \in Int32 /\ req \in Int32 /\ acc \in Seq(Byte) /\ first \in BOOLEAN

(* The programs end with a known code, and choose one of three modes. *)
LEMMA ProgramTypes ==
    /\ \A e : ExitCode(e) \in Codes /\ ExecuteStatus(e) \in Codes
    /\ Refusals \subseteq {400, 401, 405, 413, 500}
    /\ \A o \in RunOutcomes : o.exit \in {0, 2, Goes} /\ o.mode \in {"multi", "single", "idle"}
    /\ \A x, y : ReadMode(x, y) \in {"multi", "single", "idle"}
<1>1. \A e : ExitCode(e) \in Codes /\ ExecuteStatus(e) \in Codes
  BY DEF ExitCode, ExecuteStatus, Codes
<1>2. Refusals \subseteq {400, 401, 405, 413, 500}
  BY DEF Refusals, Refusal
<1>3. \A x, y : ReadMode(x, y) \in {"multi", "single", "idle"}
  BY Zenon DEF ReadMode
<1>4. \A o \in RunOutcomes : o.exit \in {0, 2, Goes} /\ o.mode \in {"multi", "single", "idle"}
  <2> SUFFICES ASSUME NEW a \in Args
               PROVE  RunOutcome(a).exit \in {0, 2, Goes} /\ RunOutcome(a).mode \in {"multi", "single", "idle"}
    BY Zenon DEF RunOutcomes
  <2> QED
    BY <1>3, Zenon DEF RunOutcome
<1> QED
  BY <1>1, <1>2, <1>3, <1>4

(* The delay before another attempt is one of 0..Max (ExponentialBackoff). *)
LEMMA DelayBound == ASSUME NEW a PROVE Delay(a) \in 0..Max
<1> DEFINE d == Wrap(Base * 2^(a - 1))
<1>1. Max \in Nat
  BY ClientAssumption, Zenon
<1>2. Delay(a) = IF d \in 1..Max THEN d ELSE Max
  BY Zenon DEF Delay
<1> HIDE DEF d
<1> QED
  BY <1>1, <1>2

(* The types at the end of a call, *)
LEMMA ReturnType ==
    ASSUME CallType, UNCHANGED <<conf, cmd, check>>, clean' \in BOOLEAN, conn' \in {"none", "open", "closed"},
           NEW e \in Errors, NEW body \in Seq(Byte), NEW to \in {"ready", "end"}, Return(e, body, to), code' \in Codes
    PROVE  CallType'
<1>1. failed' \in Nat
  BY DEF Return, CallType
<1>2. Max \in Nat
  BY ClientAssumption, Zenon
<1> QED
  BY <1>1, <1>2 DEF Return, CallType, conf, Places

(* when it tries again, *)
LEMMA RedialType ==
    ASSUME CallType, UNCHANGED <<conf, cmd, check>>, clean' \in BOOLEAN, conn' \in {"none", "open", "closed"},
           NEW a \in Nat, Redial(a)
    PROVE  CallType'
BY Zenon DEF Redial, CallType, conf, doneVars, Places

(* and after a failed attempt. *)
LEMMA AttemptFailedType ==
    ASSUME CallType, UNCHANGED <<conf, cmd, check>>, clean' \in BOOLEAN, conn' \in {"none", "open", "closed"},
           NEW e \in Errors, AttemptFailed(e)
    PROVE  CallType'
<1>1. CASE Return(e, <<>>, "end") /\ code' = ExitCode(e)
  <2>1. code' \in Codes /\ <<>> \in Seq(Byte)
    BY <1>1, ProgramTypes
  <2> QED
    BY <1>1, <2>1, ReturnType, Zenon
<1>2. CASE pc' = "backoff" /\ wait' \in 0..Delay(attempt) /\ UNCHANGED <<attempt, doneVars>>
  <2>1. wait' \in 0..Max
    BY <1>2, DelayBound, ClientAssumption
  <2> QED
    BY <1>2, <2>1, Zenon DEF CallType, conf, doneVars, Places
<1>3. CASE Redial(attempt + 1)
  <2>1. attempt + 1 \in Nat
    BY DEF CallType
  <2> QED
    BY <1>3, <2>1, RedialType, Zenon
<1> QED
  BY <1>1, <1>2, <1>3, Zenon DEF AttemptFailed

(* A connection that is kept or closed. *)
LEMMA ConnType ==
    ASSUME CallType, NEW n \in Nets, NEW to \in {"none", "closed"}, KeepConn(n) \/ CloseConn(n, to)
    PROVE  net' \in Nets /\ conn' \in {"none", "open", "closed"}
<1>1. NoNet \in Nets
  BY Int32Small, ClientAssumption DEF NoNet, Nets
<1> QED
  BY <1>1, Zenon DEF KeepConn, CloseConn, CallType

(* The same after Conn.Execute ... *)
LEMMA ConnReturnedType ==
    ASSUME CallType, UNCHANGED <<conf, cmd, check>>, clean' \in BOOLEAN, NEW e \in Errors, NEW body \in Seq(Byte),
           NEW n \in Nets, ConnReturned(e, body, n)
    PROVE  CallType' /\ net' \in Nets
<1>1. net' \in Nets /\ conn' \in {"none", "open", "closed"}
  BY ConnType, Zenon DEF ConnReturned, SessionReturned, CloseOnce
<1>2. CASE AttemptFailed(e)
  BY <1>1, <1>2, AttemptFailedType, Zenon
<1>3. CASE Redial(2)
  BY <1>1, <1>3, RedialType, Zenon
<1>4. CASE (Return(e, body, "end") \/ Return(e, body, "ready")) /\ code' \in {ExitCode(e), ExecuteStatus(e), code}
  <2>1. code' \in Codes
    BY <1>4, ProgramTypes DEF CallType
  <2> QED
    BY <1>1, <1>4, <2>1, ReturnType, Zenon
<1> QED
  BY <1>1, <1>2, <1>3, <1>4, Zenon DEF ConnReturned, SessionReturned

(* ... and after Client.dial. *)
LEMMA DialReturnedType ==
    ASSUME CallType, UNCHANGED <<conf, cmd, check>>, clean' \in BOOLEAN, NEW e \in Errors, DialReturned(e)
    PROVE  CallType' /\ net' \in Nets
<1>1. net' \in Nets /\ conn' \in {"none", "open", "closed"}
  <2>1. NoNet \in Nets
    BY Int32Small, ClientAssumption DEF NoNet, Nets
  <2> QED
    BY <2>1, Zenon DEF DialReturned, CallType
<1>2. CASE AttemptFailed(e)
  BY <1>1, <1>2, AttemptFailedType, Zenon
<1>3. CASE (Return(e, <<>>, "end") \/ Return(e, <<>>, "ready")) /\ code' \in {ExitCode(e), ExecuteStatus(e), code}
  <2>1. code' \in Codes
    BY <1>3, ProgramTypes DEF CallType
  <2> QED
    BY <1>1, <1>3, <2>1, ReturnType, EmptySeq, ZenonT(40)
<1> QED
  BY <1>1, <1>2, <1>3, Zenon DEF DialReturned

(* What the server answers is bytes. *)
LEMMA ResponseType ==
    ASSUME opt \in Configs, NEW n \in Nat
    PROVE  Response(n) \in Seq(Byte) /\ Len(Response(n)) = opt.len /\ opt.len \in Nat
<1>1. opt.len \in Nat
  BY ClientAssumption, Zenon
<1>2. \A i \in 1..opt.len : (n + i) % Radix \in Byte
  BY <1>1, DivMod
<1>3. Response(n) = [i \in 1..opt.len |-> (n + i) % Radix]
  BY Zenon DEF Response
<1> HIDE DEF Response
<1> QED
  BY <1>1, <1>2, <1>3

(* A frame arrives in one piece or two: together they are what was there   *)
(* and the frame.                                                          *)
LEMMA WrittenBytes ==
    ASSUME NEW n \in Nets, NEW p \in Sendable, Written(n, p)
    PROVE  \E x, y \in Seq(Byte) :
             x \o y = WriteTo(p) /\ net' = [n EXCEPT !.wire = n.wire \o x, !.out = y]
<1>1. PICK k \in Cuts \cup {Len(WriteTo(p))} :
        /\ k <= Len(WriteTo(p))
        /\ net' = [n EXCEPT !.wire = @ \o SubSeq(WriteTo(p), 1, k),
                            !.out = SubSeq(WriteTo(p), k + 1, Len(WriteTo(p)))]
  BY Zenon DEF Written
<1>2. WriteTo(p) \in Seq(Byte)
  BY SentBytes, Zenon
<1>3. k \in Nat
  BY <1>2, ClientAssumption, LenProperties, Zenon
<1> DEFINE f == WriteTo(p)
<1> HIDE DEF f
<1>4. /\ SubSeq(f, 1, k) \in Seq(Byte) /\ SubSeq(f, k + 1, Len(f)) \in Seq(Byte)
      /\ SubSeq(f, 1, k) \o SubSeq(f, k + 1, Len(f)) = f
  BY <1>1, <1>2, <1>3, CutInTwo, Zenon DEF f
<1> QED
  BY <1>1, <1>4, Zenon DEF f

(* The step of the server that writes a frame. *)
LEMMA WrittenType == ASSUME NEW n \in Nets, NEW p \in Sendable, Written(n, p) PROVE net' \in Nets
<1>1. PICK x, y \in Seq(Byte) :
             x \o y = WriteTo(p) /\ net' = [n EXCEPT !.wire = n.wire \o x, !.out = y]
  BY WrittenBytes, Zenon
<1>2. n.wire \in Seq(Byte)
  BY Zenon DEF Nets
<1>3. n.wire \o x \in Seq(Byte)
  BY <1>2, Joined, Zenon
<1> QED
  BY <1>1, <1>3, Zenon DEF Nets

(* What is sent: a command, and a sentinel. *)
Queued == [n : 0..MaxCommands, ID : Int32]

(* A request is packets for the server. *)
LEMMA RequestType ==
    ASSUME NEW c \in 0..MaxCommands, NEW r \in Int32
    PROVE  Request(c, r) \in Seq(Queued) /\ Sentinel(r) \in Seq(Queued)
<1>1. [n |-> c, ID |-> r] \in Queued /\ [n |-> 0, ID |-> NextID(r)] \in Queued
  BY NextIDProperties, ClientAssumption DEF Queued
<1>2. <<[n |-> c, ID |-> r]>> \in Seq(Queued) /\ Sentinel(r) \in Seq(Queued)
  BY <1>1 DEF Sentinel
<1>3. \A s, t \in Seq(Queued) : s \o t \in Seq(Queued)
  BY ConcatProperties, Zenon
<1> QED
  BY <1>2, <1>3, Zenon DEF Request

(* The server answers one of the packets it is sent. *)
LEMMA HeadType ==
    ASSUME NEW q \in Seq(Queued), q # <<>>
    PROVE  Head(q) \in Queued /\ Tail(q) \in Seq(Queued) /\ Head(q).ID \in Int32
<1>1. Head(q) \in Queued /\ Tail(q) \in Seq(Queued)
  BY HeadTailProperties, Zenon
<1> QED
  BY <1>1, Zenon DEF Queued

(* What is read is bytes, and an error is one that ReadFrom knows. *)
LEMMA PacketType ==
    ASSUME ByteType
    PROVE  /\ Packet1.rest \in Seq(Byte) /\ Packet1.p.Body \in Seq(Byte)
           /\ Packet1.err \in {"nil", "wait"} \cup Errors
           /\ [net EXCEPT !.wire = Packet1.rest] \in Nets
<1>1. net.wire \in Seq(Byte)
  BY Zenon DEF ByteType, Nets
<1>2. /\ Packet1.rest \in Seq(Byte) /\ Packet1.p.Body \in Seq(Byte)
      /\ Packet1.err \in {"nil", "EOF", "timeout", "wait", "ErrUnexpectedEOF", "ErrResponseTooLong", "ErrResponseTooShort"}
  BY <1>1, ReadFromType, Zenon DEF Packet1
<1>3. Packet1.err \in {"nil", "wait"} \cup Errors
  BY <1>2, Zenon DEF Errors, NetErrors, ReadErrs
<1>4. [net EXCEPT !.wire = Packet1.rest] \in Nets
  BY <1>2, ZenonT(40) DEF ByteType, Nets
<1> QED
  BY <1>2, <1>3, <1>4, Zenon

(* The server's steps. *)
LEMMA ServerType ==
    ASSUME CallType, ByteType, ServerStep
    PROVE  CallType' /\ ByteType'
<1>1. UNCHANGED clientVars
  BY Zenon DEF ServerStep, ServerRun, ServerEcho, ServerWrite, Arrive, Drop, LateRun
<1>2. clean' \in BOOLEAN
  BY Zenon DEF ServerStep, ServerRun, ServerEcho, ServerWrite, Arrive, Drop, LateRun, CallType
<1>3. CallType'
  BY <1>1, <1>2, Zenon DEF CallType, clientVars, conf, callVars, connVars, doneVars
<1>4. SUFFICES net' \in Nets
  BY <1>1, <1>3, Zenon DEF ByteType, clientVars, connVars
<1> net \in Nets
  BY Zenon DEF ByteType
<1>5. CASE ServerRun
  <2>1. PICK n \in Commands :
        /\ ServerReads(n)
        /\ net' = [net EXCEPT !.inq = Tail(@), !.busy = TRUE, !.ans = Head(net.inq).ID, !.rest = Response(n)]
    BY <1>5, Zenon DEF ServerRun
  <2>2. net.inq \in Seq(Queued) /\ net.inq # <<>>
    BY <2>1, Zenon DEF Nets, Queued, ServerReads
  <2>3. Tail(net.inq) \in Seq(Queued) /\ Head(net.inq).ID \in Int32
    BY <2>2, HeadType, Zenon
  <2>4. Response(n) \in Seq(Byte)
    BY ResponseType, ClientAssumption DEF CallType, Commands
  <2> QED
    BY <2>1, <2>3, <2>4, Zenon DEF Nets, Queued
<1>6. CASE ServerEcho
  <2>1. net.inq \in Seq(Queued) /\ net.inq # <<>>
    BY <1>6, Zenon DEF Nets, Queued, ServerEcho, ServerReads
  <2>2. Tail(net.inq) \in Seq(Queued) /\ Head(net.inq).ID \in Int32
    BY <2>1, HeadType, Zenon
  <2>3. [net EXCEPT !.inq = Tail(@)] \in Nets
    BY <2>2, Zenon DEF Nets, Queued
  <2>4. [ID |-> Head(net.inq).ID, Type |-> 0, Body |-> <<>>] \in Sendable
    BY <2>2, Int32Small, FramingAssumption DEF Sendable, Packet
  <2> QED
    BY <1>6, <2>3, <2>4, WrittenType, Zenon DEF ServerEcho
<1>7. CASE ServerWrite
  <2>1. net.rest \in Seq(Byte) /\ net.ans \in Int32
    BY Zenon DEF Nets
  <2>2. Chunk(net.rest) \in Seq(Byte) /\ AfterChunk(net.rest) \in Seq(Byte) /\ Len(Chunk(net.rest)) <= MaxPayloadSize
    BY <2>1, ChunkType, ResponseIsSplit, Zenon
  <2>3. [net EXCEPT !.rest = AfterChunk(@), !.busy = AfterChunk(net.rest) # <<>>] \in Nets
    BY <2>2, Zenon DEF Nets
  <2>4. [ID |-> net.ans, Type |-> 0, Body |-> Chunk(net.rest)] \in Sendable
    BY <2>1, <2>2, Int32Small, Zenon DEF Sendable, Packet
  <2> QED
    BY <1>7, <2>3, <2>4, WrittenType, Zenon DEF ServerWrite
<1>8. CASE Arrive
  <2>1. net.wire \o net.out \in Seq(Byte) /\ <<>> \in Seq(Byte)
    BY Joined DEF Nets
  <2> QED
    BY <1>8, <2>1, Zenon DEF Arrive, Nets
<1>9. CASE Drop
  <2>1. PICK w \in {net.wire, <<>>} : net' = [NoNet EXCEPT !.wire = w, !.torn = net.torn]
    BY <1>9, Zenon DEF Drop
  <2>2. net.torn \in 0..MaxCommands /\ net.wire \in Seq(Byte) /\ <<>> \in Seq(Byte) /\ <<>> \in Seq(Queued)
    BY DEF Nets
  <2>3. w \in Seq(Byte)
    BY <2>2, Zenon
  <2>4. net' = [up |-> FALSE, inq |-> <<>>, busy |-> FALSE, ans |-> 0, rest |-> <<>>, out |-> <<>>, wire |-> w,
                 torn |-> net.torn]
    BY <2>1, Zenon DEF NoNet
  <2> QED
    BY <2>2, <2>3, <2>4, Int32Small, Zenon DEF Nets, Queued
<1>10. CASE LateRun
  BY <1>10, Zenon DEF LateRun
<1> QED
  BY <1>5, <1>6, <1>7, <1>8, <1>9, <1>10, Zenon DEF ServerStep

(* The types at the start. *)
LEMMA InitType == Init => CallType /\ ByteType
<1> SUFFICES ASSUME Init PROVE CallType /\ ByteType
  BY Zenon
<1>1. mode \in {"multi", "single", "idle"}
  BY ProgramTypes DEF Init
<1>2. NoNet \in Nets
  BY Int32Small, ClientAssumption DEF NoNet, Nets
<1>3. 0 \in 0..Max /\ 0 \in 0..MaxCommands
  BY ClientAssumption
<1> QED
  BY <1>1, <1>2, <1>3, Int32Small DEF Init, CallType, ByteType, Errors, Codes, Places

(* What the programs do before and between calls. *)
LEMMA ProgramType ==
    ASSUME CallType, ByteType, MainEnds \/ RunSingle \/ RunInteractive \/ UserStep
    PROVE  CallType' /\ ByteType'
<1>1. CASE MainEnds
  <2>1. code' \in Codes
    BY <1>1, ProgramTypes DEF MainEnds, Codes
  <2> QED
    BY <1>1, <2>1, Zenon DEF MainEnds, CallType, ByteType, conf, callVars, connVars, Places
<1>2. ASSUME TakeCommand, cmd' \in 0..MaxCommands, mode' \in {"multi", "single", "idle"}, pc' \in Places \ {"start"}, attempt' \in Nat
      PROVE  CallType' /\ ByteType'
  <2>1. check' \in {"nil"} \cup CommandErrs
    BY <1>2, Zenon DEF TakeCommand, CommandErrs
  <2> QED
    BY <1>2, <2>1, EmptySeq DEF TakeCommand, CallType, ByteType, connVars, Errors, Codes
<1>3. CASE RunSingle
  <2>1. cmd' \in 0..MaxCommands
    BY <1>3, ClientAssumption DEF RunSingle, TakeCommand, CallType
  <2>2. mode' \in {"multi", "single", "idle"}
    BY <1>3, ProgramTypes DEF RunSingle
  <2> QED
    BY <1>2, <1>3, <2>1, <2>2, Zenon DEF RunSingle, Places
<1>4. CASE RunInteractive
  <2>1. mode' \in {"multi", "single", "idle"}
    BY <1>4, ProgramTypes, ZenonT(40) DEF RunInteractive
  <2> QED
    BY <1>4, <2>1, Zenon DEF RunInteractive, CallType, ByteType, connVars, doneVars, Places
<1>5. cmd < opt.cmds => cmd + 1 \in 0..MaxCommands
  BY ClientAssumption DEF CallType
<1>6. CASE SessionExecute
  BY <1>2, <1>5, <1>6 DEF SessionExecute, TakeCommand, Places, CallType
<1>7. CASE HttpRefuse
  <2>1. code' \in Codes
    BY <1>7, ProgramTypes DEF HttpRefuse, Codes
  <2> QED
    BY <1>5, <1>7, <2>1, Zenon DEF HttpRefuse, CallType, ByteType, conf, connVars
<1>8. CASE Quit
  <2>1. code' \in Codes /\ net \in Nets
    BY <1>8 DEF Quit, Codes, CallType, ByteType
  <2>2. net' \in Nets /\ conn' \in {"none", "open", "closed"}
    BY <1>8, <2>1, ConnType, Zenon DEF Quit
  <2> QED
    BY <1>8, <2>1, <2>2, Zenon DEF Quit, CallType, ByteType, conf, callVars, Places
<1> QED
  BY <1>1, <1>3, <1>4, <1>6, <1>7, <1>8, Zenon DEF UserStep

(* Dialing and waiting. *)
LEMMA DialType ==
    ASSUME CallType, ByteType, Dialed \/ DialError \/ Authenticated \/ AuthError \/ BackoffOver \/ BackoffCancelled \/ Tick
    PROVE  CallType' /\ ByteType'
<1>1. CASE Dialed
  <2>1. <<>> \in Seq(Byte) /\ <<>> \in Seq([n : 0..MaxCommands, ID : Int32]) /\ 0 \in 0..MaxCommands
    BY ClientAssumption
  <2>2. net' = [up |-> TRUE, inq |-> <<>>, busy |-> FALSE, ans |-> 0, rest |-> <<>>, out |-> <<>>, wire |-> <<>>,
                 torn |-> 0]
    BY <1>1, Zenon DEF Dialed, NoNet
  <2>3. net' \in Nets
    BY <2>1, <2>2, Int32Small, Zenon DEF Nets
  <2> QED
    BY <1>1, <2>3, Zenon DEF Dialed, CallType, ByteType, conf, doneVars, Places
<1>2. CASE DialError \/ AuthError
  <2>1. PICK e \in Errors : DialReturned(e)
    BY <1>2, Zenon DEF DialError, AuthError, Errors, NetErrors, ReadErrs
  <2>2. UNCHANGED <<conf, cmd, check, id, req, acc, first>> /\ clean' \in BOOLEAN
    BY <1>2, Zenon DEF DialError, AuthError
  <2>3. CallType' /\ net' \in Nets
    BY <2>1, <2>2, DialReturnedType, Zenon
  <2> QED
    BY <2>2, <2>3, Zenon DEF ByteType
<1>3. CASE Authenticated
  BY <1>3, Int32Small DEF Authenticated, CallType, ByteType, conf, doneVars, Places
<1>4. CASE BackoffOver
  <2>1. attempt + 1 \in Nat /\ UNCHANGED <<conf, cmd, check, conn, clean, net, id, req, acc, first>> /\ Redial(attempt + 1)
    BY <1>4 DEF BackoffOver, CallType, connVars
  <2>2. CallType'
    BY <2>1, RedialType, Zenon DEF CallType
  <2> QED
    BY <2>1, <2>2, Zenon DEF ByteType
<1>5. CASE BackoffCancelled
  <2>1. UNCHANGED <<conf, cmd, check, conn, clean, net, id, req, acc, first>> /\ Return("DeadlineExceeded", <<>>, "end")
        /\ code' = ExitCode("DeadlineExceeded")
    BY <1>5, Zenon DEF BackoffCancelled, connVars
  <2>2. "DeadlineExceeded" \in Errors /\ code' \in Codes /\ <<>> \in Seq(Byte)
    BY <2>1, ProgramTypes DEF Errors, NetErrors
  <2>3. CallType'
    BY <2>1, <2>2, ReturnType, Zenon DEF CallType
  <2> QED
    BY <2>1, <2>3, Zenon DEF ByteType
<1>6. CASE Tick
  <2>1. wait' \in 0..Max
    BY <1>6, ClientAssumption DEF Tick, Blocked, CallType
  <2>2. clean' \in BOOLEAN
    BY <1>6, Zenon DEF Tick, CallType
  <2> QED
    BY <1>6, <2>1, <2>2, Zenon DEF Tick, CallType, ByteType, conf, connVars, doneVars
<1> QED
  BY <1>1, <1>2, <1>3, <1>4, <1>5, <1>6, Zenon

(* Conn.Execute. *)
LEMMA ExecuteType ==
    ASSUME CallType, ByteType, SendError \/ Send \/ Read \/ ReadError
    PROVE  CallType' /\ ByteType'
<1>1. net \in Nets /\ UNCHANGED <<conf, cmd, check, clean>> /\ clean' \in BOOLEAN /\ <<>> \in Seq(Byte)
  BY DEF SendError, Send, Read, ReadError, execVars, ByteType, CallType
<1>2. CASE SendError
  <2>1. PICK e : /\ e \in {"ErrClosed", check, "timeout", "net"} /\ (e = check => check # "nil")
                 /\ ConnReturned(e, <<>>, net) /\ id' = IF e \in NetErrors THEN NextID(id) ELSE id
    BY <1>2, Zenon DEF SendError, CallType, CommandErrs
  <2>2. e \in Errors
    BY <2>1, Zenon DEF Errors, NetErrors, CallType
  <2>3. CallType' /\ net' \in Nets
    BY <1>1, <2>1, <2>2, ConnReturnedType, Zenon
  <2>4. id' \in Int32
    BY <2>1, NextIDProperties, Zenon DEF ByteType
  <2> QED
    BY <1>2, <2>3, <2>4, Zenon DEF SendError, ByteType
<1>3. CASE Send
  <2>1. req' \in Int32 /\ id' \in Int32
    BY <1>3, NextIDProperties, Zenon DEF Send, ByteType
  <2>2. net.inq \in Seq(Queued) /\ Request(cmd, req') \in Seq(Queued)
    BY <1>1, <2>1, RequestType, Zenon DEF CallType, Nets, Queued
  <2>3. net.inq \o Request(cmd, req') \in Seq(Queued)
    BY <2>2, ConcatProperties, Zenon
  <2>4. net' \in Nets
    BY <1>1, <1>3, <2>3, Zenon DEF Send, Nets, Queued
  <2> QED
    BY <1>1, <1>3, <2>1, <2>4, Zenon DEF Send, CallType, ByteType, conf, doneVars, Places
<1>4. CASE Read
  <2> DEFINE n == [net EXCEPT !.wire = Packet1.rest]
  <2>1. n \in Nets /\ Packet1.p.Body \in Seq(Byte) /\ acc \in Seq(Byte)
    BY PacketType, Zenon DEF ByteType
  <2>2. ReadResponse(Packet1.p, n)
    BY <1>4, Zenon DEF Read
  <2> HIDE DEF n
  <2>3. CASE /\ \E e \in Errors, body \in Seq(Byte) : ConnReturned(e, body, n)
             /\ acc' = <<>> /\ first' = TRUE
    <3>1. CallType' /\ net' \in Nets
      BY <1>1, <2>1, <2>3, ConnReturnedType, Zenon
    <3> QED
      BY <1>1, <1>4, <2>3, <3>1, Zenon DEF Read, ByteType
  <2>4. CASE /\ acc' = IF Mine(Packet1.p) THEN acc \o Packet1.p.Body ELSE acc
             /\ first' = FALSE
             /\ KeepConn(n) /\ UNCHANGED <<pc, attempt, elapsed, wait, doneVars>>
    <3>1. acc' \in Seq(Byte)
      BY <2>1, <2>4, Joined, Zenon
    <3> QED
      BY <1>1, <1>4, <2>1, <2>4, <3>1, Zenon DEF Read, ByteType, CallType, KeepConn, conf, doneVars
  <2>5. {"nil", "ErrResponseMismatch"} \subseteq Errors
    BY Zenon DEF Errors
  <2> QED
    BY <1>1, <2>1, <2>2, <2>3, <2>4, <2>5, Zenon DEF ReadResponse
<1>5. CASE ReadError
  <2> DEFINE m == [net EXCEPT !.wire = Packet1.rest]
             n == [net EXCEPT !.wire = Packet1.rest, !.torn = Torn]
  <2>0. Torn \in 0..MaxCommands /\ m \in Nets
    BY <1>1, PacketType, Zenon DEF Torn, CallType, Nets
  <2>1. n \in Nets /\ Packet1.err \in {"nil", "wait"} \cup Errors /\ acc \in Seq(Byte) /\ {"nil", "net"} \subseteq Errors
    <3>1. n \in Nets
      BY <1>1, <2>0, Zenon DEF Nets
    <3> QED
      BY <3>1, PacketType, Zenon DEF ByteType, Errors, NetErrors
  <2>2. PICK e \in ({Packet1.err} \ {"nil", "wait"}) \cup (IF net.up THEN {} ELSE {"net"}) :
          ConnReturned("nil", acc, n) \/ ConnReturned(e, <<>>, n)
    BY <1>5, Zenon DEF ReadError
  <2> HIDE DEF n
  <2>3. e \in Errors
    BY <2>1, Zenon
  <2>4. CallType' /\ net' \in Nets
    BY <1>1, <2>1, <2>2, <2>3, ConnReturnedType, Zenon
  <2> QED
    BY <1>1, <1>5, <2>4, Zenon DEF ReadError, ByteType
<1> QED
  BY <1>2, <1>3, <1>4, <1>5, Zenon

(* The types hold after every step, *)
LEMMA TypeStep == ASSUME CallType, ByteType, [Next]_vars PROVE CallType' /\ ByteType'
<1>1. CASE UNCHANGED vars
  BY <1>1, Zenon DEF vars, conf, callVars, connVars, doneVars, CallType, ByteType
<1> QED
  BY <1>1, ServerType, ProgramType, DialType, ExecuteType, Zenon DEF Next, ClientStep, UserStep

-----------------------------------------------------------------------------
(* The answer to request q as the server writes it: what is left of the    *)
(* response, and whether the sentinel was answered.  Frame(q, m, p, a, b): *)
(* p is a packet it may write next, and leads from a to b.                 *)
States == [left : Seq(Byte), echoed : BOOLEAN]
Frame(q, m, p, a, b) ==
    /\ ~a.echoed
    /\ \/ /\ p = [ID |-> q, Type |-> 0, Body |-> Chunk(a.left)]
          /\ b = [left |-> AfterChunk(a.left), echoed |-> FALSE]
       \/ /\ m = "multi" /\ a.left = <<>>
          /\ p = [ID |-> NextID(q), Type |-> 0, Body |-> <<>>]
          /\ b = [left |-> <<>>, echoed |-> TRUE]

(* The bytes w are such packets and lead from a to b: R are the bytes      *)
(* before each of them, and L the states.                                  *)
Cuttings(q, m, k, R, L) ==
    \A i \in 0..k - 1 : \E p \in Sendable : R[i] = WriteTo(p) \o R[i + 1] /\ Frame(q, m, p, L[i], L[i + 1])
Flow(q, m, w, a, b) ==
    \E k \in Nat : \E R \in [0..k -> Seq(Byte)], L \in [0..k -> States] :
        R[0] = w /\ R[k] = <<>> /\ L[0] = a /\ L[k] = b /\ Cuttings(q, m, k, R, L)

(* No packets. *)
LEMMA FlowNone == ASSUME NEW q, NEW m, NEW a \in States PROVE Flow(q, m, <<>>, a, a)
<1> DEFINE R == [i \in 0..0 |-> <<>>]
           L == [i \in 0..0 |-> a]
<1>1. R \in [0..0 -> Seq(Byte)] /\ L \in [0..0 -> States] /\ R[0] = <<>> /\ L[0] = a
  BY EmptySeq
<1>2. Cuttings(q, m, 0, R, L)
  BY DEF Cuttings
<1> HIDE DEF R, L
<1> QED
  BY <1>1, <1>2, Zenon DEF Flow

(* writeResponse appends a packet. *)
LEMMA FlowAdd ==
    ASSUME NEW q, NEW m, NEW w, NEW a, NEW b, NEW c \in States, Flow(q, m, w, a, b), NEW p \in Sendable,
           Frame(q, m, p, b, c)
    PROVE  Flow(q, m, w \o WriteTo(p), a, c)
<1>1. PICK k \in Nat : \E R \in [0..k -> Seq(Byte)], L \in [0..k -> States] :
        R[0] = w /\ R[k] = <<>> /\ L[0] = a /\ L[k] = b /\ Cuttings(q, m, k, R, L)
  BY Zenon DEF Flow
<1>2. PICK R \in [0..k -> Seq(Byte)], L \in [0..k -> States] :
        R[0] = w /\ R[k] = <<>> /\ L[0] = a /\ L[k] = b /\ Cuttings(q, m, k, R, L)
  BY <1>1, Zenon
<1> DEFINE f == WriteTo(p)
           n == k + 1
           R2 == [i \in 0..n |-> IF i <= k THEN R[i] \o f ELSE <<>>]
           L2 == [i \in 0..n |-> IF i <= k THEN L[i] ELSE c]
<1>3. f \in Seq(Byte)
  BY SentBytes, Zenon
<1> HIDE DEF f
<1>4. R2 \in [0..n -> Seq(Byte)] /\ L2 \in [0..n -> States]
  <2>1. ASSUME NEW i \in 0..n
        PROVE  /\ (IF i <= k THEN R[i] \o f ELSE <<>>) \in Seq(Byte)
               /\ (IF i <= k THEN L[i] ELSE c) \in States
    <3>1. CASE i <= k
      <4>1. i \in 0..k
        BY <3>1
      <4>2. R[i] \in Seq(Byte) /\ L[i] \in States
        BY <4>1, Zenon
      <4>3. R[i] \o f \in Seq(Byte)
        BY <1>3, <4>2, ConcatProperties, Zenon
      <4> QED
        BY <3>1, <4>2, <4>3, Zenon
    <3>2. CASE ~(i <= k)
      BY <3>2, EmptySeq, Zenon
    <3> QED
      BY <3>1, <3>2, Zenon
  <2> QED
    BY <2>1, Zenon
<1>5. /\ n \in Nat /\ R2[0] = w \o f /\ R2[n] = <<>> /\ L2[0] = a /\ L2[n] = c
      /\ \A i \in 0..k : R2[i] = R[i] \o f /\ L2[i] = L[i] /\ R[i] \in Seq(Byte)
  <2>1. n \in Nat /\ 0 \in 0..k /\ n \in 0..n /\ ~(n <= k) /\ \A i \in 0..k : i \in 0..n /\ i <= k
    OBVIOUS
  <2> HIDE DEF n
  <2>2. R2[n] = <<>> /\ L2[n] = c
    BY <2>1, Zenon
  <2>3. ASSUME NEW i \in 0..k PROVE R2[i] = R[i] \o f /\ L2[i] = L[i] /\ R[i] \in Seq(Byte)
    BY <2>1, Zenon
  <2> HIDE DEF R2, L2
  <2> QED
    BY <1>2, <2>1, <2>2, <2>3, Zenon
<1> HIDE DEF R2, L2, n
<1>6. Cuttings(q, m, n, R2, L2)
  <2> SUFFICES ASSUME NEW i \in 0..n - 1
               PROVE  \E x \in Sendable : R2[i] = WriteTo(x) \o R2[i + 1] /\ Frame(q, m, x, L2[i], L2[i + 1])
    BY Zenon DEF Cuttings
  <2>1. CASE i = k
    <3>1. k \in 0..k /\ i + 1 = n
      BY <2>1 DEF n
    <3>2. R2[i] = <<>> \o f /\ L2[i] = b /\ R2[i + 1] = <<>> /\ L2[i + 1] = c
      BY <1>2, <1>5, <2>1, <3>1, Zenon
    <3>3. <<>> \o f = f /\ f \o <<>> = f
      BY <1>3, ConcatEmptySeq, Zenon
    <3> QED
      BY <3>2, <3>3, Zenon DEF f
  <2>2. CASE i # k
    <3>1. i \in 0..k - 1 /\ i \in 0..k /\ i + 1 \in 0..k
      BY <2>2 DEF n
    <3>2. PICK x \in Sendable : R[i] = WriteTo(x) \o R[i + 1] /\ Frame(q, m, x, L[i], L[i + 1])
      BY <1>2, <3>1, Zenon DEF Cuttings
    <3>3. R2[i] = (WriteTo(x) \o R[i + 1]) \o f /\ R2[i + 1] = R[i + 1] \o f /\ R[i + 1] \in Seq(Byte)
          /\ L2[i] = L[i] /\ L2[i + 1] = L[i + 1]
      BY <1>5, <3>1, <3>2, Zenon
    <3>4. WriteTo(x) \in Seq(Byte)
      BY SentBytes, Zenon
    <3>5. (WriteTo(x) \o R[i + 1]) \o f = WriteTo(x) \o (R[i + 1] \o f)
      BY <1>3, <3>3, <3>4, JoinedThrice, Zenon
    <3> QED
      BY <3>2, <3>3, <3>5, Zenon
  <2> QED
    BY <2>1, <2>2, Zenon
<1> QED
  BY <1>4, <1>5, <1>6, Zenon DEF Flow, f

(* The first packet, if there is one, and the others. *)
LEMMA FlowHead ==
    ASSUME NEW q, NEW m, NEW w, NEW a, NEW b, Flow(q, m, w, a, b)
    PROVE  /\ a \in States /\ b \in States /\ w \in Seq(Byte)
           /\ \/ w = <<>> /\ a = b
              \/ \E p \in Sendable, c \in States, r \in Seq(Byte) :
                    w = WriteTo(p) \o r /\ Frame(q, m, p, a, c) /\ Flow(q, m, r, c, b)
<1>1. PICK k \in Nat : \E R \in [0..k -> Seq(Byte)], L \in [0..k -> States] :
        R[0] = w /\ R[k] = <<>> /\ L[0] = a /\ L[k] = b /\ Cuttings(q, m, k, R, L)
  BY Zenon DEF Flow
<1>2. PICK R \in [0..k -> Seq(Byte)], L \in [0..k -> States] :
        R[0] = w /\ R[k] = <<>> /\ L[0] = a /\ L[k] = b /\ Cuttings(q, m, k, R, L)
  BY <1>1, Zenon
<1>3. a \in States /\ b \in States /\ w \in Seq(Byte)
  BY <1>2
<1>4. CASE k = 0
  BY <1>2, <1>3, <1>4, Zenon
<1>5. CASE k # 0
  <2> DEFINE n == k - 1
             R2 == [i \in 0..n |-> R[i + 1]]
             L2 == [i \in 0..n |-> L[i + 1]]
  <2>1. R2 \in [0..n -> Seq(Byte)] /\ L2 \in [0..n -> States] /\ n \in Nat
    BY <1>5
  <2>2. /\ R2[0] = R[1] /\ L2[0] = L[1] /\ R[1] \in Seq(Byte) /\ L[1] \in States /\ R2[n] = <<>> /\ L2[n] = b
        /\ \A i \in 0..n - 1 : R2[i] = R[i + 1] /\ R2[i + 1] = R[(i + 1) + 1] /\ L2[i] = L[i + 1]
                               /\ L2[i + 1] = L[(i + 1) + 1] /\ i + 1 \in 0..k - 1
    <3>1. n + 1 = k /\ 0 + 1 = 1 /\ n \in 0..n /\ 0 \in 0..n /\ 1 \in 0..k
          /\ \A i \in 0..n - 1 : i \in 0..n /\ i + 1 \in 0..n /\ i + 1 \in 0..k - 1
      BY <1>5
    <3> HIDE DEF n
    <3>2. \A i \in 0..n : R2[i] = R[i + 1] /\ L2[i] = L[i + 1]
      BY Zenon
    <3> HIDE DEF R2, L2
    <3> QED
      BY <1>2, <3>1, <3>2, Zenon
  <2> HIDE DEF R2, L2
  <2>3. Cuttings(q, m, n, R2, L2)
    <3> SUFFICES ASSUME NEW i \in 0..n - 1
                 PROVE  \E x \in Sendable : R2[i] = WriteTo(x) \o R2[i + 1] /\ Frame(q, m, x, L2[i], L2[i + 1])
      BY Zenon DEF Cuttings
    <3>1. PICK x \in Sendable : R[i + 1] = WriteTo(x) \o R[(i + 1) + 1] /\ Frame(q, m, x, L[i + 1], L[(i + 1) + 1])
      BY <1>2, <2>2, Zenon DEF Cuttings
    <3> QED
      BY <2>2, <3>1, Zenon
  <2>4. Flow(q, m, R[1], L[1], b)
    BY <2>1, <2>2, <2>3, Zenon DEF Flow
  <2>5. 0 \in 0..k - 1 /\ 0 + 1 = 1
    BY <1>5
  <2>6. PICK p \in Sendable : R[0] = WriteTo(p) \o R[1] /\ Frame(q, m, p, L[0], L[1])
    BY <1>2, <2>5, Zenon DEF Cuttings
  <2> QED
    BY <1>2, <1>3, <2>2, <2>4, <2>6, Zenon
<1> QED
  BY <1>4, <1>5, Zenon

(* The packets of an answer can be sent. *)
LEMMA FrameSendable ==
    ASSUME NEW q \in Int32, NEW m, NEW a \in States
    PROVE  /\ [ID |-> q, Type |-> 0, Body |-> Chunk(a.left)] \in Sendable
           /\ [ID |-> q, Type |-> 0, Body |-> <<>>] \in Sendable
           /\ [left |-> AfterChunk(a.left), echoed |-> FALSE] \in States
           /\ Chunk(a.left) \in Seq(Byte) /\ Chunk(a.left) \o AfterChunk(a.left) = a.left
<1>1. a.left \in Seq(Byte)
  BY Zenon DEF States
<1>2. /\ Len(Chunk(a.left)) <= MaxPayloadSize
      /\ Chunk(a.left) \o AfterChunk(a.left) = a.left
  BY <1>1, ResponseIsSplit, Zenon
<1>3. Chunk(a.left) \in Seq(Byte) /\ AfterChunk(a.left) \in Seq(Byte)
  BY <1>1, ChunkType, Zenon
<1>4. 0 \in Int32 /\ Len(<<>>) <= MaxPayloadSize /\ <<>> \in Seq(Byte)
  BY FramingAssumption, Int32Small
<1> QED
  BY <1>2, <1>3, <1>4, Zenon DEF Sendable, Packet, States

(* What the client reads of an answer: a packet of it, or how the stream   *)
(* ends.                                                                   *)
LEMMA ReadFlow ==
    ASSUME NEW q, NEW m, NEW a, NEW b, NEW s \in Seq(Byte), NEW t \in Seq(Byte), Flow(q, m, s \o t, a, b),
           NEW end \in {"EOF", "timeout", "wait"}
    PROVE  \/ \E p \in Sendable, c \in States, u \in Seq(Byte) :
                 /\ ReadFrom(s, end) = [err |-> "nil", p |-> p, rest |-> u]
                 /\ Frame(q, m, p, a, c) /\ Flow(q, m, u \o t, c, b)
           \/ ReadFrom(s, end).err \in {end, "ErrUnexpectedEOF"} /\ ReadFrom(s, end).rest = <<>>
<1>1. CASE s \o t = <<>>
  <2>1. s = <<>>
    BY <1>1, Joined, EmptySeq
  <2> QED
    BY <2>1 DEF ReadFrom, ReadFull
<1>2. CASE \E p \in Sendable, c \in States, r \in Seq(Byte) :
                    s \o t = WriteTo(p) \o r /\ Frame(q, m, p, a, c) /\ Flow(q, m, r, c, b)
  <2>1. PICK p \in Sendable, c \in States, r \in Seq(Byte) :
                    s \o t = WriteTo(p) \o r /\ Frame(q, m, p, a, c) /\ Flow(q, m, r, c, b)
    BY <1>2, Zenon
  <2>2. p \in Packet /\ Len(p.Body) <= MaxPayloadSize
    BY Zenon DEF Sendable
  <2>3. \/ \E u \in Seq(Byte) : u \o t = r /\ ReadFrom(s, end) = [err |-> "nil", p |-> p, rest |-> u]
        \/ /\ ReadFrom(s, end).err \in {end, "ErrUnexpectedEOF"}
           /\ ReadFrom(s, end).rest = <<>>
    BY <2>1, <2>2, ReadsOrEnds, Zenon
  <2> QED
    BY <2>1, <2>3, Zenon
<1> QED
  BY <1>1, <1>2, FlowHead, Zenon

-----------------------------------------------------------------------------
(* The connection at rest: nothing on its way in either direction.        *)
Clear == net.up /\ ~net.busy /\ net.inq = <<>> /\ net.wire = <<>> /\ net.out = <<>>

(* The connection lost, and nothing left to read. *)
Gone == ~net.up /\ net.wire = <<>>

(* The next packet the client reads is for the request o: its frame has    *)
(* begun to arrive, or the server is about to write it.                    *)
Leads(o) ==
    \E t \in Seq(Byte), p \in Sendable, r \in Seq(Byte) :
        (net.up => t = net.out) /\ p.ID = o /\ net.wire \o t = WriteTo(p) \o r
Stale(o) == Leads(o) \/ (net.up /\ net.busy /\ net.ans = o /\ net.wire = <<>> /\ net.out = <<>>)

(* The server has the request still to read ... *)
Unread == net.up /\ ~net.busy /\ net.inq = Request(cmd, req) /\ net.wire = <<>> /\ net.out = <<>> /\ acc = <<>>

(* ... or answers it: what is on the wire, and then t, leads from a, which *)
(* is what the client has read, to b, which is where the server is.        *)
Serves(b) ==
    /\ net.inq = IF b.echoed THEN <<>> ELSE Sentinel(req)
    /\ net.busy => ~b.echoed /\ net.ans = req /\ net.rest = b.left
    /\ ~net.busy => b.left = <<>>
AnsweredBy(t, a, b) ==
    /\ net.up => t = net.out /\ Serves(b)
    /\ Flow(req, mode, net.wire \o t, a, b)
    /\ ~a.echoed /\ acc \o a.left = Response(cmd)
Answering == runs[cmd] > 0 /\ \E t \in Seq(Byte), a, b \in States : AnsweredBy(t, a, b)
Own == Gone \/ Unread \/ Answering

(* What a frame does to the stream: it is at the end of it. *)
LEMMA WrittenJoined ==
    ASSUME NEW n \in Nets, NEW p \in Sendable, Written(n, p)
    PROVE  /\ net'.wire \o net'.out = n.wire \o WriteTo(p)
           /\ net'.wire \in Seq(Byte) /\ net'.out \in Seq(Byte)
           /\ net'.up = n.up /\ net'.inq = n.inq /\ net'.busy = n.busy /\ net'.ans = n.ans /\ net'.rest = n.rest
<1>1. PICK x, y \in Seq(Byte) :
             x \o y = WriteTo(p) /\ net' = [n EXCEPT !.wire = n.wire \o x, !.out = y]
  BY WrittenBytes, Zenon
<1>2. /\ net'.wire = n.wire \o x /\ net'.out = y
      /\ net'.up = n.up /\ net'.inq = n.inq /\ net'.busy = n.busy /\ net'.ans = n.ans /\ net'.rest = n.rest
  BY <1>1, Zenon DEF Nets
<1>3. n.wire \in Seq(Byte)
  BY DEF Nets
<1>4. (n.wire \o x) \o y = n.wire \o (x \o y) /\ n.wire \o x \in Seq(Byte)
  BY <1>3, JoinedThrice, Joined, Zenon
<1> QED
  BY <1>1, <1>2, <1>4, Zenon

(* A stream that begins with a frame is not empty. *)
LEMMA NoFrameEmpty == ASSUME NEW x \in Sendable, NEW r \in Seq(Byte), <<>> \o <<>> = WriteTo(x) \o r PROVE FALSE
<1>1. WriteTo(x) # <<>> /\ WriteTo(x) \in Seq(Byte)
  BY SentBytes, FrameSize, Zenon DEF Sendable
<1>2. Len(WriteTo(x)) > 0 /\ Len(WriteTo(x) \o r) = Len(WriteTo(x)) + Len(r) /\ Len(r) \in Nat /\ Len(WriteTo(x)) \in Nat
  BY <1>1, Joined, EmptySeq
<1>3. Len(<<>> \o <<>>) = 0
  BY ConcatEmptySeq, EmptySeq, Zenon
<1>4. Len(WriteTo(x) \o r) = 0
  BY <1>3, Zenon
<1> QED
  BY <1>2, <1>4

(* Commands are run more and more often. *)
LEMMA RunsGrow ==
    ASSUME runs \in [Commands -> Nat], [Next]_vars
    PROVE  runs' \in [Commands -> Nat] /\ \A n \in Commands : runs'[n] \in Nat /\ runs'[n] >= runs[n]
<1>1. CASE UNCHANGED runs
  BY <1>1
<1>2. CASE ServerRun \/ LateRun
  <2>1. PICK n \in Commands : runs' = [runs EXCEPT ![n] = @ + 1]
    BY <1>2, Zenon DEF ServerRun, LateRun
  <2>2. runs[n] \in Nat /\ runs[n] + 1 \in Nat
    OBVIOUS
  <2> QED
    BY <2>1, <2>2
<1> QED
  BY <1>1, <1>2, Zenon DEF Next, ClientStep, UserStep, ServerStep, MainEnds, RunSingle, RunInteractive, SessionExecute, HttpRefuse,
       Quit, TakeCommand, Dialed, DialError, Authenticated, AuthError, BackoffOver, BackoffCancelled, SendError, Send, Read,
       ReadError, ServerEcho, ServerWrite, Arrive, Drop, Tick, execVars, vars

(* A connection that is lost stays so. *)
LEMMA ServerGone == ASSUME Gone, ServerStep PROVE Gone'
BY Zenon DEF Gone, ServerStep, ServerRun, ServerEcho, ServerWrite, ServerReads, Arrive, Drop, LateRun

(* One at rest stays so until it is lost. *)
LEMMA ServerClear == ASSUME ByteType, Clear, ServerStep PROVE Clear' \/ (pc # "auth" /\ Gone')
<1>1. CASE UNCHANGED net
  BY <1>1, Zenon DEF Clear
<1>2. CASE Drop
  BY <1>2, Zenon DEF Drop, NoNet, Clear, Gone
<1> QED
  BY <1>1, <1>2, Zenon DEF Clear, ServerStep, ServerRun, ServerEcho, ServerWrite, ServerReads, Arrive, LateRun

(* A connection that the client loses. *)
LEMMA ServerDrop ==
    ASSUME ByteType, Drop
    PROVE  ~net'.up /\ net'.wire \in {net.wire, <<>>}
BY Zenon DEF Drop, NoNet

(* An old answer stays at the front of the stream. *)
LEMMA ServerStale ==
    ASSUME ByteType, NEW o, Stale(o), ServerStep
    PROVE  Stale(o)' \/ Gone'
<1>1. net \in Nets /\ net.wire \in Seq(Byte) /\ net.out \in Seq(Byte)
  BY Zenon DEF ByteType, Nets
<1>2. CASE UNCHANGED net
  BY <1>2, Zenon DEF Stale, Leads
<1>3. CASE Drop
  <2>1. ~net'.up /\ net'.wire \in {net.wire, <<>>}
    BY <1>3, ServerDrop, Zenon
  <2>2. CASE net'.wire = <<>>
    BY <2>1, <2>2, Zenon DEF Gone
  <2>3. CASE net'.wire = net.wire /\ net.wire # <<>>
    BY <2>1, <2>3, Zenon DEF Stale, Leads
  <2> QED
    BY <2>1, <2>2, <2>3, Zenon
<1>4. CASE Arrive
  <2>1. net'.wire = net.wire \o net.out /\ net'.out = <<>> /\ net'.up /\ net.up /\ net.out # <<>>
    BY <1>1, <1>4, Zenon DEF Arrive, Nets
  <2>2. net.wire \o net.out \in Seq(Byte)
    BY <1>1, Joined, Zenon
  <2>3. (net.wire \o net.out) \o <<>> = net.wire \o net.out /\ <<>> \in Seq(Byte)
    BY <2>2, ConcatEmptySeq
  <2>4. PICK t \in Seq(Byte), p \in Sendable, r \in Seq(Byte) :
          (net.up => t = net.out) /\ p.ID = o /\ net.wire \o t = WriteTo(p) \o r
    BY <2>1, Zenon DEF Stale, Leads
  <2>5. net'.wire \o <<>> = WriteTo(p) \o r
    BY <2>1, <2>3, <2>4, Zenon
  <2>6. Leads(o)'
    BY <2>1, <2>3, <2>4, <2>5, Zenon DEF Leads
  <2> QED
    BY <2>6, Zenon DEF Stale
<1>5. ASSUME NEW n \in Nets, NEW p \in Sendable, Written(n, p), net.up, net.out = <<>>, n.wire = net.wire, n.up = net.up,
             net.wire = <<>> => p.ID = o
      PROVE  Stale(o)'
  <2>1. /\ net'.wire \o net'.out = net.wire \o WriteTo(p)
        /\ net'.wire \in Seq(Byte) /\ net'.out \in Seq(Byte) /\ net'.up
    <3>1. /\ net'.wire \o net'.out = n.wire \o WriteTo(p)
          /\ net'.wire \in Seq(Byte) /\ net'.out \in Seq(Byte) /\ net'.up = n.up
      BY <1>5, WrittenJoined, Zenon
    <3> QED
      BY <1>5, <3>1, Zenon
  <2>2. WriteTo(p) \in Seq(Byte)
    BY SentBytes, Zenon
  <2>3. CASE net.wire = <<>>
    <3>1. <<>> \o WriteTo(p) = WriteTo(p) \o <<>> /\ <<>> \in Seq(Byte)
      BY <2>2, ConcatEmptySeq
    <3>2. net'.wire \o net'.out = WriteTo(p) \o <<>> /\ p.ID = o
      BY <1>5, <2>1, <2>3, <3>1, Zenon
    <3> QED
      BY <2>1, <3>1, <3>2, Zenon DEF Stale, Leads
  <2>4. CASE net.wire # <<>>
    <3>1. PICK t \in Seq(Byte), x \in Sendable, r \in Seq(Byte) :
            (net.up => t = net.out) /\ x.ID = o /\ net.wire \o t = WriteTo(x) \o r
      BY <2>4, Zenon DEF Stale, Leads
    <3>2. net.wire \o <<>> = net.wire
      BY <1>1, ConcatEmptySeq, Zenon
    <3>3. net.wire = WriteTo(x) \o r
      BY <1>5, <3>1, <3>2, Zenon
    <3>4. WriteTo(x) \in Seq(Byte)
      BY SentBytes, Zenon
    <3>5. (WriteTo(x) \o r) \o WriteTo(p) = WriteTo(x) \o (r \o WriteTo(p)) /\ r \o WriteTo(p) \in Seq(Byte)
      BY <2>2, <3>4, JoinedThrice, Joined, Zenon
    <3>6. net'.wire \o net'.out = WriteTo(x) \o (r \o WriteTo(p))
      BY <2>1, <3>3, <3>5, Zenon
    <3> QED
      BY <2>1, <3>1, <3>5, <3>6, Zenon DEF Stale, Leads
  <2> QED
    BY <2>3, <2>4, Zenon
<1>6. Queued = [n : 0..MaxCommands, ID : Int32] /\ net.inq \in Seq(Queued)
  BY <1>1, Zenon DEF Nets, Queued
<1>7. CASE ServerWrite
  <2> DEFINE n == [net EXCEPT !.rest = AfterChunk(@), !.busy = AfterChunk(net.rest) # <<>>]
             p == [ID |-> net.ans, Type |-> 0, Body |-> Chunk(net.rest)]
  <2>1. net.rest \in Seq(Byte) /\ net.ans \in Int32
    BY <1>1, Zenon DEF Nets
  <2>2. Chunk(net.rest) \in Seq(Byte) /\ AfterChunk(net.rest) \in Seq(Byte) /\ Len(Chunk(net.rest)) <= MaxPayloadSize
    BY <2>1, ChunkType, ResponseIsSplit, Zenon
  <2>3. n \in Nets /\ n.wire = net.wire /\ n.up = net.up
    BY <1>1, <2>2, Zenon DEF Nets
  <2>4. p \in Sendable /\ p.ID = net.ans
    BY <2>1, <2>2, Int32Small, Zenon DEF Sendable, Packet
  <2>5. Written(n, p) /\ net.up /\ net.out = <<>>
    BY <1>7, Zenon DEF ServerWrite
  <2> HIDE DEF n, p
  <2>6. net.wire = <<>> => p.ID = o
    <3>1. SUFFICES ASSUME net.wire = <<>> PROVE ~Leads(o)
      BY <2>4, Zenon DEF Stale
    <3>2. SUFFICES ASSUME NEW t \in Seq(Byte), NEW x \in Sendable, NEW r \in Seq(Byte), <<>> \o <<>> = WriteTo(x) \o r
                   PROVE  FALSE
      BY <2>5, <3>1, Zenon DEF Leads
    <3> QED
      BY <3>2, NoFrameEmpty, Zenon
  <2> QED
    BY <1>5, <2>3, <2>4, <2>5, <2>6, Zenon
<1>8. CASE ServerEcho
  <2> DEFINE n == [net EXCEPT !.inq = Tail(@)]
             p == [ID |-> Head(net.inq).ID, Type |-> 0, Body |-> <<>>]
  <2>1. net.inq # <<>> /\ ~net.busy
    BY <1>8, Zenon DEF ServerEcho, ServerReads
  <2>2. Tail(net.inq) \in Seq(Queued) /\ Head(net.inq).ID \in Int32
    BY <1>6, <2>1, HeadType, Zenon
  <2>3. n \in Nets /\ n.wire = net.wire /\ n.up = net.up
    BY <1>1, <1>6, <2>2, Zenon DEF Nets, Queued
  <2>4. p \in Sendable
    BY <2>2, Int32Small, FramingAssumption, SMTT(30) DEF Sendable, Packet
  <2>5. Written(n, p) /\ net.up /\ net.out = <<>>
    BY <1>8, Zenon DEF ServerEcho, ServerReads
  <2> HIDE DEF n, p
  <2>6. net.wire # <<>>
    <3>1. SUFFICES ASSUME net.wire = <<>> PROVE FALSE
      BY Zenon
    <3>2. PICK t \in Seq(Byte), x \in Sendable, r \in Seq(Byte) : <<>> \o <<>> = WriteTo(x) \o r
      BY <2>1, <2>5, <3>1, Zenon DEF Stale, Leads
    <3> QED
      BY <3>2, NoFrameEmpty
  <2> QED
    BY <1>5, <2>3, <2>4, <2>5, <2>6, Zenon
<1>9. CASE ServerRun
  <2>1. ~net.busy
    BY <1>9, Zenon DEF ServerRun, ServerReads
  <2>2. net'.wire = net.wire /\ net'.out = net.out /\ net'.up = net.up
    BY <1>1, <1>9, Zenon DEF ServerRun, Nets
  <2>3. Leads(o)
    BY <2>1, Zenon DEF Stale
  <2>4. Leads(o)'
    BY <2>2, <2>3, Zenon DEF Leads
  <2> QED
    BY <2>4, Zenon DEF Stale
<1> QED
  BY <1>2, <1>3, <1>4, <1>7, <1>8, <1>9, Zenon DEF ServerStep, LateRun
=============================================================================
