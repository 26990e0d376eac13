------------------------------ MODULE Framing -------------------------------
(***************************************************************************)
(* RCON frames as bytes: Packet.WriteTo and Packet.ReadFrom.  A byte has   *)
(* Radix values, 256 in the code, and a word four bytes, least significant *)
(* first; a Go uint32 is a number below Word, an int32 one of the Word     *)
(* numbers around zero.                                                    *)
(***************************************************************************)
EXTENDS Integers, Sequences

CONSTANTS
    Radix,           \* the number of values of a byte
    MaxPayloadSize   \* the largest body of a packet, 4096 in the code

HeaderSize    == 8
PaddingSize   == 2
MinPacketSize == HeaderSize + PaddingSize
Word          == Radix * Radix * Radix * Radix

ASSUME FramingAssumption ==
    /\ Radix \in Nat /\ Radix >= 2
    /\ MaxPayloadSize \in Nat \ {0}
    /\ MaxPayloadSize + MinPacketSize < Word

Byte   == 0..(Radix - 1)
Int32  == {i \in Int : -Word <= 2 * i /\ 2 * i < Word}
Packet == [ID : Int32, Type : Int32, Body : Seq(Byte)]

(* binary.LittleEndian *)
PutUint32(n) ==
    LET a == n \div Radix
        b == a \div Radix
        c == b \div Radix
    IN  <<n % Radix, a % Radix, b % Radix, c % Radix>>
Uint32(b) == b[1] + Radix * (b[2] + Radix * (b[3] + Radix * b[4]))

(* The conversions between int32 and uint32. *)
AsUint32(i) == IF i < 0 THEN i + Word ELSE i
AsInt32(u) == IF 2 * u < Word THEN u ELSE u - Word

SizeOf(p) == HeaderSize + Len(p.Body) + PaddingSize

WriteTo(p) ==
    PutUint32(SizeOf(p)) \o PutUint32(AsUint32(p.ID)) \o PutUint32(AsUint32(p.Type))
        \o p.Body \o <<0, 0>>

(* io.ReadFull of n bytes where have bytes will come before the stream     *)
(* fails with end.  An EOF in the middle has a name of its own.            *)
ReadFull(have, n, end) ==
    IF have >= n THEN "nil"
    ELSE IF end = "EOF" /\ have > 0 THEN "ErrUnexpectedEOF" ELSE end

(* ReadFrom on a stream that holds the bytes r and then fails with end:    *)
(* the error, the packet, and what is left of r.                           *)
ReadFrom(r, end) ==
    LET n    == Len(r)
        size == Uint32(r)
        err  == IF ReadFull(n, 4, end) # "nil" THEN ReadFull(n, 4, end)
                ELSE IF size > MaxPayloadSize + MinPacketSize THEN "ErrResponseTooLong"
                ELSE IF size < MinPacketSize THEN "ErrResponseTooShort"
                ELSE ReadFull(n - 4, size, end)
    IN  [err  |-> err,
         p    |-> IF err = "nil"
                    THEN [ID   |-> AsInt32(Uint32(SubSeq(r, 5, 8))),
                          Type |-> AsInt32(Uint32(SubSeq(r, 9, 12))),
                          Body |-> SubSeq(r, 13, 4 + size - PaddingSize)]
                    ELSE [ID |-> 0, Type |-> 0, Body |-> <<>>],
         rest |-> CASE err = "nil" -> SubSeq(r, 5 + size, n)
                    [] err \in {"ErrResponseTooLong", "ErrResponseTooShort"} -> SubSeq(r, 5, n)
                    [] OTHER -> <<>>]

(* One round of writeResponse's loop: the body of the next packet, and     *)
(* what is left of the response.                                           *)
Chunk(body) == SubSeq(body, 1, IF Len(body) < MaxPayloadSize THEN Len(body) ELSE MaxPayloadSize)
AfterChunk(body) == SubSeq(body, Len(Chunk(body)) + 1, Len(body))
=============================================================================
