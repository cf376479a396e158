-------------------------------- MODULE Codec --------------------------------
(***************************************************************************)
(* The packet code, of which client and server have the same copy: floats  *)
(* to bytes and back, with the type and the length in front.  A word (an   *)
(* unsigned int, or the bits of a float: the code copies one to the other) *)
(* is the set of its bits that are 1, and so is a byte.  A byte buffer is  *)
(* a function on 0 .. n-1.                                                 *)
(*                                                                         *)
(* Definitions marked "Mistake:" are not the code's: PROJECT.json's        *)
(* mutants put them in the place of the definition that follows.           *)
(***************************************************************************)
EXTENDS Integers

CONSTANTS ByteBits,     \* bits of a byte: 8
          CharIsSigned  \* char is signed: true of gcc on x86, false on ARM

ASSUME CodecAssumption == /\ ByteBits \in Nat \ {0}
                          /\ CharIsSigned \in BOOLEAN

WordBits == 4 * ByteBits
Bytes == SUBSET (0 .. ByteBits - 1)
Words == SUBSET (0 .. WordBits - 1)

-----------------------------------------------------------------------------
(* io_stuff.c                                                              *)

ShiftRight(w, n) == {b \in 0 .. WordBits - 1 : b + n \in w}
\* Bits shifted out of the word are lost.
ShiftLeft(w, n) == {b \in 0 .. WordBits - 1 : b - n \in w}

Mask == 0 .. ByteBits - 1   \* 0xFF

uint_to_bytes_arr(w) == [i \in 0 .. 3 |-> ShiftRight(w, ByteBits * i) \cap Mask]

\* A char in an expression becomes an int: a signed one brings its sign along.
Promoted(byte) == byte \cup {b \in ByteBits .. WordBits - 1 :
                               CharIsSigned /\ ByteBits - 1 \in byte}

bytes_arr_to_uint(ca) ==
  UNION {ShiftLeft(Promoted(ca[i]), ByteBits * i) \cap ShiftLeft(Mask, ByteBits * i) :
           i \in 0 .. 3}

\* The number a word stands for, and back.
BitValue(b) == 2 ^ b
WordOf(n) == {b \in 0 .. WordBits - 1 : (n \div BitValue(b)) % 2 = 1}
NumberOf(w) == CHOOSE n \in 0 .. BitValue(WordBits) - 1 : WordOf(n) = w

-----------------------------------------------------------------------------
(* network_interactions.c                                                  *)

PACK_OF_FLOATS == 0
INIT_PACK == 1

\* Byte k of a buffer of words, and word i of a buffer of bytes (get_slice).
Flatten(words, len) == [k \in 0 .. 4 * len - 1 |-> uint_to_bytes_arr(words[k \div 4])[k % 4]]
get_slice(buf, start) == [j \in 0 .. 3 |-> buf[start + j]]

\* fill_packet; floats has the indices 0 .. len - 1.
fill_packet(floats, len, type) ==
  [type |-> type, length |-> len * 4, buf |-> Flatten(floats, len)]

\* Mistake: the other constructor.
InitType == INIT_PACK
FloatsType == PACK_OF_FLOATS
gen_packet_from_floats(floats, len) == fill_packet(floats, len, FloatsType)

get_pack_bytes_size(pack) == 2 * 4 + pack.length

\* float_pack_to_bytes
pack_to_bytes(pack) ==
  [k \in 0 .. get_pack_bytes_size(pack) - 1 |->
     IF k < 4 THEN uint_to_bytes_arr(WordOf(pack.type))[k]
     ELSE IF k < 8 THEN uint_to_bytes_arr(WordOf(pack.length))[k - 4]
     ELSE pack.buf[k - 8]]

\* The receive buffer after recvfrom: what a shorter datagram leaves is still there.
recvfrom(buf, datagram) == [k \in DOMAIN buf |-> IF k \in DOMAIN datagram
                                                 THEN datagram[k] ELSE buf[k]]

packet_type(ca) == NumberOf(bytes_arr_to_uint(get_slice(ca, 0)))
packet_length(ca) == NumberOf(bytes_arr_to_uint(get_slice(ca, 4)))

\* bytes_to_pack, populate_pack_of_floats: any other type ends the process.
KnownType(ca) == packet_type(ca) \in {PACK_OF_FLOATS, INIT_PACK}
bytes_to_pack(ca) == [type |-> packet_type(ca), length |-> packet_length(ca),
                      buf |-> [k \in 0 .. packet_length(ca) - 1 |-> ca[8 + k]]]

get_floats(pack) ==
  [i \in 0 .. (pack.length \div 4) - 1 |-> bytes_arr_to_uint(get_slice(pack.buf, 4 * i))]

\* (size_t) -1
NoCount == -1
\* Mistake: the length is taken for the count.
BytesCount(pack) == pack.length
FloatsCount(pack) == pack.length \div 4
get_floats_count(pack) == IF pack.type = PACK_OF_FLOATS THEN FloatsCount(pack)
                                                        ELSE NoCount
=============================================================================
