---------------------------- MODULE PayloadCodec ----------------------------
(***************************************************************************)
(* The values in a packet's data: a Packer at one end, an Unpacker at the   *)
(* other, each in C++ (src/src/Packer.cpp, src/src/Unpacker.cpp) or Python  *)
(* (src/duino_bus/packer.py, src/duino_bus/unpacker.py). In C++ the sender  *)
(* may use Packet::append (src/src/Packet.cpp) instead. The receiver        *)
(* unpacks the kinds of values the sender tried to pack, in that order.     *)
(*                                                                         *)
(* A string is the bytes it consists of: of a str in Python, those of its   *)
(* encoding in UTF-8; pack_str also takes bytes that are not UTF-8, and a   *)
(* string in C++ may be of any bytes but nulls.                             *)
(***************************************************************************)
EXTENDS Naturals, Sequences, SequencesExt, FiniteSetsExt

CONSTANTS
  ByteRange,    \* number of values of a uint8_t
  MaxDataLen,   \* m_maxDataLen of the packet a C++ Packer fills
  Widths,       \* the sizes of integers
  Ints,         \* integers to pack, each cut to its size
  Strings,      \* strings, and data, to pack
  Lead, Trail,  \* the first and the second byte of a character of two, in UTF-8
  MaxValues     \* bound: values packed

ASSUME PayloadCodecAssumption ==
  /\ {ByteRange, MaxDataLen, MaxValues} \subseteq Nat \ {0} /\ ByteRange > 1
  /\ Widths \subseteq Nat \ {0} /\ Ints \subseteq Nat
  /\ Strings \subseteq Seq(0..(ByteRange - 1))
  /\ Lead \subseteq 1..(ByteRange - 1) /\ Trail \subseteq 1..(ByteRange - 1)
  /\ Lead \cap Trail = {}

VARIABLES
  packer, unpacker,   \* their languages; "packet" is Packet::append
  data,               \* the packet's data
  idx,                \* the bytes of it that are unpacked
  mode,               \* "packing", "unpacking", "done", or "aborted" by an assert
  attempts,           \* what was packed, and (history) whether that succeeded;
                      \* the receiver knows the kinds, by protocol
  results             \* history: what was unpacked

vars == <<packer, unpacker, data, idx, mode, attempts, results>>

Num(w, v) == [kind |-> "int", w |-> w, v |-> v]
Str(s) == [kind |-> "str", s |-> s]
Data(s) == [kind |-> "data", w |-> Len(s), s |-> s]

\* What unpacking may yield besides: false, an exception, or a pointer to a string
\* without an end.
Failed == [kind |-> "failed"]
Overrun == [kind |-> "overrun"]

\* What the i-th byte after the first counts for, in little-endian order.
Weight[i \in Nat] == IF i = 0 THEN 1 ELSE ByteRange * Weight[i - 1]

Values ==
  {Num(w, v % Weight[w]) : w \in Widths, v \in Ints}
    \cup {Str(s) : s \in Strings} \cup {Data(s) : s \in Strings}

Init ==
  /\ packer \in {"cpp", "py", "packet"} /\ unpacker \in {"cpp", "py"}
  /\ data = <<>>
  /\ idx = 0
  /\ mode = "packing"
  /\ attempts = <<>>
  /\ results = <<>>

LittleEndian(w, v) == [i \in 1..w |-> (v \div Weight[i - 1]) % ByteRange]

FromBytes(bytes) ==
  LET upTo[i \in 0..Len(bytes)] == IF i = 0 THEN 0 ELSE upTo[i - 1] + bytes[i] * Weight[i - 1]
  IN  upTo[Len(bytes)]
-----------------------------------------------------------------------------
(***************************************************************************)
(* Packing. An operator yields the data afterwards and what pack returned.  *)
(***************************************************************************)
Packed(bytes, ok) == [data |-> bytes, ok |-> ok]

packInt(w, v) ==
  IF MaxDataLen - Len(data) < w THEN Packed(data, FALSE)
  ELSE Packed(data \o LittleEndian(w, v), TRUE)

\* Faulty strLength: the terminating null is not counted.
strLengthBare(s) == Len(s) % ByteRange

\* The string's length and its terminating null, in a uint8_t.
strLength(s) == (Min({Len(s), ByteRange}) + 1) % ByteRange

\* Faulty packStr: the space is compared with the string's length alone.
packStrOverrun(s) ==
  IF MaxDataLen = Len(data) THEN Packed(data, FALSE)
  ELSE IF MaxDataLen - Len(data) < strLength(s) THEN Packed(Append(data, strLength(s)), FALSE)
  ELSE Packed(Append(data, strLength(s)) \o SubSeq(Append(s, 0), 1, strLength(s)), TRUE)

\* The length goes in first, and stays when there is no space for the string.
packStr(s) ==
  IF MaxDataLen = Len(data) THEN Packed(data, FALSE)
  ELSE IF MaxDataLen - (Len(data) + 1) < strLength(s)
       THEN Packed(Append(data, strLength(s)), FALSE)
  ELSE Packed(Append(data, strLength(s)) \o SubSeq(Append(s, 0), 1, strLength(s)), TRUE)

\* Packet::append has asserts where a Packer returns false.
appendData(bytes) ==
  IF Len(data) + Len(bytes) > MaxDataLen THEN Packed(data, FALSE) ELSE Packed(data \o bytes, TRUE)

appendInt(w, v) == appendData(LittleEndian(w, v))

appendStr(s) == appendData(<<strLength(s)>> \o SubSeq(Append(s, 0), 1, strLength(s)))

\* A Packer in Python has no capacity. It masks the length, not the string.
pack_int(w, v) == Packed(data \o LittleEndian(w, v), TRUE)

pack_str(s) == Packed(data \o <<(Len(s) + 1) % ByteRange>> \o s \o <<0>>, TRUE)

pack_data(bytes) == Packed(data \o bytes, TRUE)

\* A C string ends at its first null.
IsCString(s) == 0 \notin ToSet(s)

\* A Packer in C++ does not pack arbitrary data.
Packing(value) ==
  LET w == value.w
      v == value.v
      s == value.s
  IN  CASE value.kind = "int" ->
             {[cpp |-> packInt(w, v), packet |-> appendInt(w, v), py |-> pack_int(w, v)][packer]}
        [] value.kind = "str" /\ (packer = "py" \/ IsCString(s)) ->
             {[cpp |-> packStr(s), packet |-> appendStr(s), py |-> pack_str(s)][packer]}
        [] value.kind = "data" /\ packer # "cpp" ->
             {[packet |-> appendData(s), py |-> pack_data(s)][packer]}
        [] OTHER -> {}

Pack ==
  /\ mode = "packing" /\ Len(attempts) < MaxValues
  /\ \E value \in Values : \E p \in Packing(value) :
       /\ data' = p.data
       /\ attempts' = Append(attempts, [value |-> value, ok |-> p.ok])
       /\ mode' = IF packer = "packet" /\ ~p.ok THEN "aborted" ELSE mode
  /\ UNCHANGED <<packer, unpacker, idx, results>>

\* The packet is sent, and an Unpacker made for it.
Send ==
  /\ mode = "packing"
  /\ mode' = "unpacking"
  /\ UNCHANGED <<packer, unpacker, data, idx, attempts, results>>
-----------------------------------------------------------------------------
(***************************************************************************)
(* Unpacking. An operator yields the value and the bytes used.              *)
(***************************************************************************)
Unpacked(value, used) == [value |-> value, used |-> used]

Rest == SubSeq(data, idx + 1, Len(data))

\* The C string at the beginning of these bytes.
CString(bytes) ==
  LET zeros == {i \in DOMAIN bytes : bytes[i] = 0}
  IN  IF zeros = {} THEN Overrun ELSE Str(SubSeq(bytes, 1, Min(zeros) - 1))

unpackInt(w) ==
  IF Len(Rest) < w THEN Unpacked(Failed, 0)
  ELSE Unpacked(Num(w, FromBytes(SubSeq(Rest, 1, w))), w)

\* str points into the packet. A length larger than what remains is used up all the
\* same, although the string is not.
unpackStr ==
  IF Rest = <<>> THEN Unpacked(Failed, 0)
  ELSE IF Len(Tail(Rest)) < Head(Rest) THEN Unpacked(Failed, 1)
  ELSE Unpacked(CString(Tail(Rest)), 1 + Head(Rest))

\* One byte is indexed, and raises where there is none; more are a slice, which may
\* have fewer bytes than asked for.
unpack_int(w) ==
  IF w = 1 /\ Rest = <<>> THEN Unpacked(Failed, 0)
  ELSE Unpacked(Num(w, FromBytes(SubSeq(Rest, 1, Min({w, Len(Rest)})))), w)

\* Characters of one byte and of two; longer ones would be no different.
IsUtf8(s) ==
  \A i \in DOMAIN s :
    /\ s[i] \in Lead => i < Len(s) /\ s[i + 1] \in Trail
    /\ s[i] \in Trail => i > 1 /\ s[i - 1] \in Lead

\* The conversion to a str raises UnicodeDecodeError for bytes that are not UTF-8.
unpack_str ==
  IF Rest = <<>> THEN Unpacked(Failed, 0)
  ELSE LET slice == SubSeq(Rest, 2, Min({1 + Head(Rest), Len(Rest)}))
           c_str == IF Len(slice) > 1 THEN Front(slice) ELSE slice
       IN  Unpacked(IF IsUtf8(c_str) THEN Str(c_str) ELSE Failed, 1 + Head(Rest))

\* data points into the packet.
unpackData(numBytes) ==
  IF Len(Rest) < numBytes THEN Unpacked(Failed, 0)
  ELSE Unpacked(Data(SubSeq(Rest, 1, numBytes)), numBytes)

unpack_data(num_bytes) ==
  Unpacked(Data(SubSeq(Rest, 1, Min({num_bytes, Len(Rest)}))), num_bytes)

Unpacking(value) ==
  CASE value.kind = "int"  -> IF unpacker = "cpp" THEN unpackInt(value.w) ELSE unpack_int(value.w)
    [] value.kind = "str"  -> IF unpacker = "cpp" THEN unpackStr ELSE unpack_str
    [] value.kind = "data" -> IF unpacker = "cpp" THEN unpackData(value.w) ELSE unpack_data(value.w)

\* The receiver stops where unpacking fails.
Unpack ==
  /\ mode = "unpacking" /\ Len(results) < Len(attempts)
  /\ LET u == Unpacking(attempts[Len(results) + 1].value)
     IN  /\ results' = Append(results, u.value)
         /\ idx' = idx + u.used
         /\ mode' = IF u.value = Failed THEN "done" ELSE mode
  /\ UNCHANGED <<packer, unpacker, data, attempts>>

Next == Pack \/ Send \/ Unpack

Spec == Init /\ [][Next]_vars
-----------------------------------------------------------------------------
\* Types, and the buffers: a C++ Packer or Packet::append keeps within its packet, and
\* a C++ Unpacker within its data, whatever is packed and whether or not it fits.
TypeOK ==
  /\ data \in Seq(0..(ByteRange - 1))
  /\ packer # "py" => Len(data) <= MaxDataLen
  /\ unpacker = "cpp" => idx <= Len(data)
  /\ Len(results) <= Len(attempts)

\* The string's length with its null is what a byte counts.
Countable(value) == value.kind = "str" => Len(value.s) + 1 < ByteRange

\* The first k values were packed, and the receiver finds where each of them ends. Of a string
\* that is too long, C++ packs as much as its length byte says, Python all.
InStep(k) ==
  \A j \in 1..k : attempts[j].ok /\ (packer = "py" => Countable(attempts[j].value))

Sound(k) == InStep(k) /\ Countable(attempts[k].value)

\* What the receiver can be given as it was packed: in C++ a string without nulls, in Python
\* one of characters. unpack_str does not give back the empty string.
Readable(s) == IF unpacker = "cpp" THEN IsCString(s) ELSE s # <<>> /\ IsUtf8(s)

\* What it is given in the place of other strings.
Misread(s) ==
  IF unpacker = "cpp" THEN CString(s) ELSE IF s = <<>> THEN Str(<<0>>) ELSE Failed

Received(value) ==
  IF value.kind = "str" /\ ~Readable(value.s) THEN Misread(value.s) ELSE value

\* Between any two of the languages, the values that were packed are those that are unpacked,
\* one after another, as long as none failed to be packed: also after a string that was too
\* long for its length byte, in C++; after one with nulls in it, of which C++ sees what is in
\* front of the first; and up to one that is not UTF-8, at which Python raises.
RoundTrip == \A k \in 1..Len(results) : Sound(k) => results[k] = Received(attempts[k].value)

\* unpacker.py says: "Strings are encoded with an 8-bit length, the string data and a
\* terminating null." So unpack_str returns the string that was encoded, if it is of
\* characters, and none of them is a null.
Plain(value) == value.kind = "str" => IsCString(value.s) /\ IsUtf8(value.s)

StringsReturn ==
  \A k \in 1..Len(results) :
    Sound(k) /\ Plain(attempts[k].value) => results[k] = attempts[k].value
=============================================================================
