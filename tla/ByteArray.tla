----------------------------- MODULE ByteArray -----------------------------
(***************************************************************************)
(* ByteArray (src/dwframe/bytearray.cc): a buffer made of a chain of nodes *)
(* of m_baseSize bytes, a position and the node m_cur that it lies in, the *)
(* encodings that are written at the position and read back, and the use   *)
(* that SocketStream makes of its buffers.                                 *)
(*                                                                         *)
(* A byte has GroupBits + 1 bits (7 + 1 in the code) and a compressed      *)
(* integer Width bits (32 and 64), so that TLC can take all of their       *)
(* values.  The nodes lie one behind the other in mem: node n holds the    *)
(* addresses from n * m_baseSize on.                                       *)
(***************************************************************************)
EXTENDS Digits, Integers, Sequences, FiniteSets, FiniteSetsExt, SequencesExt

CONSTANTS m_baseSize, GroupBits, Width,
          Items,      \* what is written: <<kind, value>>
          Chunks,     \* raw bytes that recv or a file delivers
          Garbage,    \* what a new node holds: any byte
          MaxSize,    \* bound of the position
          MaxOps      \* bound of the number of calls that change something

VARIABLES ba,         \* m_position, m_capacity, m_size, m_cur and the nodes
          little,     \* m_endian is little endian, the order of the machine
          got,        \* what the last call of a read function gave
          entries,    \* history: the items written and not overwritten since
          ops

vars == <<ba, little, got, entries, ops>>

Half == Pow(2, GroupBits)                   \* 0x80
Byte == 0 .. 2 * Half - 1
Null == -1                               \* no node

ASSUME BaseAssumption ==
    /\ m_baseSize \in Nat \ {0} /\ GroupBits \in Nat \ {0} /\ Width \in Nat \ {0}
    /\ MaxSize \in Nat /\ MaxOps \in Nat
    /\ Garbage \in Byte
    /\ Chunks \subseteq Seq(Byte)

MinOf(a, b) == IF a < b THEN a ELSE b

--------------------------------------------------------------------------
(* Encodings. *)

\* Mutant: negative numbers share the codes of the positive ones.
EncodeZigzagClash(v) == (IF v < 0 THEN 2 * (-v) ELSE 2 * v) % Pow(2, Width)

\* `v * 2` or `(-v) * 2 - 1` in Width bits, and `(v >> 1) ^ -(v & 1)`.
EncodeZigzag(v) == (IF v < 0 THEN 2 * (-v) - 1 ELSE 2 * v) % Pow(2, Width)
DecodeZigzag(v) == IF v % 2 = 0 THEN v \div 2 ELSE -(v \div 2) - 1

\* writeUint32, writeUint64: groups of GroupBits from the lowest on, all but the last marked.
Groups(v) == Min({n \in 1 .. Width : v < Pow(Half, n)})
Varint(v) ==
    [i \in 1 .. Groups(v) |->
        Digit(v, Half, i) + (IF i < Groups(v) THEN Half ELSE 0)]

\* The loop of readUint32 and readUint64 takes at most this many bytes: 5 and 10.
MaxGroups == (Width + GroupBits - 1) \div GroupBits

FromVarint(b) ==
    FromDigits([i \in 1 .. Len(b) |-> b[i] % Half], Half) % Pow(2, Width)

\* An integer of n bytes as it lies in memory, and byteswap unless m_endian is the machine's.
FixedBytes(v, n, le) ==
    LET b == [i \in 1 .. n |-> Digit(v, 2 * Half, i)]
    IN  IF le THEN b ELSE Reverse(b)

\* Mutant: no byteswap after reading.
FromFixedUnswapped(b, le) == FromDigits(b, 2 * Half)

FromFixed(b, le) == FromDigits(IF le THEN b ELSE Reverse(b), 2 * Half)

\* The kinds of items: fixed of 1 or 2 bytes, compressed, compressed with sign, strings
\* with a fixed or a compressed length, bytes alone.
FixedSize(kind) == IF kind = "F2" THEN 2 ELSE 1

Encode(kind, v, le) ==
    CASE kind \in {"F1", "F2"} -> FixedBytes(v, FixedSize(kind), le)
      [] kind = "U"            -> Varint(v)
      [] kind = "I"            -> Varint(EncodeZigzag(v))
      [] kind = "SF"           -> FixedBytes(Len(v), 2, le) \o v
      [] kind = "SV"           -> Varint(Len(v)) \o v
      [] kind = "raw"          -> v

\* The items are values of the types that the functions take.  A string for writeStringF16
\* is shorter than the two bytes of its length can say (2^16 in the code): of a longer one the
\* code writes the length cut down to them, without an error, and it is not read back.
Unsigned == 0 .. Pow(2, Width) - 1
Signed   == -Pow(2, Width - 1) .. Pow(2, Width - 1) - 1

IsItem(kind, v) ==
    \/ kind \in {"F1", "F2"} /\ v \in Unsigned /\ v < Pow(2 * Half, FixedSize(kind))
    \/ kind = "U"  /\ v \in Unsigned
    \/ kind = "I"  /\ v \in Signed
    \/ kind = "SF" /\ v \in Seq(Byte) /\ Len(v) \in Unsigned /\ Len(v) < Pow(2 * Half, 2)
    \/ kind = "SV" /\ v \in Seq(Byte) /\ Len(v) \in Unsigned

ASSUME ItemsAssumption == \A item \in Items : IsItem(item[1], item[2])

--------------------------------------------------------------------------
(* The chain of nodes. *)

NewBa == [position |-> 0, capacity |-> m_baseSize, size |-> 0, cur |-> 0,
          mem |-> [a \in 0 .. m_baseSize - 1 |-> Garbage]]

getReadSize(b) == b.size - b.position
NextNode(b, n) == IF (n + 1) * m_baseSize < b.capacity THEN n + 1 ELSE Null

\* addCapacity: as many nodes as are missing; m_cur is set when there was no room at all.
addCapacity(b, n) ==
    LET room == b.capacity - b.position
        more == ((n - room + m_baseSize - 1) \div m_baseSize) * m_baseSize
    IN  IF room >= n THEN b
        ELSE [b EXCEPT !.capacity = @ + more,
                       !.mem = [a \in 0 .. b.capacity + more - 1 |->
                                   IF a < b.capacity THEN b.mem[a] ELSE Garbage],
                       !.cur = IF room = 0 THEN b.capacity \div m_baseSize ELSE @]

\* The address that m_cur->ptr + npos stands for; the copy loops go on into the next nodes.
Here(b) == (b.cur * m_baseSize) + (b.position % m_baseSize)

\* The copy loops: n bytes further, with m_cur moved on at the end of a node.
Advance(b, n) ==
    LET end == Here(b) + n IN
    [b EXCEPT !.position = @ + n,
              !.cur = IF n = 0 THEN @
                      ELSE IF end % m_baseSize = 0 THEN NextNode(b, end \div m_baseSize - 1)
                      ELSE end \div m_baseSize]

\* memcpy of bytes to the address where.
Store(b, where, bytes) ==
    [b EXCEPT !.mem = [a \in DOMAIN b.mem |->
        IF a \in where .. where + Len(bytes) - 1 THEN bytes[a - where + 1] ELSE b.mem[a]]]

write(b, bytes) ==
    IF bytes = <<>> THEN b
    ELSE LET r == addCapacity(b, Len(bytes))
             w == Advance(Store(r, Here(r), bytes), Len(bytes))
         IN  [w EXCEPT !.size = IF w.position > @ THEN w.position ELSE @]

\* read: the bytes, or std::out_of_range; m_cur is dereferenced also for no bytes at all.
Bytes(b, n) == [i \in 1 .. n |-> b.mem[Here(b) + i - 1]]

read(b, n) ==
    CASE n > getReadSize(b) -> [ba |-> b, how |-> "range", bytes |-> <<>>]
      [] n <= getReadSize(b) /\ b.cur = Null -> [ba |-> b, how |-> "null", bytes |-> <<>>]
      [] OTHER -> [ba |-> Advance(b, n), how |-> "ok", bytes |-> Bytes(b, n)]

\* readUint32, readUint64: byte after byte; a missing byte is thrown for when the others
\* have been consumed.
readVarint(b) ==
    LET most  == MinOf(MaxGroups, getReadSize(b))
        ends  == {i \in 1 .. most : b.mem[Here(b) + i - 1] < Half} \cup {most}
        n     == Min(ends)
        short == n = getReadSize(b) /\ n < MaxGroups
                   /\ (n = 0 \/ b.mem[Here(b) + n - 1] >= Half)
    IN  [ba |-> Advance(b, n), how |-> IF short THEN "range" ELSE "ok", bytes |-> Bytes(b, n)]

\* readFint8 .. readStringVint: the object afterwards, how it went and the value.
Result(r, v) == [ba |-> r.ba, how |-> r.how, value |-> v]

readString(head, len) ==
    IF head.how # "ok" THEN Result(head, <<>>)
    ELSE LET r == read(head.ba, len) IN Result(r, r.bytes)

Decode(kind, b, n, le) ==
    CASE kind \in {"F1", "F2"} ->
           LET r == read(b, FixedSize(kind)) IN Result(r, FromFixed(r.bytes, le))
      [] kind = "U"  -> LET r == readVarint(b) IN Result(r, FromVarint(r.bytes))
      [] kind = "I"  -> LET r == readVarint(b) IN Result(r, DecodeZigzag(FromVarint(r.bytes)))
      [] kind = "SF" -> LET r == read(b, 2) IN readString(r, FromFixed(r.bytes, le))
      [] kind = "SV" -> LET r == readVarint(b) IN readString(r, FromVarint(r.bytes))
      [] kind = "raw" -> LET r == read(b, n) IN Result(r, r.bytes)

\* Mutant: a position at the end of a node stays in that node.
setPositionBehind(b, v) ==
    [b EXCEPT !.position = v, !.size = IF v > @ THEN v ELSE @,
              !.cur = IF v = 0 THEN 0 ELSE (v - 1) \div m_baseSize]

\* setPosition: from m_root on; a position at the end of a node belongs to the next one.
setPosition(b, v) ==
    [b EXCEPT !.position = v,
              !.size = IF v > @ THEN v ELSE @,
              !.cur = IF v = 0 THEN 0
                      ELSE IF v % m_baseSize = 0 THEN NextNode(b, v \div m_baseSize - 1)
                      ELSE v \div m_baseSize]

--------------------------------------------------------------------------
(* Buffers and files. *)

\* The addresses behind the iovecs of getReadBuffers(len), getReadBuffers(len, position)
\* and getWriteBuffers, in order.
getReadBuffers(b, len) ==
    [i \in 1 .. MinOf(len, getReadSize(b)) |-> Here(b) + i - 1]
getReadBuffersAt(b, len, position) ==
    [i \in 1 .. MinOf(len, getReadSize(b)) |->
        ((position \div m_baseSize) * m_baseSize) + (position % m_baseSize) + i - 1]

toString(b) == Bytes(b, getReadSize(b))

\* Mutant: every round starts at the beginning of its node.
FileRoundFromStart(b, s) ==
    LET len == MinOf(s.rest, m_baseSize) - (s.pos % m_baseSize)
    IN  [pos |-> s.pos + len, rest |-> s.rest - len, cur |-> NextNode(b, s.cur),
         bad |-> len < 0,
         file |-> s.file \o [i \in 1 .. len |-> b.mem[s.cur * m_baseSize + i - 1]]]

\* writeToFile: what each round writes.  The length of a round takes the offset in the node
\* from the rest of the data, also when that rest ends before the node.
FileRound(b, s) ==
    LET diff == s.pos % m_baseSize
        len  == MinOf(s.rest, m_baseSize) - diff
    IN  [pos |-> s.pos + len, rest |-> s.rest - len,
         cur |-> IF s.cur = Null THEN Null ELSE NextNode(b, s.cur),
         bad |-> s.bad \/ s.cur = Null \/ len < 0,
         file |-> IF s.cur = Null THEN s.file
                  ELSE s.file \o [i \in 1 .. len |-> b.mem[s.cur * m_baseSize + diff + i - 1]]]

writeToFile(b) ==
    LET round[n \in 0 .. MaxSize] ==
            IF n = 0
            THEN [pos |-> b.position, rest |-> getReadSize(b), cur |-> b.cur, bad |-> FALSE,
                  file |-> <<>>]
            ELSE LET s == round[n - 1] IN IF s.rest > 0 /\ ~s.bad THEN FileRound(b, s) ELSE s
    IN  round[MaxSize]

--------------------------------------------------------------------------
NoResult == [kind |-> "none", at |-> 0, how |-> "ok", value |-> <<>>]

Init ==
    /\ ba = NewBa /\ little = FALSE
    /\ got = NoResult
    /\ entries = {} /\ ops = 0

\* What is written at the position takes the place of the entries it overlaps.
Record(kind, v, from, to) ==
    {e \in entries : e.to <= from \/ e.from >= to}
        \cup {[kind |-> kind, value |-> v, from |-> from, to |-> to, little |-> little]}

Put(kind, v, bytes) ==
    /\ ba.position + Len(bytes) <= MaxSize
    /\ ba' = write(ba, bytes)
    /\ entries' = Record(kind, v, ba.position, ba.position + Len(bytes))
    /\ got' = NoResult

Write(kind, v) == Put(kind, v, Encode(kind, v, little)) /\ UNCHANGED little

\* A read function is called, for what the caller takes to be there: n is the length the
\* caller asks for when it reads bytes alone.
Read(kind, n) ==
    /\ LET r == Decode(kind, ba, n, little) IN
         /\ ba' = r.ba
         /\ got' = [kind |-> kind, at |-> ba.position, how |-> r.how, value |-> r.value]
    /\ UNCHANGED <<little, entries>>

SetPosition(v) ==
    /\ v <= ba.capacity /\ v <= MaxSize
    /\ ba' = setPosition(ba, v)
    /\ got' = NoResult
    /\ UNCHANGED <<little, entries>>

Clear ==
    /\ ba' = NewBa
    /\ entries' = {} /\ got' = NoResult
    /\ UNCHANGED little

SetIsLittleEndian ==
    /\ little' = ~little /\ got' = NoResult
    /\ UNCHANGED <<ba, entries>>

\* readFromFile writes the file in pieces of m_baseSize.
ReadFromFile(file) == Put("raw", file, file) /\ UNCHANGED little

\* SocketStream::read: room for len bytes, of which recv fills some, or none when it fails.
Recv(bytes, len) ==
    /\ Len(bytes) <= len /\ ba.position + len <= MaxSize
    /\ LET r == addCapacity(ba, len)
       IN  ba' = IF bytes = <<>> THEN r
                 ELSE setPosition(Store(r, Here(r), bytes), ba.position + Len(bytes))
    /\ entries' = Record("raw", bytes, ba.position, ba.position + Len(bytes))
    /\ got' = NoResult
    /\ UNCHANGED little

\* SocketStream::write: send takes n of the bytes that getReadBuffers(len) shows it.
Send(len, n) ==
    LET addresses == getReadBuffers(ba, len) IN
    /\ n \in 1 .. Len(addresses)
    /\ ba' = setPosition(ba, ba.position + n)
    /\ got' = [kind |-> "raw", at |-> ba.position, how |-> "ok",
               value |-> [i \in 1 .. n |-> ba.mem[addresses[i]]]]
    /\ UNCHANGED <<little, entries>>

Kinds == {"F1", "F2", "U", "I", "SF", "SV"}

Next ==
    /\ ops < MaxOps /\ ops' = ops + 1
    /\ \/ \E item \in Items : Write(item[1], item[2])
       \/ \E kind \in Kinds : Read(kind, 0)
       \/ \E n \in 0 .. 2 : Read("raw", n)
       \/ \E v \in 0 .. MaxSize : SetPosition(v)
       \/ Clear
       \/ SetIsLittleEndian
       \/ \E file \in Chunks : ReadFromFile(file)
       \/ \E bytes \in Chunks, len \in 1 .. 3 : Recv(bytes, len)
       \/ \E len, n \in 1 .. 3 : Send(len, n)

Spec == Init /\ [][Next]_vars

--------------------------------------------------------------------------
TypeOK ==
    /\ ba.position \in 0 .. ba.size /\ ba.size \in 0 .. ba.capacity
    /\ ba.capacity % m_baseSize = 0
    /\ DOMAIN ba.mem = 0 .. ba.capacity - 1
    /\ \A a \in DOMAIN ba.mem : ba.mem[a] \in Byte

\* However the position got where it is (by writing, reading, seeking, receiving, sending),
\* m_cur is the node that holds it, and null exactly when the position is the capacity: the
\* next write, read or buffer starts at the address of the position.
CurIsPosition ==
    ba.cur = IF ba.position = ba.capacity THEN Null ELSE ba.position \div m_baseSize

\* What was written and not overwritten is read back, with any node boundaries in between and
\* any calls in the meantime, when it is read at its place, as its kind and in its byte order;
\* sent bytes are the written ones too.  Such a read does not throw; it dereferences null at
\* most when it asks for no bytes at the very end of the last node (readStringF16 and the
\* others do so for an empty string that ends there).
ReadsBack ==
    \A e \in entries :
        /\ got.kind = e.kind /\ got.at = e.from
        /\ e.kind \in {"F2", "SF"} => e.little = little
        => CASE got.how = "ok" /\ e.kind = "raw" ->
                  \A i \in DOMAIN got.value \cap DOMAIN e.value : got.value[i] = e.value[i]
             [] got.how = "ok" /\ e.kind # "raw" -> got.value = e.value /\ ba.position = e.to
             [] got.how = "null" -> e.kind # "raw" => e.value = <<>> /\ ba.position = ba.capacity
             [] OTHER -> e.kind = "raw"

\* The ways to look at the rest of the data agree: toString and the buffers with and without
\* a position, and the file, when the position is at the start of a node or a whole node is left.
BuffersAgree ==
    LET n == getReadSize(ba) IN
    /\ n > 0 => toString(ba) = [i \in 1 .. n |-> ba.mem[ba.position + i - 1]]
    /\ \A len \in 1 .. n : getReadBuffers(ba, len) = getReadBuffersAt(ba, len, ba.position)

ViewsAgree ==
    LET n == getReadSize(ba) IN
    /\ BuffersAgree
    /\ (ba.position % m_baseSize = 0 \/ n >= m_baseSize) =>
           ~writeToFile(ba).bad /\ writeToFile(ba).file = [i \in 1 .. n |-> ba.mem[ba.position + i - 1]]

\* A value of the integer types survives its encoding, within the bytes that the writer's
\* array has and the reader's loop takes (tmp[5], tmp[10]); the loop stops at the last of them.
SurvivesCodec(v) ==
    /\ v >= 0 =>
           /\ Varint(v) \in Seq(Byte) /\ Len(Varint(v)) \in 1 .. MaxGroups
           /\ \A i \in 1 .. Len(Varint(v)) : Varint(v)[i] < Half <=> i = Len(Varint(v))
           /\ FromVarint(Varint(v)) = v
    /\ v < Pow(2, Width - 1) => EncodeZigzag(v) \in Unsigned /\ DecodeZigzag(EncodeZigzag(v)) = v
    /\ \A n \in 1 .. 2, le \in BOOLEAN : v >= 0 /\ v < Pow(2 * Half, n) =>
           /\ FixedBytes(v, n, le) \in Seq(Byte) /\ Len(FixedBytes(v, n, le)) = n
           /\ FromFixed(FixedBytes(v, n, le), le) = v

=============================================================================
