--------------------------- MODULE ByteArrayProofs ---------------------------
(***************************************************************************)
(* Proofs about ByteArray, for any size of the nodes and of the buffer and *)
(* any sequence of calls.                                                  *)
(*                                                                         *)
(* Chain says that m_cur belongs to the position; it holds again after     *)
(* each part of a call, so that the next part starts at the right address. *)
(* Stored says that an entry's bytes lie where it was written.  That each  *)
(* decoder undoes its encoder is arithmetic on powers of two               *)
(* (CodecCorrect); with it, what Stored says is what ReadsBack says.       *)
(***************************************************************************)
EXTENDS Conversions, CommonLemmas, SequenceTheorems, TLAPS

(* An object whose m_cur is the node of its position; size may lag behind  *)
(* the position within a call.                                             *)
Chain(b) ==
    /\ b = [position |-> b.position, capacity |-> b.capacity, size |-> b.size, cur |-> b.cur,
            mem |-> b.mem]
    /\ b.position \in Nat /\ b.capacity \in Nat /\ b.size \in Nat /\ b.cur \in Int
    /\ b.position <= b.capacity /\ b.size <= b.capacity
    /\ b.capacity % m_baseSize = 0 /\ b.capacity # 0
    /\ b.mem \in [0 .. b.capacity - 1 -> Byte]
    /\ b.cur = IF b.position = b.capacity THEN Null ELSE b.position \div m_baseSize

Sane(b) == Chain(b) /\ b.position <= b.size

----------------------------------------------------------------------------
(* Addresses *)

(* A number in terms of its node and its offset there. *)
LEMMA InNode ==
    ASSUME NEW x \in Nat
    PROVE  /\ x \div m_baseSize \in Nat /\ (x % m_baseSize) \in 0 .. (m_baseSize - 1)
           /\ x = m_baseSize * (x \div m_baseSize) + (x % m_baseSize)
BY BaseAssumption

(* m_cur->ptr + npos is the address of the position, if there is a node. *)
LEMMA HereIsPosition ==
    ASSUME NEW b, Chain(b), b.position # b.capacity
    PROVE  Here(b) = b.position
<1>1. b.position \in Nat /\ b.cur = b.position \div m_baseSize
  BY DEF Chain
<1>2. b.position = m_baseSize * b.cur + (b.position % m_baseSize) /\ b.cur \in Int
  BY <1>1, InNode
<1> QED BY <1>2, BaseAssumption DEF Here

(* At the end of the last node there is none, else there is one. *)
LEMMA CurIsNull ==
    ASSUME NEW b, Chain(b)
    PROVE  b.cur = Null <=> b.position = b.capacity
<1>1. b.position \in Nat /\ b.cur = IF b.position = b.capacity THEN Null ELSE b.position \div m_baseSize
  BY DEF Chain
<1>2. b.position \div m_baseSize \in Nat
  BY <1>1, InNode
<1> QED BY <1>1, <1>2 DEF Null

(* The node at which a position lies, as setPosition and the copy loops    *)
(* find it.                                                                *)
LEMMA NodeOf ==
    ASSUME NEW b, Chain(b), NEW x \in Nat, x <= b.capacity
    PROVE  (IF x % m_baseSize = 0 THEN NextNode(b, x \div m_baseSize - 1) ELSE x \div m_baseSize)
              = IF x = b.capacity THEN Null ELSE x \div m_baseSize
<1> DEFINE q == x \div m_baseSize
<1>1. q \in Nat /\ x = m_baseSize * q + (x % m_baseSize) /\ (x % m_baseSize) \in 0 .. (m_baseSize - 1)
  BY InNode
<1>2. b.capacity \in Nat /\ b.capacity % m_baseSize = 0 /\ b.capacity # 0
  BY DEF Chain
<1> HIDE DEF q
<1>3. CASE x % m_baseSize = 0
  <2>1. (q - 1) + 1 = q /\ q * m_baseSize = x
    BY <1>1, <1>3, BaseAssumption
  <2>2. NextNode(b, q - 1) = IF x < b.capacity THEN q ELSE Null
    BY <2>1, <1>1 DEF NextNode
  <2> QED BY <2>2, <1>2, <1>3 DEF q
<1>4. CASE x % m_baseSize # 0
  BY <1>2, <1>4 DEF q
<1> QED BY <1>3, <1>4

(* The copy loops leave m_cur at the position again. *)
LEMMA AdvanceChain ==
    ASSUME NEW b, Chain(b), NEW n \in Nat, b.position + n <= b.capacity,
           NEW r, r = Advance(b, n)
    PROVE  /\ Chain(r)
           /\ r.position = b.position + n /\ r.size = b.size /\ r.capacity = b.capacity /\ r.mem = b.mem
<1> DEFINE end == Here(b) + n
<1> DEFINE cur == IF n = 0 THEN b.cur
                  ELSE IF end % m_baseSize = 0 THEN NextNode(b, end \div m_baseSize - 1)
                  ELSE end \div m_baseSize
<1>1. b.position \in Nat /\ b.capacity \in Nat /\ b.size \in Nat /\ b.position <= b.capacity
  BY DEF Chain
<1>2. r = [b EXCEPT !.position = b.position + n, !.cur = cur]
  BY DEF Advance
<1>3. cur = IF b.position + n = b.capacity THEN Null ELSE (b.position + n) \div m_baseSize
  <2>1. CASE n = 0
    BY <1>1, <2>1 DEF Chain
  <2>2. CASE n # 0
    <3>1. end = b.position + n /\ end \in Nat
      BY <1>1, <2>2, HereIsPosition
    <3> HIDE DEF end
    <3> QED BY <2>2, <3>1, NodeOf
  <2> QED BY <2>1, <2>2
<1>4. cur \in Int
  BY <1>1, <1>3, InNode DEF Null
<1> HIDE DEF cur, end
<1>5. r = [position |-> b.position + n, capacity |-> b.capacity, size |-> b.size, cur |-> cur,
           mem |-> b.mem]
  BY <1>2 DEF Chain
<1> QED BY <1>1, <1>3, <1>4, <1>5 DEF Chain

(* setPosition too, wherever it is called. *)
LEMMA SetPositionSane ==
    ASSUME NEW b, Chain(b), NEW v \in Nat, v <= b.capacity,
           NEW r, r = setPosition(b, v)
    PROVE  /\ Sane(r)
           /\ r.position = v /\ r.capacity = b.capacity /\ r.mem = b.mem
           /\ r.size = IF v > b.size THEN v ELSE b.size
<1> DEFINE size == IF v > b.size THEN v ELSE b.size
<1> DEFINE cur == IF v = 0 THEN 0
                  ELSE IF v % m_baseSize = 0 THEN NextNode(b, v \div m_baseSize - 1)
                  ELSE v \div m_baseSize
<1>1. b.capacity \in Nat /\ b.size \in Nat /\ b.size <= b.capacity
  BY DEF Chain
<1>2. r = [b EXCEPT !.position = v, !.size = size, !.cur = cur]
  BY DEF setPosition
<1>3. cur = IF v = b.capacity THEN Null ELSE v \div m_baseSize
  <2>1. CASE v = 0
    <3>1. 0 \div m_baseSize = 0
      BY InNode, BaseAssumption
    <3> QED BY <2>1, <3>1 DEF Chain
  <2>2. CASE v # 0
    BY <2>2, NodeOf
  <2> QED BY <2>1, <2>2
<1>4. cur \in Int
  BY <1>1, <1>3, InNode DEF Null
<1>5. size \in Nat /\ size <= b.capacity /\ v <= size
  BY <1>1
<1> HIDE DEF cur, size
<1>6. r = [position |-> v, capacity |-> b.capacity, size |-> size, cur |-> cur, mem |-> b.mem]
  BY <1>2 DEF Chain
<1>7. Chain(r)
  BY <1>1, <1>3, <1>4, <1>5, <1>6 DEF Chain
<1> QED BY <1>5, <1>6, <1>7 DEF Sane, size

(* addCapacity makes room for n bytes, in whole nodes, and moves nothing. *)
RoomFor(b, n, r) ==
    /\ Chain(r)
    /\ r.position = b.position /\ r.size = b.size
    /\ b.capacity <= r.capacity /\ b.position + n <= r.capacity
    /\ \A a \in 0 .. b.capacity - 1 : r.mem[a] = b.mem[a]

(* It does, whether the position is in a node or behind the last one. *)
LEMMA AddCapacityChain ==
    ASSUME NEW b, Chain(b), NEW n \in Nat
    PROVE  RoomFor(b, n, addCapacity(b, n))
<1> DEFINE r == addCapacity(b, n)
<1> SUFFICES RoomFor(b, n, r)
  OBVIOUS
<1> USE DEF RoomFor
<1> DEFINE room == b.capacity - b.position
<1> DEFINE q == (n - room + m_baseSize - 1) \div m_baseSize
<1> DEFINE more == q * m_baseSize
<1>1. /\ b.position \in Nat /\ b.capacity \in Nat /\ b.size \in Nat /\ b.cur \in Int
      /\ b.position <= b.capacity /\ b.size <= b.capacity
      /\ b.capacity % m_baseSize = 0
      /\ b.mem \in [0 .. b.capacity - 1 -> Byte]
  BY DEF Chain
<1>2. CASE room >= n
  <2>1. r = b
    BY <1>2 DEF addCapacity
  <2> QED BY <1>1, <1>2, <2>1
<1>3. CASE ~(room >= n)
  <2> DEFINE x == n - room + m_baseSize - 1
  <2>1. x \in Nat /\ n - room \in Nat
    BY <1>1, <1>3, BaseAssumption
  <2>2. q \in Nat /\ x = m_baseSize * q + (x % m_baseSize) /\ (x % m_baseSize) \in 0 .. (m_baseSize - 1)
    BY <2>1, InNode
  <2>3. more \in Nat /\ more = m_baseSize * q
    <3> HIDE DEF q
    <3> QED BY <2>2, BaseAssumption
  <2>4. more >= n - room
    <3> HIDE DEF more, q
    <3> QED BY <1>1, <2>1, <2>2, <2>3, BaseAssumption
  <2> DEFINE mem == [a \in 0 .. b.capacity + more - 1 |-> IF a < b.capacity THEN b.mem[a] ELSE Garbage]
  <2> DEFINE cur == IF room = 0 THEN b.capacity \div m_baseSize ELSE b.cur
  <2>5. r = [b EXCEPT !.capacity = b.capacity + more, !.mem = mem, !.cur = cur]
    BY <1>3 DEF addCapacity
  <2> HIDE DEF r
  <2>6. (b.capacity + more) % m_baseSize = 0
    <3> DEFINE k == b.capacity \div m_baseSize
    <3> DEFINE y == b.capacity + more
    <3>1. k \in Nat /\ b.capacity = m_baseSize * k + (b.capacity % m_baseSize)
      BY <1>1, InNode
    <3> HIDE DEF more, q, k
    <3>2. k \in Nat /\ b.capacity = m_baseSize * k
      BY <1>1, <3>1, BaseAssumption
    <3> DEFINE z == k + q
    <3>3. y = m_baseSize * z /\ z \in Int /\ y \in Int
      BY <1>1, <2>2, <2>3, <3>2, BaseAssumption
    <3> HIDE DEF y, z
    <3>4. m_baseSize * z <= y /\ y < m_baseSize * z + m_baseSize
      BY <3>3, BaseAssumption
    <3>5. y % m_baseSize = y - m_baseSize * z
      BY <3>3, <3>4, ModBase, BaseAssumption
    <3>6. y % m_baseSize = 0
      BY <3>3, <3>5
    <3> QED BY <3>6 DEF y
  <2>7. b.capacity + more \in Nat /\ b.position + n <= b.capacity + more /\ b.position < b.capacity + more
    <3> HIDE DEF more, q
    <3> QED BY <1>1, <1>3, <2>3, <2>4
  <2>8. mem \in [0 .. b.capacity + more - 1 -> Byte] /\ \A a \in 0 .. b.capacity - 1 : mem[a] = b.mem[a]
    <3> HIDE DEF more, q
    <3> QED BY <1>1, <2>3, BaseAssumption
  <2>9. cur = b.position \div m_baseSize /\ cur \in Int
    <3>1. room = 0 => b.capacity = b.position
      BY <1>1
    <3>2. room # 0 => b.cur = b.position \div m_baseSize
      BY <1>1 DEF Chain
    <3>3. b.position \div m_baseSize \in Nat
      BY <1>1, InNode
    <3> QED BY <3>1, <3>2, <3>3
  <2> HIDE DEF mem, cur, more, q, room
  <2>10. r = [position |-> b.position, capacity |-> b.capacity + more, size |-> b.size, cur |-> cur,
              mem |-> mem]
    BY <2>5 DEF Chain
  <2>11. Chain(r)
    BY <1>1, <2>3, <2>6, <2>7, <2>8, <2>9, <2>10 DEF Chain
  <2> QED BY <1>1, <2>3, <2>7, <2>8, <2>10, <2>11
<1> QED BY <1>2, <1>3

(* What is copied to an address of the chain is there, and nothing else    *)
(* changes.                                                                *)
Copied(b, where, bytes, r) ==
    /\ Chain(r)
    /\ r.position = b.position /\ r.size = b.size /\ r.capacity = b.capacity
    /\ \A a \in 0 .. b.capacity - 1 :
          r.mem[a] = IF a \in where .. where + Len(bytes) - 1 THEN bytes[a - where + 1] ELSE b.mem[a]

(* Store copies. *)
LEMMA StoreChain ==
    ASSUME NEW b, Chain(b), NEW bytes \in Seq(Byte), NEW where \in Nat
    PROVE  Copied(b, where, bytes, Store(b, where, bytes))
<1> DEFINE r == Store(b, where, bytes)
<1> DEFINE mem == [a \in DOMAIN b.mem |->
                     IF a \in where .. where + Len(bytes) - 1 THEN bytes[a - where + 1] ELSE b.mem[a]]
<1>1. b.capacity \in Nat /\ b.mem \in [0 .. b.capacity - 1 -> Byte] /\ DOMAIN b.mem = 0 .. b.capacity - 1
  BY DEF Chain
<1>2. Len(bytes) \in Nat /\ \A i \in 1 .. Len(bytes) : bytes[i] \in Byte
  BY LenProperties, ElementOfSeq
<1>3. \A a \in where .. where + Len(bytes) - 1 : a - where + 1 \in 1 .. Len(bytes)
  BY <1>2
<1>4. mem \in [0 .. b.capacity - 1 -> Byte]
  BY <1>1, <1>2, <1>3
<1>5. \A a \in 0 .. b.capacity - 1 :
          mem[a] = IF a \in where .. where + Len(bytes) - 1 THEN bytes[a - where + 1] ELSE b.mem[a]
  BY <1>1
<1>6. r = [b EXCEPT !.mem = mem]
  BY DEF Store
<1> HIDE DEF mem, r
<1>7. r = [position |-> b.position, capacity |-> b.capacity, size |-> b.size, cur |-> b.cur, mem |-> mem]
  BY <1>6 DEF Chain
<1>8. Chain(r)
  BY <1>4, <1>7 DEF Chain
<1>9. Copied(b, where, bytes, r)
  BY <1>5, <1>7, <1>8 DEF Copied
<1> QED BY <1>9 DEF r

(* What write, readFromFile and SocketStream::read leave behind: bytes at  *)
(* the old position, everything else as it was.                            *)
Stores(b, r, bytes) ==
    /\ Sane(r)
    /\ b.size <= r.size /\ b.capacity <= r.capacity /\ b.position + Len(bytes) <= r.size
    /\ r.size = b.size \/ r.size = b.position + Len(bytes)
    /\ \A i \in 1 .. Len(bytes) : r.mem[b.position + i - 1] = bytes[i]
    /\ \A a \in 0 .. b.capacity - 1 :
          a < b.position \/ b.position + Len(bytes) <= a => r.mem[a] = b.mem[a]

(* Making room and copying to where the position is. *)
LEMMA StoreAtPosition ==
    ASSUME NEW b, Chain(b), NEW bytes \in Seq(Byte), bytes # <<>>, NEW n \in Nat, Len(bytes) <= n,
           NEW r, r = addCapacity(b, n), NEW s, s = Store(r, Here(r), bytes)
    PROVE  /\ Chain(s)
           /\ s.position = b.position /\ s.size = b.size
           /\ b.capacity <= s.capacity /\ b.position + n <= s.capacity
           /\ \A i \in 1 .. Len(bytes) : s.mem[b.position + i - 1] = bytes[i]
           /\ \A a \in 0 .. b.capacity - 1 :
                 a < b.position \/ b.position + Len(bytes) <= a => s.mem[a] = b.mem[a]
<1>1. Len(bytes) \in Nat \ {0}
  BY EmptySeq
<1>2. b.position \in Nat /\ b.capacity \in Nat
  BY DEF Chain
<1>3. /\ Chain(r) /\ r.position = b.position /\ r.size = b.size
      /\ b.capacity <= r.capacity /\ b.position + n <= r.capacity
      /\ \A a \in 0 .. b.capacity - 1 : r.mem[a] = b.mem[a]
  BY AddCapacityChain DEF RoomFor
<1>4. r.capacity \in Nat
  BY <1>3 DEF Chain
<1>5. Here(r) = b.position /\ s = Store(r, b.position, bytes)
  BY <1>1, <1>2, <1>3, <1>4, HereIsPosition
<1>6. Copied(r, b.position, bytes, s)
  BY <1>2, <1>3, <1>5, StoreChain
<1>7. ASSUME NEW i \in 1 .. Len(bytes) PROVE s.mem[b.position + i - 1] = bytes[i]
  <2> DEFINE a == b.position + i - 1
  <2>1. a \in 0 .. r.capacity - 1 /\ a \in b.position .. b.position + Len(bytes) - 1 /\ a - b.position + 1 = i
    BY <1>1, <1>2, <1>3, <1>4
  <2> HIDE DEF a
  <2>2. s.mem[a] = bytes[i]
    BY <1>6, <2>1 DEF Copied
  <2> QED BY <2>2 DEF a
<1>8. ASSUME NEW a \in 0 .. b.capacity - 1, a < b.position \/ b.position + Len(bytes) <= a
      PROVE s.mem[a] = b.mem[a]
  <2>1. a \in 0 .. r.capacity - 1 /\ a \notin b.position .. b.position + Len(bytes) - 1
    BY <1>1, <1>2, <1>3, <1>4, <1>8
  <2> QED BY <1>3, <1>6, <1>8, <2>1 DEF Copied
<1>9. Chain(s) /\ s.position = b.position /\ s.size = b.size /\ s.capacity = r.capacity
  BY <1>3, <1>6 DEF Copied
<1> QED BY <1>3, <1>7, <1>8, <1>9

(* write stores the bytes, behind the nodes that there were if need be. *)
LEMMA WriteStores ==
    ASSUME NEW b, Sane(b), NEW bytes \in Seq(Byte), NEW r, r = write(b, bytes)
    PROVE  Stores(b, r, bytes)
<1>1. /\ Chain(b) /\ b.position \in Nat /\ b.capacity \in Nat /\ b.size \in Nat
      /\ b.position <= b.size /\ Len(bytes) \in Nat
  BY LenProperties DEF Sane, Chain
<1>2. CASE bytes = <<>>
  <2>1. r = b /\ Len(bytes) = 0
    BY <1>2 DEF write
  <2> QED BY <1>1, <2>1 DEF Stores
<1>3. CASE bytes # <<>>
  <2> DEFINE n == Len(bytes)
  <2> DEFINE c == addCapacity(b, n)
  <2> DEFINE s == Store(c, Here(c), bytes)
  <2> DEFINE w == Advance(s, n)
  <2> DEFINE size == IF w.position > w.size THEN w.position ELSE w.size
  <2>1. r = [w EXCEPT !.size = size]
    BY <1>3 DEF write
  <2>2. /\ Chain(s) /\ s.position = b.position /\ s.size = b.size
        /\ b.capacity <= s.capacity /\ b.position + n <= s.capacity
        /\ \A i \in 1 .. n : s.mem[b.position + i - 1] = bytes[i]
        /\ \A a \in 0 .. b.capacity - 1 : a < b.position \/ b.position + n <= a => s.mem[a] = b.mem[a]
    BY <1>1, <1>3, StoreAtPosition
  <2> HIDE DEF s, c
  <2>3. Chain(w) /\ w.position = b.position + n /\ w.size = b.size /\ w.capacity = s.capacity /\ w.mem = s.mem
    BY <1>1, <2>2, AdvanceChain
  <2> HIDE DEF w
  <2>4. /\ w.capacity \in Nat /\ size \in Nat /\ size <= w.capacity /\ w.position <= size /\ b.size <= size
        /\ size = b.size \/ size = w.position
    BY <1>1, <2>2, <2>3 DEF Chain
  <2> HIDE DEF size
  <2>5. r = [position |-> w.position, capacity |-> w.capacity, size |-> size, cur |-> w.cur, mem |-> w.mem]
    BY <2>1, <2>3 DEF Chain
  <2>6. Sane(r)
    BY <2>3, <2>4, <2>5 DEF Chain, Sane
  <2> QED BY <1>1, <2>2, <2>3, <2>4, <2>5, <2>6 DEF Stores
<1> QED BY <1>2, <1>3

(* SocketStream::read stores what recv gave, also in a part of the room.   *)
LEMMA RecvStores ==
    ASSUME NEW b, Sane(b), NEW bytes \in Seq(Byte), NEW len \in Nat, Len(bytes) <= len,
           NEW c, c = addCapacity(b, len),
           NEW r, r = IF bytes = <<>> THEN c ELSE setPosition(Store(c, Here(c), bytes), b.position + Len(bytes))
    PROVE  Stores(b, r, bytes)
<1>1. /\ Chain(b) /\ b.position \in Nat /\ b.capacity \in Nat /\ b.size \in Nat
      /\ b.position <= b.size /\ Len(bytes) \in Nat
  BY LenProperties DEF Sane, Chain
<1>2. CASE bytes = <<>>
  <2>1. r = c /\ Len(bytes) = 0
    BY <1>2
  <2>2. RoomFor(b, len, c)
    BY <1>1, AddCapacityChain
  <2> QED BY <1>1, <2>1, <2>2 DEF Stores, Sane, RoomFor
<1>3. CASE bytes # <<>>
  <2> DEFINE s == Store(c, Here(c), bytes)
  <2>1. /\ Chain(s) /\ s.size = b.size
        /\ b.capacity <= s.capacity /\ b.position + len <= s.capacity
        /\ \A i \in 1 .. Len(bytes) : s.mem[b.position + i - 1] = bytes[i]
        /\ \A a \in 0 .. b.capacity - 1 :
              a < b.position \/ b.position + Len(bytes) <= a => s.mem[a] = b.mem[a]
    BY <1>1, <1>3, StoreAtPosition
  <2>2. r = setPosition(s, b.position + Len(bytes))
    BY <1>3
  <2> HIDE DEF s
  <2> DEFINE v == b.position + Len(bytes)
  <2>3. v \in Nat /\ v <= s.capacity
    BY <1>1, <2>1 DEF Chain
  <2> HIDE DEF v
  <2>4. r = setPosition(s, v)
    BY <2>2 DEF v
  <2>5. Sane(r) /\ r.capacity = s.capacity /\ r.mem = s.mem /\ r.size = IF v > s.size THEN v ELSE s.size
    BY <2>1, <2>3, <2>4, SetPositionSane
  <2>6. b.size <= r.size /\ v <= r.size /\ (r.size = b.size \/ r.size = v)
    BY <1>1, <2>1, <2>3, <2>5
  <2> QED BY <2>1, <2>5, <2>6 DEF Stores, v
<1> QED BY <1>2, <1>3

----------------------------------------------------------------------------
(* Integers *)

(* The bases of the encodings: a byte has a bit more than a group, and the *)
(* signed numbers are half of the unsigned ones.                           *)
LEMMA Bases ==
    /\ Half \in Nat /\ Half >= 2 /\ Pow(2, Width - 1) \in Nat \ {0}
    /\ Pow(2, Width) = 2 * Pow(2, Width - 1)
<1>1. Pow(2, 1) = 2
  <2>1. Pow(2, 0 + 1) = 2 * Pow(2, 0) /\ Pow(2, 0) = 1
    BY PowRec
  <2> QED BY <2>1
<1>2. Half \in Nat /\ Half >= 2
  <2>1. GroupBits \in Nat /\ 1 <= GroupBits /\ 2 \in Nat \ {0}
    BY BaseAssumption
  <2>2. Pow(2, GroupBits) \in Nat /\ Pow(2, 1) <= Pow(2, GroupBits)
    BY <2>1, PowRec, PowMonotone
  <2> QED BY <1>1, <2>2 DEF Half
<1>3. Width - 1 \in Nat /\ (Width - 1) + 1 = Width /\ 2 \in Nat \ {0}
  BY BaseAssumption
<1>4. Pow(2, Width - 1) \in Nat \ {0} /\ Pow(2, (Width - 1) + 1) = 2 * Pow(2, Width - 1)
  BY <1>3, PowPositive, PowRec
<1> QED BY <1>2, <1>3, <1>4

(* The bytes that the reader's loop takes hold every number. *)
LEMMA GroupsHold ==
    MaxGroups \in 1 .. Width /\ Pow(2, Width) <= Pow(Half, MaxGroups)
<1> DEFINE g == GroupBits
<1> DEFINE x == Width + g - 1
<1> DEFINE q == x \div g
<1>1. g \in Nat \ {0} /\ Width \in Nat \ {0} /\ x \in Nat
  BY BaseAssumption
<1>2. q \in Nat /\ (x % g) \in 0 .. (g - 1) /\ x = g * q + (x % g)
  BY <1>1
<1>3. MaxGroups = q
  BY DEF MaxGroups
<1> HIDE DEF q
<1>4. g * q \in Nat /\ g * q >= Width /\ g * q <= x
  BY <1>1, <1>2
<1>5. q # 0
  BY <1>1, <1>4
<1>6. q <= Width
  <2>1. SUFFICES ASSUME Width < q PROVE FALSE
    BY <1>1, <1>2
  <2>2. g * Width + g <= g * q
    BY <1>1, <1>2, <2>1, MulStep
  <2>3. g * Width >= Width
    <3>1. PICK k \in Nat : g = k + 1
      <4>1. g - 1 \in Nat /\ g = (g - 1) + 1
        BY <1>1
      <4> QED BY <4>1
    <3>2. g * Width = k * Width + Width /\ k * Width \in Nat
      BY <1>1, <3>1
    <3> QED BY <1>1, <3>2
  <2>4. g * Width \in Nat
    BY <1>1
  <2> QED BY <1>1, <1>4, <2>2, <2>3, <2>4
<1>7. Pow(Half, q) = Pow(2, g * q)
  BY <1>1, <1>2, PowOfPow DEF Half
<1>8. Pow(2, Width) <= Pow(2, g * q)
  <2> DEFINE y == g * q
  <2>1. y \in Nat /\ Width <= y /\ 2 \in Nat \ {0}
    BY <1>1, <1>4
  <2> HIDE DEF y
  <2>2. Pow(2, Width) <= Pow(2, y)
    BY <1>1, <2>1, PowMonotone
  <2> QED BY <2>2 DEF y
<1> QED BY <1>1, <1>2, <1>3, <1>5, <1>6, <1>7, <1>8

(* writeUint32 and writeUint64 need no more groups than that. *)
LEMMA GroupsOf ==
    ASSUME NEW v \in Unsigned
    PROVE  Groups(v) \in 1 .. MaxGroups /\ v < Pow(Half, Groups(v))
<1> DEFINE S == {n \in 1 .. Width : v < Pow(Half, n)}
<1>1. v \in Nat /\ v < Pow(2, Width) /\ Pow(2, Width) \in Nat
  BY Bases DEF Unsigned
<1>2. MaxGroups \in Nat /\ Pow(Half, MaxGroups) \in Nat
  BY GroupsHold, Bases, PowRec, BaseAssumption
<1>3. MaxGroups \in S
  BY <1>1, <1>2, GroupsHold
<1>4. S \in SUBSET Nat
  BY BaseAssumption
<1>5. \E n \in S : \A m \in S : n <= m
  BY <1>3, <1>4, MinExists
<1>6. Min(S) \in S /\ \A m \in S : Min(S) <= m
  BY <1>5 DEF Min
<1>7. Groups(v) = Min(S)
  BY DEF Groups
<1>8. Groups(v) \in 1 .. Width /\ v < Pow(Half, Groups(v)) /\ Groups(v) <= MaxGroups
  BY <1>3, <1>6, <1>7
<1> HIDE DEF S
<1> QED BY <1>2, <1>8, BaseAssumption

(* A number in Width bits is itself. *)
LEMMA InWidth ==
    ASSUME NEW v \in Unsigned
    PROVE  v % Pow(2, Width) = v
<1> DEFINE p == Pow(2, Width)
<1>1. p \in Nat \ {0} /\ v \in 0 .. (p - 1)
  BY Bases DEF Unsigned
<1> HIDE DEF p
<1>2. v = p * 0 + v /\ v \in Int /\ 0 \in Int
  BY <1>1
<1>3. v % p = v
  BY <1>1, <1>2, DivBase
<1> QED BY <1>3 DEF p

(* The bytes of a compressed integer, marked but for the last one, and the *)
(* number that they give.                                                  *)
LEMMA VarintSurvives ==
    ASSUME NEW v \in Unsigned
    PROVE  /\ Varint(v) \in Seq(Byte) /\ Len(Varint(v)) \in 1 .. MaxGroups
           /\ \A i \in 1 .. Len(Varint(v)) : Varint(v)[i] < Half <=> i = Len(Varint(v))
           /\ FromVarint(Varint(v)) = v
<1> DEFINE n == Groups(v)
<1> DEFINE b == Varint(v)
<1> DEFINE d == [i \in 1 .. n |-> Digit(v, Half, i)]
<1>1. n \in 1 .. MaxGroups /\ v < Pow(Half, n) /\ n \in Nat \ {0}
  BY GroupsOf, GroupsHold, BaseAssumption
<1>2. v \in Nat /\ Half \in Nat /\ Half >= 2 /\ Half \in Nat \ {0}
  BY Bases DEF Unsigned
<1>3. \A i \in 1 .. n : Digit(v, Half, i) \in 0 .. (Half - 1)
  <2>1. ASSUME NEW i \in 1 .. n PROVE Digit(v, Half, i) \in 0 .. (Half - 1)
    <3>1. i \in Nat \ {0}
      BY <1>1
    <3> QED BY <1>2, <3>1, DigitRange
  <2> QED BY <2>1
<1>4. b = [i \in 1 .. n |-> Digit(v, Half, i) + (IF i < n THEN Half ELSE 0)]
  BY DEF Varint
<1> HIDE DEF n, b
<1>5. \A i \in 1 .. n : b[i] \in Byte /\ (b[i] < Half <=> i = n) /\ b[i] % Half = Digit(v, Half, i)
  <2>1. ASSUME NEW i \in 1 .. n
        PROVE  b[i] \in Byte /\ (b[i] < Half <=> i = n) /\ b[i] % Half = Digit(v, Half, i)
    <3> DEFINE x == Digit(v, Half, i)
    <3>1. x \in 0 .. (Half - 1) /\ b[i] = x + (IF i < n THEN Half ELSE 0)
      BY <1>3, <1>4
    <3> HIDE DEF x
    <3>2. CASE i < n
      <4>1. b[i] = Half * 1 + x /\ b[i] \in Int /\ 1 \in Int
        BY <1>2, <3>1, <3>2
      <4>2. b[i] % Half = x
        BY <1>2, <3>1, <4>1, DivBase
      <4> QED BY <1>1, <1>2, <3>1, <3>2, <4>1, <4>2 DEF Byte, x
    <3>3. CASE i = n
      <4>1. b[i] = Half * 0 + x /\ b[i] \in Int /\ 0 \in Int /\ b[i] = x
        BY <1>1, <1>2, <3>1, <3>3
      <4>2. b[i] % Half = x
        BY <1>2, <3>1, <4>1, DivBase
      <4> QED BY <1>1, <1>2, <3>1, <3>3, <4>1, <4>2 DEF Byte, x
    <3> QED BY <1>1, <3>2, <3>3
  <2> QED BY <2>1
<1>6. b \in Seq(Byte) /\ Len(b) = n
  <2>1. b \in [1 .. n -> Byte]
    BY <1>4, <1>5
  <2> QED BY <1>1, <2>1
<1>7. FromVarint(b) = FromDigits(d, Half) % Pow(2, Width)
  <2>1. [i \in 1 .. Len(b) |-> b[i] % Half] = d
    BY <1>5, <1>6
  <2> QED BY <2>1 DEF FromVarint
<1>8. FromDigits(d, Half) = v
  <2>1. d \in [1 .. n -> Nat]
    BY <1>2, <1>3
  <2>2. d \in Seq(Nat) /\ Len(d) = n /\ \A k \in 1 .. n : d[k] = Digit(v, Half, k)
    BY <1>1, <2>1
  <2> HIDE DEF d
  <2> QED BY <1>1, <1>2, <2>2, AllDigitsBack
<1> QED BY <1>1, <1>5, <1>6, <1>7, <1>8, InWidth DEF b

(* A signed integer, the least one too, has an unsigned code of its own. *)
LEMMA ZigzagSurvives ==
    ASSUME NEW v \in Signed
    PROVE  EncodeZigzag(v) \in Unsigned /\ DecodeZigzag(EncodeZigzag(v)) = v
<1> DEFINE h == Pow(2, Width - 1)
<1> DEFINE x == IF v < 0 THEN 2 * (-v) - 1 ELSE 2 * v
<1>1. h \in Nat \ {0} /\ Pow(2, Width) = 2 * h /\ v \in Int /\ -h <= v /\ v <= h - 1
  BY Bases DEF Signed
<1> HIDE DEF h
<1>2. x \in 0 .. (2 * h) - 1
  BY <1>1
<1>3. x \in Unsigned
  BY <1>1, <1>2 DEF Unsigned
<1>4. EncodeZigzag(v) = x
  <2>1. EncodeZigzag(v) = x % Pow(2, Width)
    BY DEF EncodeZigzag
  <2> HIDE DEF x
  <2> QED BY <1>3, <2>1, InWidth
<1>5. DecodeZigzag(x) = v
  <2>1. CASE v < 0
    <3> DEFINE y == -v - 1
    <3>1. x = 2 * y + 1 /\ x \in Int /\ y \in Int /\ 1 \in 0 .. (2 - 1) /\ 2 \in Nat \ {0} /\ -y - 1 = v
      BY <1>1, <2>1
    <3> HIDE DEF x, y
    <3>2. x % 2 = 1 /\ x \div 2 = y
      BY <3>1, DivBase
    <3> QED BY <3>1, <3>2 DEF DecodeZigzag
  <2>2. CASE ~(v < 0)
    <3>1. x = 2 * v + 0 /\ x \in Int /\ 0 \in 0 .. (2 - 1) /\ 2 \in Nat \ {0}
      BY <1>1, <2>2
    <3> HIDE DEF x
    <3>2. x % 2 = 0 /\ x \div 2 = v
      BY <1>1, <3>1, DivBase
    <3> QED BY <1>1, <3>2 DEF DecodeZigzag
  <2> QED BY <2>1, <2>2
<1> QED BY <1>3, <1>4, <1>5

(* An integer of n bytes, in both byte orders. *)
LEMMA FixedSurvives ==
    ASSUME NEW n \in 1 .. 2, NEW le \in BOOLEAN, NEW v \in Nat, v < Pow(2 * Half, n)
    PROVE  /\ FixedBytes(v, n, le) \in Seq(Byte) /\ Len(FixedBytes(v, n, le)) = n
           /\ FromFixed(FixedBytes(v, n, le), le) = v
<1> DEFINE w == 2 * Half
<1> DEFINE b == [i \in 1 .. n |-> Digit(v, w, i)]
<1>1. w \in Nat \ {0} /\ Byte = 0 .. (w - 1) /\ Byte \subseteq Nat /\ n \in Nat
  BY Bases DEF Byte
<1> HIDE DEF w
<1>2. \A i \in 1 .. n : Digit(v, w, i) \in Byte
  <2>1. ASSUME NEW i \in 1 .. n PROVE Digit(v, w, i) \in Byte
    <3>1. i \in Nat \ {0}
      OBVIOUS
    <3> QED BY <1>1, <3>1, DigitRange
  <2> QED BY <2>1
<1>3. b \in [1 .. n -> Byte] /\ \A k \in 1 .. n : b[k] = Digit(v, w, k)
  BY <1>2
<1> HIDE DEF b
<1>4. b \in Seq(Byte) /\ b \in Seq(Nat) /\ Len(b) = n
  BY <1>1, <1>3
<1>5. FromDigits(b, w) = v
  <2>1. v < Pow(w, n)
    BY DEF w
  <2> QED BY <1>1, <1>3, <1>4, <2>1, AllDigitsBack
<1>6. Reverse(b) \in Seq(Byte) /\ Len(Reverse(b)) = n /\ Reverse(Reverse(b)) = b
  BY <1>4, ReverseSeq
<1>7. FixedBytes(v, n, le) = IF le THEN b ELSE Reverse(b)
  BY DEF FixedBytes, b, w
<1>8. FromFixed(FixedBytes(v, n, le), le) = v
  <2>1. CASE le = TRUE
    BY <1>5, <1>7, <2>1 DEF FromFixed, w
  <2>2. CASE le = FALSE
    BY <1>5, <1>6, <1>7, <2>2 DEF FromFixed, w
  <2> QED BY <2>1, <2>2
<1> QED BY <1>4, <1>6, <1>7, <1>8

(* Every value of the integer types survives its encodings, whatever the   *)
(* number of bits of the type and of a byte: writeFint*, writeUint* and    *)
(* writeInt* lose nothing that the read functions could have, and the      *)
(* arrays tmp[5] and tmp[10] are long enough.                              *)
THEOREM CodecCorrect == \A v \in Unsigned \cup Signed : SurvivesCodec(v)
<1> SUFFICES ASSUME NEW v \in Unsigned \cup Signed PROVE SurvivesCodec(v)
  OBVIOUS
<1>1. v \in Int /\ (v >= 0 => v \in Unsigned) /\ (v < Pow(2, Width - 1) => v \in Signed)
  BY Bases DEF Unsigned, Signed
<1>2. v >= 0 => /\ Varint(v) \in Seq(Byte) /\ Len(Varint(v)) \in 1 .. MaxGroups
                /\ \A i \in 1 .. Len(Varint(v)) : Varint(v)[i] < Half <=> i = Len(Varint(v))
                /\ FromVarint(Varint(v)) = v
  BY <1>1, VarintSurvives
<1>3. v < Pow(2, Width - 1) => EncodeZigzag(v) \in Unsigned /\ DecodeZigzag(EncodeZigzag(v)) = v
  BY <1>1, ZigzagSurvives
<1>4. ASSUME NEW n \in 1 .. 2, NEW le \in BOOLEAN, v >= 0, v < Pow(2 * Half, n)
      PROVE  /\ FixedBytes(v, n, le) \in Seq(Byte) /\ Len(FixedBytes(v, n, le)) = n
             /\ FromFixed(FixedBytes(v, n, le), le) = v
  <2>1. v \in Nat
    BY <1>1, <1>4
  <2> QED BY <1>4, <2>1, FixedSurvives
<1> QED BY <1>2, <1>3, <1>4 DEF SurvivesCodec

----------------------------------------------------------------------------
(* Reading *)

(* The position is n bytes further and nothing else has changed. *)
Moved(b, n, r) ==
    /\ Sane(r)
    /\ r.position = b.position + n /\ r.size = b.size /\ r.capacity = b.capacity /\ r.mem = b.mem

(* The bytes lie at an address, within the data. *)
Lies(b, at, bytes) ==
    /\ at + Len(bytes) <= b.size
    /\ \A i \in 1 .. Len(bytes) : b.mem[at + i - 1] = bytes[i]

(* The copy loops do no more than that when there is so much to read. *)
LEMMA AdvanceMoves ==
    ASSUME NEW b, Sane(b), NEW n \in Nat, n <= getReadSize(b)
    PROVE  Moved(b, n, Advance(b, n))
<1>1. /\ Chain(b) /\ b.position \in Nat /\ b.size \in Nat /\ b.capacity \in Nat
      /\ b.size <= b.capacity /\ b.position + n <= b.size
  BY DEF Sane, Chain, getReadSize
<1> DEFINE r == Advance(b, n)
<1>2. /\ Chain(r)
      /\ r.position = b.position + n /\ r.size = b.size /\ r.capacity = b.capacity /\ r.mem = b.mem
  BY <1>1, AdvanceChain
<1> HIDE DEF r
<1>3. Moved(b, n, r)
  BY <1>1, <1>2 DEF Moved, Sane
<1> QED BY <1>3 DEF r

(* They give the bytes at the position. *)
LEMMA BytesAt ==
    ASSUME NEW b, Sane(b), NEW n \in Nat, n <= getReadSize(b)
    PROVE  /\ Bytes(b, n) \in Seq(Byte) /\ Len(Bytes(b, n)) = n
           /\ \A i \in 1 .. n : Bytes(b, n)[i] = b.mem[b.position + i - 1]
           /\ n # 0 => Here(b) = b.position
<1>1. /\ Chain(b) /\ b.position \in Nat /\ b.size \in Nat /\ b.capacity \in Nat
      /\ b.size <= b.capacity /\ b.position + n <= b.size
      /\ b.mem \in [0 .. b.capacity - 1 -> Byte]
  BY DEF Sane, Chain, getReadSize
<1>2. n # 0 => Here(b) = b.position
  BY <1>1, HereIsPosition
<1>3. Bytes(b, n) = [i \in 1 .. n |-> b.mem[b.position + i - 1]]
  BY <1>1, <1>2 DEF Bytes
<1>4. \A i \in 1 .. n : b.position + i - 1 \in 0 .. b.capacity - 1
  BY <1>1
<1>5. Bytes(b, n) \in [1 .. n -> Byte]
  BY <1>1, <1>3, <1>4
<1> QED BY <1>2, <1>3, <1>5

(* What read promises. *)
ReadsBytes(b, n, r) ==
    /\ r.how \in {"ok", "range", "null"} /\ r.bytes \in Seq(Byte)
    /\ r.how = "ok" => /\ n <= getReadSize(b) /\ Moved(b, n, r.ba) /\ Len(r.bytes) = n
                       /\ \A i \in 1 .. n : r.bytes[i] = b.mem[b.position + i - 1]
    /\ r.how # "ok" => r.ba = b
    /\ n <= getReadSize(b) => r.how # "range"
    /\ r.how = "null" => n = 0 /\ b.position = b.capacity

(* It keeps that, also behind the last node. *)
LEMMA ReadReads ==
    ASSUME NEW b, Sane(b), NEW n \in Nat
    PROVE  ReadsBytes(b, n, read(b, n))
<1> DEFINE r == read(b, n)
<1>1. /\ Chain(b) /\ b.position \in Nat /\ b.size \in Nat /\ b.capacity \in Nat
      /\ b.size <= b.capacity /\ b.position <= b.size
  BY DEF Sane, Chain
<1>2. getReadSize(b) \in Nat /\ getReadSize(b) = b.size - b.position
  BY <1>1 DEF getReadSize
<1>3. b.cur = Null <=> b.position = b.capacity
  BY <1>1, CurIsNull
<1>4. CASE n > getReadSize(b)
  <2>1. r = [ba |-> b, how |-> "range", bytes |-> <<>>]
    BY <1>2, <1>4 DEF read
  <2> HIDE DEF r
  <2>2. ReadsBytes(b, n, r)
    BY <1>2, <1>4, <2>1 DEF ReadsBytes
  <2> QED BY <2>2 DEF r
<1>5. CASE n <= getReadSize(b) /\ b.cur = Null
  <2>1. r = [ba |-> b, how |-> "null", bytes |-> <<>>]
    BY <1>2, <1>5 DEF read
  <2>2. n = 0 /\ b.position = b.capacity
    BY <1>1, <1>2, <1>3, <1>5
  <2> HIDE DEF r
  <2>3. ReadsBytes(b, n, r)
    BY <2>1, <2>2 DEF ReadsBytes
  <2> QED BY <2>3 DEF r
<1>6. CASE n <= getReadSize(b) /\ b.cur # Null
  <2>1. r = [ba |-> Advance(b, n), how |-> "ok", bytes |-> Bytes(b, n)]
    BY <1>2, <1>6 DEF read
  <2>2. Moved(b, n, Advance(b, n))
    BY <1>6, AdvanceMoves
  <2>3. /\ Bytes(b, n) \in Seq(Byte) /\ Len(Bytes(b, n)) = n
        /\ \A i \in 1 .. n : Bytes(b, n)[i] = b.mem[b.position + i - 1]
    BY <1>6, BytesAt
  <2> HIDE DEF r
  <2>4. ReadsBytes(b, n, r)
    BY <1>6, <2>1, <2>2, <2>3 DEF ReadsBytes
  <2> QED BY <2>4 DEF r
<1> QED BY <1>2, <1>4, <1>5, <1>6

(* What readUint32 and readUint64 promise: they consume some of the bytes, *)
(* and exactly a code that lies at the position.                           *)
ReadsVarint(b, r) ==
    /\ r.how \in {"ok", "range"} /\ r.bytes \in Seq(Byte)
    /\ \E n \in Nat : n <= getReadSize(b) /\ Moved(b, n, r.ba)
    /\ \A c \in Seq(Byte) :
          /\ Len(c) \in 1 .. MaxGroups /\ (\A i \in 1 .. Len(c) : c[i] < Half <=> i = Len(c))
          /\ Lies(b, b.position, c)
          => r.how = "ok" /\ r.bytes = c /\ Moved(b, Len(c), r.ba)

(* They keep that. *)
LEMMA VarintReads ==
    ASSUME NEW b, Sane(b)
    PROVE  ReadsVarint(b, readVarint(b))
<1> DEFINE size == getReadSize(b)
<1> DEFINE most == MinOf(MaxGroups, size)
<1> DEFINE ends == {i \in 1 .. most : b.mem[Here(b) + i - 1] < Half} \cup {most}
<1> DEFINE n == Min(ends)
<1> DEFINE short == n = size /\ n < MaxGroups /\ (n = 0 \/ b.mem[Here(b) + n - 1] >= Half)
<1> DEFINE r == readVarint(b)
<1>1. r = [ba |-> Advance(b, n), how |-> IF short THEN "range" ELSE "ok", bytes |-> Bytes(b, n)]
  BY DEF readVarint
<1>2. /\ Chain(b) /\ b.position \in Nat /\ b.size \in Nat /\ b.capacity \in Nat
      /\ b.size <= b.capacity /\ b.position <= b.size
      /\ b.mem \in [0 .. b.capacity - 1 -> Byte]
  BY DEF Sane, Chain
<1>3. size \in Nat /\ size = b.size - b.position
  BY <1>2 DEF getReadSize
<1>4. MaxGroups \in Nat \ {0}
  BY GroupsHold, BaseAssumption
<1> HIDE DEF size
<1>5. most \in Nat /\ most <= size /\ most <= MaxGroups /\ (most = size \/ most = MaxGroups)
  BY <1>3, <1>4 DEF MinOf
<1> HIDE DEF most
<1>6. ends \in SUBSET Nat /\ most \in ends
  BY <1>5
<1>7. \E x \in ends : \A m \in ends : x <= m
  BY <1>6, MinExists
<1>8. n \in ends /\ \A m \in ends : n <= m
  BY <1>7 DEF Min
<1>9. n \in Nat /\ n <= most
  BY <1>6, <1>8
<1>10. n <= getReadSize(b)
  BY <1>3, <1>5, <1>9 DEF size
<1>11. Moved(b, n, Advance(b, n)) /\ Bytes(b, n) \in Seq(Byte) /\ Len(Bytes(b, n)) = n
       /\ \A i \in 1 .. n : Bytes(b, n)[i] = b.mem[b.position + i - 1]
  <2> HIDE DEF n
  <2> QED BY <1>9, <1>10, AdvanceMoves, BytesAt
<1>12. ASSUME NEW c \in Seq(Byte), Len(c) \in 1 .. MaxGroups,
              \A i \in 1 .. Len(c) : c[i] < Half <=> i = Len(c),
              Lies(b, b.position, c)
       PROVE  n = Len(c) /\ ~short /\ Bytes(b, n) = c
  <2> DEFINE k == Len(c)
  <2>1. k \in 1 .. MaxGroups /\ k \in Nat /\ k <= size
        /\ \A i \in 1 .. k : b.mem[b.position + i - 1] = c[i] /\ (c[i] < Half <=> i = k)
    BY <1>2, <1>3, <1>12 DEF Lies
  <2> HIDE DEF k
  <2>2. k <= most /\ k # 0 /\ most # 0
    BY <1>3, <1>4, <1>5, <2>1
  <2>3. Here(b) = b.position
    BY <1>2, <1>3, <2>1, <2>2, HereIsPosition
  <2>4. k \in ends
    BY <1>5, <2>1, <2>2, <2>3
  <2>5. n <= k
    BY <1>8, <2>4
  <2>6. n >= k
    <3>1. CASE n = most
      BY <1>9, <2>1, <2>2, <3>1
    <3>2. CASE n \in 1 .. most /\ b.mem[Here(b) + n - 1] < Half
      <4> HIDE DEF n, ends
      <4>1. n \in 1 .. k
        BY <1>5, <1>9, <2>1, <2>5, <3>2
      <4>2. c[n] < Half
        BY <2>1, <2>3, <3>2, <4>1
      <4> QED BY <2>1, <4>1, <4>2
    <3> QED BY <1>8, <3>1, <3>2
  <2> HIDE DEF ends
  <2>7. n = k
    BY <1>9, <2>1, <2>5, <2>6
  <2> HIDE DEF n
  <2>8. c[k] < Half /\ c[k] \in Byte /\ k \in 1 .. k /\ b.mem[b.position + k - 1] = c[k]
    <3>1. k \in 1 .. k
      BY <2>1
    <3>2. c[k] \in Byte
      BY <3>1, ElementOfSeq DEF k
    <3> QED BY <2>1, <3>1, <3>2
  <2>9. ~short
    <3>1. ~(c[k] >= Half)
      BY <2>8, Bases DEF Byte
    <3> QED BY <2>2, <2>3, <2>7, <2>8, <3>1
  <2>10. Bytes(b, n) = c
    <3>1. Bytes(b, n) \in Seq(Byte) /\ Len(Bytes(b, n)) = Len(c) /\ \A i \in 1 .. Len(c) : Bytes(b, n)[i] = c[i]
      BY <1>11, <2>1, <2>7 DEF k
    <3> HIDE DEF n
    <3> DEFINE d == Bytes(b, n)
    <3> HIDE DEF d
    <3>2. d \in Seq(Byte) /\ Len(d) = Len(c) /\ \A i \in 1 .. Len(c) : d[i] = c[i]
      BY <3>1 DEF d
    <3>3. d = c
      BY <3>2, SeqEqual
    <3> QED BY <3>3 DEF d
  <2> QED BY <2>7, <2>9, <2>10 DEF k
<1> HIDE DEF n, ends, short, r
<1>13. r.how \in {"ok", "range"} /\ r.bytes \in Seq(Byte) /\ Moved(b, n, r.ba)
  BY <1>1, <1>11
<1>14. ASSUME NEW c \in Seq(Byte), Len(c) \in 1 .. MaxGroups,
              \A i \in 1 .. Len(c) : c[i] < Half <=> i = Len(c),
              Lies(b, b.position, c)
       PROVE  r.how = "ok" /\ r.bytes = c /\ Moved(b, Len(c), r.ba)
  BY <1>1, <1>11, <1>12, <1>14
<1>15. ReadsVarint(b, r)
  BY <1>9, <1>10, <1>13, <1>14 DEF ReadsVarint
<1> QED BY <1>15 DEF r

(* What the decoders make of any bytes is a length that read can be given. *)
LEMMA DecodedLength ==
    ASSUME NEW bytes \in Seq(Byte), NEW le \in BOOLEAN
    PROVE  FromFixed(bytes, le) \in Nat /\ FromVarint(bytes) \in Nat
<1>1. Half \in Nat /\ Half >= 2 /\ Pow(2, Width) \in Nat \ {0} /\ Byte \subseteq Nat
  BY Bases DEF Byte
<1>2. FromFixed(bytes, le) \in Nat
  <2> DEFINE d == IF le THEN bytes ELSE Reverse(bytes)
  <2>1. d \in Seq(Byte)
    BY ReverseSeq
  <2> HIDE DEF d
  <2>2. d \in Seq(Nat)
    <3>1. Len(d) \in Nat /\ d \in [1 .. Len(d) -> Byte]
      BY <2>1, LenProperties
    <3>2. d \in [1 .. Len(d) -> Nat]
      BY <1>1, <3>1
    <3> QED BY <3>1, <3>2
  <2>3. FromDigits(d, 2 * Half) \in Nat
    <3> DEFINE w == 2 * Half
    <3>1. w \in Nat
      BY <1>1
    <3> HIDE DEF w
    <3>2. FromDigits(d, w) \in Nat
      BY <2>2, <3>1, FromDigitsType
    <3> QED BY <3>2 DEF w
  <2> QED BY <2>3 DEF FromFixed, d
<1>3. FromVarint(bytes) \in Nat
  <2> DEFINE d == [i \in 1 .. Len(bytes) |-> bytes[i] % Half]
  <2>1. Len(bytes) \in Nat /\ \A i \in 1 .. Len(bytes) : bytes[i] \in Nat
    BY <1>1, LenProperties, ElementOfSeq
  <2>2. \A i \in 1 .. Len(bytes) : (bytes[i] % Half) \in Nat
    BY <1>1, <2>1
  <2>3. d \in Seq(Nat)
    BY <2>1, <2>2
  <2> HIDE DEF d
  <2> DEFINE x == FromDigits(d, Half)
  <2> DEFINE p == Pow(2, Width)
  <2>4. x \in Nat /\ p \in Nat \ {0}
    BY <1>1, <2>3, FromDigitsType
  <2> HIDE DEF x, p
  <2>5. (x % p) \in Nat
    BY <2>4
  <2> QED BY <2>5 DEF FromVarint, x, p, d
<1> QED BY <1>2, <1>3

(* Moving twice. *)
LEMMA MovedTwice ==
    ASSUME NEW b, Sane(b), NEW n \in Nat, NEW r, Moved(b, n, r), NEW m \in Nat, NEW s, Moved(r, m, s)
    PROVE  Moved(b, n + m, s) /\ n + m \in Nat
<1>1. b.position \in Nat
  BY DEF Sane, Chain
<1> QED BY <1>1 DEF Moved

(* Every read function moves the position forward, if anything, and leaves *)
(* the rest alone, also when it throws and whatever the bytes say.         *)
LEMMA DecodeMoves ==
    ASSUME NEW b, Sane(b), NEW kind \in Kinds \cup {"raw"}, NEW n \in Nat, NEW le \in BOOLEAN
    PROVE  \E k \in Nat : Moved(b, k, Decode(kind, b, n, le).ba)
<1>0. Moved(b, 0, b)
  BY DEF Moved, Sane, Chain
<1>1. ASSUME NEW c, Sane(c), NEW m \in Nat PROVE \E k \in Nat : Moved(c, k, read(c, m).ba)
  <2>1. ReadsBytes(c, m, read(c, m))
    BY <1>1, ReadReads
  <2>2. Moved(c, 0, c)
    BY <1>1 DEF Moved, Sane, Chain
  <2> QED BY <2>1, <2>2 DEF ReadsBytes
<1>2. ASSUME NEW m \in Nat, NEW head, NEW k \in Nat, Moved(b, k, head.ba)
      PROVE  \E j \in Nat : Moved(b, j, readString(head, m).ba)
  <2>1. CASE head.how # "ok"
    BY <1>2, <2>1 DEF readString, Result
  <2>2. CASE head.how = "ok"
    <3>1. Sane(head.ba)
      BY <1>2 DEF Moved
    <3>2. PICK j \in Nat : Moved(head.ba, j, read(head.ba, m).ba)
      BY <1>1, <3>1
    <3>3. Moved(b, k + j, read(head.ba, m).ba) /\ k + j \in Nat
      BY <1>2, <3>2, MovedTwice
    <3>4. readString(head, m).ba = read(head.ba, m).ba
      BY <2>2 DEF readString, Result
    <3> QED BY <3>3, <3>4
  <2> QED BY <2>1, <2>2
<1>3. ReadsVarint(b, readVarint(b))
  BY VarintReads
<1>4. PICK k \in Nat : Moved(b, k, readVarint(b).ba)
  BY <1>3 DEF ReadsVarint
<1>5. FromVarint(readVarint(b).bytes) \in Nat
  BY <1>3, DecodedLength DEF ReadsVarint
<1>6. CASE kind \in {"F1", "F2"}
  <2>1. FixedSize(kind) \in Nat
    BY DEF FixedSize
  <2>2. Decode(kind, b, n, le).ba = read(b, FixedSize(kind)).ba
    BY <1>6 DEF Decode, Result
  <2> QED BY <1>1, <2>1, <2>2
<1>7. CASE kind \in {"U", "I"}
  <2>1. Decode(kind, b, n, le).ba = readVarint(b).ba
    BY <1>7 DEF Decode, Result
  <2> QED BY <1>4, <2>1
<1>8. CASE kind = "SF"
  <2> DEFINE r == read(b, 2)
  <2>1. ReadsBytes(b, 2, r)
    BY ReadReads
  <2>2. FromFixed(r.bytes, le) \in Nat
    BY <2>1, DecodedLength DEF ReadsBytes
  <2>3. PICK j \in Nat : Moved(b, j, r.ba)
    BY <1>1
  <2>4. Decode(kind, b, n, le) = readString(r, FromFixed(r.bytes, le))
    BY <1>8 DEF Decode
  <2> HIDE DEF r
  <2> QED BY <1>2, <2>2, <2>3, <2>4
<1>9. CASE kind = "SV"
  <2>1. Decode(kind, b, n, le) = readString(readVarint(b), FromVarint(readVarint(b).bytes))
    BY <1>9 DEF Decode
  <2> QED BY <1>2, <1>4, <1>5, <2>1
<1>10. CASE kind = "raw"
  <2>1. Decode(kind, b, n, le).ba = read(b, n).ba
    BY <1>10 DEF Decode, Result
  <2> QED BY <1>1, <2>1
<1> QED BY <1>6, <1>7, <1>8, <1>9, <1>10 DEF Kinds

(* An item's bytes are bytes. *)
LEMMA EncodeType ==
    ASSUME NEW kind, NEW v, NEW le \in BOOLEAN, IsItem(kind, v)
    PROVE  Encode(kind, v, le) \in Seq(Byte)
<1>1. CASE kind \in {"F1", "F2"} /\ v \in Unsigned /\ v < Pow(2 * Half, FixedSize(kind))
  <2>1. FixedSize(kind) \in 1 .. 2 /\ v \in Nat
    BY <1>1, Bases DEF FixedSize, Unsigned
  <2>2. FixedBytes(v, FixedSize(kind), le) \in Seq(Byte)
    BY <1>1, <2>1, FixedSurvives
  <2> QED BY <1>1, <2>2 DEF Encode
<1>2. CASE kind = "U" /\ v \in Unsigned
  BY <1>2, VarintSurvives DEF Encode
<1>3. CASE kind = "I" /\ v \in Signed
  <2>1. EncodeZigzag(v) \in Unsigned
    BY <1>3, ZigzagSurvives
  <2> QED BY <1>3, <2>1, VarintSurvives DEF Encode
<1>4. CASE kind = "SF" /\ v \in Seq(Byte) /\ Len(v) \in Unsigned /\ Len(v) < Pow(2 * Half, 2)
  <2>1. 2 \in 1 .. 2 /\ Len(v) \in Nat
    BY <1>4, LenProperties
  <2>2. FixedBytes(Len(v), 2, le) \in Seq(Byte)
    BY <1>4, <2>1, FixedSurvives
  <2>3. FixedBytes(Len(v), 2, le) \o v \in Seq(Byte)
    BY <1>4, <2>2
  <2> QED BY <1>4, <2>3 DEF Encode
<1>5. CASE kind = "SV" /\ v \in Seq(Byte) /\ Len(v) \in Unsigned
  <2>1. Varint(Len(v)) \in Seq(Byte)
    BY <1>5, VarintSurvives
  <2>2. Varint(Len(v)) \o v \in Seq(Byte)
    BY <1>5, <2>1
  <2> QED BY <1>5, <2>2 DEF Encode
<1> QED BY <1>1, <1>2, <1>3, <1>4, <1>5 DEF IsItem

(* The parts of what lies at an address. *)
LEMMA LiesInParts ==
    ASSUME NEW b, NEW at \in Nat, NEW c \in Seq(Byte), NEW d \in Seq(Byte), Lies(b, at, c \o d), b.size \in Nat
    PROVE  /\ Lies(b, at, c) /\ Lies(b, at + Len(c), d) /\ at + Len(c) \in Nat
           /\ Len(c \o d) = Len(c) + Len(d)
<1> DEFINE e == c \o d
<1> DEFINE m == Len(c)
<1> DEFINE n == Len(d)
<1>1. /\ m \in Nat /\ n \in Nat /\ Len(e) = m + n
      /\ (\A i \in 1 .. m : e[i] = c[i]) /\ (\A i \in 1 .. n : e[m + i] = d[i])
  BY LenProperties, ConcatProperties
<1>2. Lies(b, at, e)
  OBVIOUS
<1> HIDE DEF e, m, n
<1>3. at + (m + n) <= b.size /\ \A i \in 1 .. m + n : b.mem[at + i - 1] = e[i]
  BY <1>1, <1>2 DEF Lies
<1>4. Lies(b, at, c)
  BY <1>1, <1>3 DEF Lies, m
<1>5. ASSUME NEW i \in 1 .. n PROVE b.mem[(at + m) + i - 1] = d[i]
  <2> DEFINE j == m + i
  <2>1. j \in 1 .. m + n /\ at + j - 1 = (at + m) + i - 1
    BY <1>1
  <2>2. e[j] = d[i]
    BY <1>1
  <2> HIDE DEF j
  <2>3. b.mem[at + j - 1] = d[i]
    BY <1>3, <2>1, <2>2
  <2> QED BY <2>1, <2>3
<1>6. Lies(b, at + m, d)
  BY <1>1, <1>3, <1>5 DEF Lies, n
<1> QED BY <1>1, <1>4, <1>6 DEF m, n, e

(* Bytes that lie at the position are what is read there. *)
LEMMA ReadsWhatLies ==
    ASSUME NEW b, Sane(b), NEW c \in Seq(Byte), Lies(b, b.position, c), NEW r, r = read(b, Len(c))
    PROVE  \/ r.how = "ok" /\ r.bytes = c /\ Moved(b, Len(c), r.ba)
           \/ r.how = "null" /\ c = <<>> /\ r.ba = b /\ b.position = b.capacity
<1>1. Len(c) \in Nat /\ b.position \in Nat /\ b.size \in Nat
  BY LenProperties DEF Sane, Chain
<1>2. ReadsBytes(b, Len(c), r)
  BY <1>1, ReadReads
<1>3. Len(c) <= getReadSize(b)
  BY <1>1 DEF Lies, getReadSize
<1>4. CASE r.how = "ok"
  <2> DEFINE d == r.bytes
  <2>1. d \in Seq(Byte) /\ Len(d) = Len(c) /\ Moved(b, Len(c), r.ba)
        /\ \A i \in 1 .. Len(c) : d[i] = c[i]
    BY <1>2, <1>4 DEF ReadsBytes, Lies
  <2> HIDE DEF d
  <2>2. d = c
    BY <2>1, SeqEqual
  <2> QED BY <1>4, <2>1, <2>2 DEF d
<1>5. CASE r.how # "ok"
  <2>1. r.how = "null" /\ r.ba = b /\ Len(c) = 0 /\ b.position = b.capacity
    BY <1>2, <1>3, <1>5 DEF ReadsBytes
  <2>2. c = <<>>
    BY <2>1, EmptySeq
  <2> QED BY <2>1, <2>2
<1> QED BY <1>4, <1>5

(* How reading an item of n bytes ends: with its value behind it, or, for  *)
(* an empty string at the end of the last node, with a null m_cur.         *)
ItemBack(b, n, v, r) ==
    \/ r.how = "ok" /\ r.value = v /\ r.ba.position = b.position + n
    \/ r.how = "null" /\ v = <<>> /\ r.ba.position = r.ba.capacity

(* A string, once its length has been read. *)
LEMMA StringBack ==
    ASSUME NEW b, Sane(b), NEW head, head.how = "ok", NEW h \in Nat, Moved(b, h, head.ba),
           NEW v \in Seq(Byte), Lies(b, b.position + h, v)
    PROVE  ItemBack(b, h + Len(v), v, readString(head, Len(v)))
<1> DEFINE c == head.ba
<1> DEFINE r == read(c, Len(v))
<1>1. /\ Sane(c) /\ c.position = b.position + h /\ Lies(c, c.position, v)
      /\ b.position \in Nat /\ Len(v) \in Nat
  BY LenProperties DEF Moved, Sane, Chain, Lies
<1>2. readString(head, Len(v)) = [ba |-> r.ba, how |-> r.how, value |-> r.bytes]
  BY DEF readString, Result
<1> HIDE DEF c
<1>3. \/ r.how = "ok" /\ r.bytes = v /\ Moved(c, Len(v), r.ba)
      \/ r.how = "null" /\ v = <<>> /\ r.ba = c /\ c.position = c.capacity
  BY <1>1, ReadsWhatLies
<1> HIDE DEF r
<1> QED BY <1>1, <1>2, <1>3 DEF ItemBack, Moved

(* The byte order matters only to integers of two bytes. *)
LEMMA EncodeOrder ==
    ASSUME NEW kind, NEW v, IsItem(kind, v), kind \notin {"F2", "SF"},
           NEW le \in BOOLEAN, NEW me \in BOOLEAN
    PROVE  Encode(kind, v, le) = Encode(kind, v, me)
<1>1. CASE kind = "F1"
  <2> DEFINE b == [i \in 1 .. 1 |-> Digit(v, 2 * Half, i)]
  <2>1. Reverse(b) = b
    <3> DEFINE x == Digit(v, 2 * Half, 1)
    <3>1. b = <<x>>
      OBVIOUS
    <3> HIDE DEF b, x
    <3>2. Len(b) = 1
      BY <3>1
    <3>3. Reverse(b) = [i \in 1 .. 1 |-> b[(1 - i) + 1]]
      BY <3>2 DEF Reverse
    <3>4. \A i \in 1 .. 1 : (1 - i) + 1 = 1 /\ i = 1
      OBVIOUS
    <3>5. [i \in 1 .. 1 |-> b[(1 - i) + 1]] = <<x>>
      BY <3>1, <3>4
    <3> QED BY <3>1, <3>3, <3>5
  <2>2. \A l \in BOOLEAN : FixedBytes(v, 1, l) = b
    BY <2>1 DEF FixedBytes
  <2>3. \A l \in BOOLEAN : Encode(kind, v, l) = b
    BY <1>1, <2>2 DEF Encode, FixedSize
  <2> QED BY <2>3
<1>2. CASE kind = "U" \/ kind = "I" \/ kind = "SV"
  BY <1>2 DEF Encode
<1> QED BY <1>1, <1>2 DEF IsItem

(* An item's bytes at the position are read back as the item. *)
LEMMA DecodeReadsBack ==
    ASSUME NEW b, Sane(b), NEW kind, NEW v, NEW le \in BOOLEAN, IsItem(kind, v), NEW n \in Nat,
           Lies(b, b.position, Encode(kind, v, le))
    PROVE  ItemBack(b, Len(Encode(kind, v, le)), v, Decode(kind, b, n, le))
<1> DEFINE r == Decode(kind, b, n, le)
<1>0. b.position \in Nat /\ b.size \in Nat
  BY DEF Sane, Chain
<1>1. ASSUME NEW x \in Unsigned, Lies(b, b.position, Varint(x)), NEW s, s = readVarint(b)
      PROVE  s.how = "ok" /\ FromVarint(s.bytes) = x /\ Moved(b, Len(Varint(x)), s.ba)
  <2>1. ReadsVarint(b, s)
    BY <1>1, VarintReads
  <2>2. /\ Varint(x) \in Seq(Byte) /\ Len(Varint(x)) \in 1 .. MaxGroups
        /\ \A i \in 1 .. Len(Varint(x)) : Varint(x)[i] < Half <=> i = Len(Varint(x))
        /\ FromVarint(Varint(x)) = x
    BY VarintSurvives
  <2>3. s.how = "ok" /\ s.bytes = Varint(x) /\ Moved(b, Len(Varint(x)), s.ba)
    BY <1>1, <2>1, <2>2 DEF ReadsVarint
  <2> QED BY <2>2, <2>3
<1>2. ASSUME NEW m \in 1 .. 2, NEW x \in Nat, x < Pow(2 * Half, m),
             Lies(b, b.position, FixedBytes(x, m, le)), NEW s, s = read(b, m)
      PROVE  s.how = "ok" /\ FromFixed(s.bytes, le) = x /\ Moved(b, m, s.ba)
  <2> DEFINE c == FixedBytes(x, m, le)
  <2>1. c \in Seq(Byte) /\ Len(c) = m /\ FromFixed(c, le) = x
    BY <1>2, FixedSurvives
  <2> HIDE DEF c
  <2>2. c # <<>>
    <3>1. Len(c) # 0
      BY <2>1
    <3> QED BY <3>1
  <2>3. Lies(b, b.position, c) /\ s = read(b, Len(c))
    BY <1>2, <2>1 DEF c
  <2>4. s.how = "ok" /\ s.bytes = c /\ Moved(b, Len(c), s.ba)
    BY <2>1, <2>2, <2>3, ReadsWhatLies
  <2> QED BY <2>1, <2>4
<1>3. CASE kind \in {"F1", "F2"} /\ v \in Unsigned /\ v < Pow(2 * Half, FixedSize(kind))
  <2> DEFINE m == FixedSize(kind)
  <2> DEFINE s == read(b, m)
  <2>1. m \in 1 .. 2 /\ v \in Nat
    BY <1>3, Bases DEF FixedSize, Unsigned
  <2>2. Encode(kind, v, le) = FixedBytes(v, m, le) /\ Len(FixedBytes(v, m, le)) = m
    <3>1. Len(FixedBytes(v, m, le)) = m
      BY <1>3, <2>1, FixedSurvives
    <3> QED BY <1>3, <3>1 DEF Encode
  <2>3. s.how = "ok" /\ FromFixed(s.bytes, le) = v /\ Moved(b, m, s.ba)
    BY <1>2, <1>3, <2>1, <2>2
  <2>4. r = [ba |-> s.ba, how |-> s.how, value |-> FromFixed(s.bytes, le)]
    BY <1>3 DEF Decode, Result
  <2> HIDE DEF s, m, r
  <2>5. ItemBack(b, m, v, r)
    BY <2>3, <2>4 DEF ItemBack, Moved
  <2> QED BY <2>2, <2>5 DEF r
<1>4. CASE kind = "U" /\ v \in Unsigned
  <2> DEFINE s == readVarint(b)
  <2>1. Encode(kind, v, le) = Varint(v)
    BY <1>4 DEF Encode
  <2>2. s.how = "ok" /\ FromVarint(s.bytes) = v /\ Moved(b, Len(Varint(v)), s.ba)
    BY <1>1, <1>4, <2>1
  <2>3. r = [ba |-> s.ba, how |-> s.how, value |-> FromVarint(s.bytes)]
    BY <1>4 DEF Decode, Result
  <2> HIDE DEF s, r
  <2>4. ItemBack(b, Len(Varint(v)), v, r)
    BY <2>2, <2>3 DEF ItemBack, Moved
  <2> QED BY <2>1, <2>4 DEF r
<1>5. CASE kind = "I" /\ v \in Signed
  <2> DEFINE s == readVarint(b)
  <2> DEFINE x == EncodeZigzag(v)
  <2>1. Encode(kind, v, le) = Varint(x)
    BY <1>5 DEF Encode
  <2>2. x \in Unsigned /\ DecodeZigzag(x) = v
    BY <1>5, ZigzagSurvives
  <2> HIDE DEF x
  <2>3. s.how = "ok" /\ FromVarint(s.bytes) = x /\ Moved(b, Len(Varint(x)), s.ba)
    BY <1>1, <2>1, <2>2
  <2>4. r = [ba |-> s.ba, how |-> s.how, value |-> DecodeZigzag(FromVarint(s.bytes))]
    BY <1>5 DEF Decode, Result
  <2> HIDE DEF s, r
  <2>5. ItemBack(b, Len(Varint(x)), v, r)
    BY <2>2, <2>3, <2>4 DEF ItemBack, Moved
  <2> QED BY <2>1, <2>5 DEF r
<1>6. CASE kind = "SF" /\ v \in Seq(Byte) /\ Len(v) \in Unsigned /\ Len(v) < Pow(2 * Half, 2)
  <2> DEFINE s == read(b, 2)
  <2> DEFINE c == FixedBytes(Len(v), 2, le)
  <2>1. 2 \in 1 .. 2 /\ Len(v) \in Nat
    BY <1>6, LenProperties
  <2>2. c \in Seq(Byte) /\ Len(c) = 2
    BY <1>6, <2>1, FixedSurvives
  <2>3. Encode(kind, v, le) = c \o v
    BY <1>6 DEF Encode
  <2> HIDE DEF c
  <2>4. Lies(b, b.position, c) /\ Lies(b, b.position + 2, v) /\ Len(c \o v) = 2 + Len(v)
    <3>1. Lies(b, b.position, c \o v)
      BY <2>3
    <3> DEFINE at == b.position
    <3>2. at \in Nat /\ c \in Seq(Byte) /\ v \in Seq(Byte) /\ Lies(b, at, c \o v)
      BY <1>0, <1>6, <2>2, <3>1
    <3> HIDE DEF at
    <3>3. Lies(b, at, c) /\ Lies(b, at + Len(c), v) /\ Len(c \o v) = Len(c) + Len(v)
      BY <1>0, <3>2, LiesInParts
    <3> QED BY <2>2, <3>3 DEF at
  <2>5. s.how = "ok" /\ FromFixed(s.bytes, le) = Len(v) /\ Moved(b, 2, s.ba)
    BY <1>2, <1>6, <2>1, <2>4 DEF c
  <2>6. r = readString(s, FromFixed(s.bytes, le))
    BY <1>6 DEF Decode
  <2> HIDE DEF s, r
  <2>7. ItemBack(b, 2 + Len(v), v, readString(s, Len(v)))
    BY <1>6, <2>4, <2>5, StringBack
  <2> QED BY <2>3, <2>4, <2>5, <2>6, <2>7 DEF r
<1>7. CASE kind = "SV" /\ v \in Seq(Byte) /\ Len(v) \in Unsigned
  <2> DEFINE s == readVarint(b)
  <2> DEFINE c == Varint(Len(v))
  <2>1. c \in Seq(Byte) /\ Len(c) \in Nat
    BY <1>7, VarintSurvives, LenProperties
  <2>2. Encode(kind, v, le) = c \o v
    BY <1>7 DEF Encode
  <2> HIDE DEF c
  <2>3. Lies(b, b.position, c) /\ Lies(b, b.position + Len(c), v) /\ Len(c \o v) = Len(c) + Len(v)
    <3>1. Lies(b, b.position, c \o v)
      BY <2>2
    <3> DEFINE at == b.position
    <3>2. at \in Nat /\ v \in Seq(Byte) /\ Lies(b, at, c \o v)
      BY <1>0, <1>7, <3>1
    <3> HIDE DEF at
    <3>3. Lies(b, at, c) /\ Lies(b, at + Len(c), v) /\ Len(c \o v) = Len(c) + Len(v)
      BY <1>0, <2>1, <3>2, LiesInParts
    <3> QED BY <2>1, <3>3 DEF at
  <2>4. s.how = "ok" /\ FromVarint(s.bytes) = Len(v) /\ Moved(b, Len(c), s.ba)
    BY <1>1, <1>7, <2>3 DEF c
  <2>5. r = readString(s, FromVarint(s.bytes))
    BY <1>7 DEF Decode
  <2> HIDE DEF s, r
  <2>6. ItemBack(b, Len(c) + Len(v), v, readString(s, Len(v)))
    BY <1>7, <2>1, <2>3, <2>4, StringBack
  <2> QED BY <2>2, <2>3, <2>4, <2>5, <2>6 DEF r
<1> QED BY <1>3, <1>4, <1>5, <1>6, <1>7 DEF IsItem

----------------------------------------------------------------------------
(* The invariant *)

Code(e) == Encode(e.kind, e.value, e.little)

IsStored(b, e) ==
    /\ e.from \in Nat /\ e.little \in BOOLEAN
    /\ IsItem(e.kind, e.value) \/ (e.kind = "raw" /\ e.value \in Seq(Byte))
    /\ e.to = e.from + Len(Code(e))
    /\ Lies(b, e.from, Code(e))

Stored == \A e \in entries : IsStored(ba, e)

IndInv == Sane(ba) /\ ba.size <= MaxSize /\ little \in BOOLEAN /\ Stored

(* The bytes of an entry. *)
LEMMA CodeType ==
    ASSUME NEW b, NEW e, IsStored(b, e)
    PROVE  Code(e) \in Seq(Byte) /\ Len(Code(e)) \in Nat
<1>1. Code(e) \in Seq(Byte)
  <2>1. CASE IsItem(e.kind, e.value)
    BY <2>1, EncodeType DEF IsStored, Code
  <2>2. CASE e.kind = "raw" /\ e.value \in Seq(Byte)
    BY <2>2 DEF Code, Encode
  <2> QED BY <2>1, <2>2 DEF IsStored
<1> QED BY <1>1, LenProperties

(* An entry stays stored while its bytes are not touched. *)
LEMMA StoredStays ==
    ASSUME NEW b, Sane(b), NEW e, IsStored(b, e), NEW r, Sane(r), b.size <= r.size,
           \A a \in 0 .. b.capacity - 1 : e.from <= a /\ a < e.to => r.mem[a] = b.mem[a]
    PROVE  IsStored(r, e)
<1> DEFINE c == Code(e)
<1>1. Len(c) \in Nat /\ e.from \in Nat /\ e.to = e.from + Len(c) /\ Lies(b, e.from, c)
  BY CodeType DEF IsStored
<1>2. b.size \in Nat /\ b.capacity \in Nat /\ b.size <= b.capacity /\ r.size \in Nat
  BY DEF Sane, Chain
<1> HIDE DEF c
<1>3. ASSUME NEW i \in 1 .. Len(c) PROVE r.mem[e.from + i - 1] = c[i]
  <2> DEFINE a == e.from + i - 1
  <2>1. a \in 0 .. b.capacity - 1 /\ e.from <= a /\ a < e.to
    BY <1>1, <1>2 DEF Lies
  <2>2. b.mem[a] = c[i]
    BY <1>1 DEF Lies
  <2> HIDE DEF a
  <2>3. r.mem[a] = c[i]
    BY <2>1, <2>2
  <2> QED BY <2>3 DEF a
<1>4. Lies(r, e.from, c)
  BY <1>1, <1>2, <1>3 DEF Lies
<1> QED BY <1>4 DEF IsStored, c

(* What is written is stored, and what it does not overlap stays so. *)
LEMMA RecordStored ==
    ASSUME IndInv, NEW r, NEW kind, NEW v, NEW bytes \in Seq(Byte), bytes = Encode(kind, v, little),
           (IsItem(kind, v) \/ (kind = "raw" /\ v \in Seq(Byte))),
           Stores(ba, r, bytes)
    PROVE  \A e \in Record(kind, v, ba.position, ba.position + Len(bytes)) : IsStored(r, e)
<1> DEFINE from == ba.position
<1> DEFINE to == ba.position + Len(bytes)
<1> SUFFICES ASSUME NEW e \in Record(kind, v, from, to) PROVE IsStored(r, e)
  OBVIOUS
<1>1. Sane(ba) /\ Sane(r) /\ from \in Nat /\ Len(bytes) \in Nat /\ to \in Nat /\ little \in BOOLEAN
      /\ to = from + Len(bytes)
  BY LenProperties DEF IndInv, Sane, Chain, Stores
<1>2. CASE e \in entries /\ (e.to <= from \/ e.from >= to)
  <2>1. IsStored(ba, e)
    BY <1>2 DEF IndInv, Stored
  <2>2. e.from \in Nat /\ e.to \in Nat
    BY <2>1, CodeType DEF IsStored
  <2>3. ba.size <= r.size /\ \A a \in 0 .. ba.capacity - 1 : a < from \/ to <= a => r.mem[a] = ba.mem[a]
    BY DEF Stores
  <2> HIDE DEF from, to
  <2>4. ASSUME NEW a \in 0 .. ba.capacity - 1, e.from <= a, a < e.to PROVE r.mem[a] = ba.mem[a]
    <3>1. a < from \/ to <= a
      BY <1>1, <1>2, <2>2, <2>4
    <3> QED BY <2>3, <3>1
  <2> QED BY <1>1, <2>1, <2>3, <2>4, StoredStays
<1>3. CASE e = [kind |-> kind, value |-> v, from |-> from, to |-> to, little |-> little]
  <2>1. Code(e) = bytes
    BY <1>3 DEF Code
  <2>2. Lies(r, from, bytes)
    BY <1>1 DEF Lies, Stores
  <2> HIDE DEF from, to
  <2> QED BY <1>1, <1>3, <2>1, <2>2 DEF IsStored
<1> QED BY <1>2, <1>3 DEF Record

(* Nothing is lost by what only moves the position. *)
LEMMA StoredMoved ==
    ASSUME IndInv, NEW r, Sane(r), r.mem = ba.mem, ba.size <= r.size
    PROVE  \A e \in entries : IsStored(r, e)
BY StoredStays DEF IndInv, Stored

(* The object is in order, and nothing written. *)
LEMMA NewBaSane == Sane(NewBa) /\ NewBa.size <= MaxSize
<1>1. m_baseSize % m_baseSize = 0 /\ 0 \div m_baseSize = 0
  <2>1. /\ m_baseSize \in Nat \ {0} /\ m_baseSize = m_baseSize * 1 + 0 /\ 0 = m_baseSize * 0 + 0
        /\ m_baseSize \in Int /\ 0 \in 0 .. (m_baseSize - 1) /\ 0 \in Int /\ 1 \in Int
    BY BaseAssumption
  <2>2. m_baseSize % m_baseSize = 0
    BY <2>1, DivBase
  <2>3. 0 \div m_baseSize = 0
    BY <2>1, DivBase
  <2> QED BY <2>2, <2>3
<1> DEFINE mem == [a \in 0 .. m_baseSize - 1 |-> Garbage]
<1>2. mem \in [0 .. m_baseSize - 1 -> Byte]
  BY BaseAssumption
<1>3. NewBa = [position |-> 0, capacity |-> m_baseSize, size |-> 0, cur |-> 0, mem |-> mem]
  BY DEF NewBa
<1> HIDE DEF mem
<1> QED BY <1>1, <1>2, <1>3, BaseAssumption DEF Sane, Chain

(* Initially IndInv holds. *)
LEMMA InitInv == Init => IndInv
BY NewBaSane DEF Init, IndInv, Stored

(* A call that writes at the position. *)
LEMMA PutInv ==
    ASSUME IndInv, NEW kind, NEW v, NEW bytes \in Seq(Byte), bytes = Encode(kind, v, little),
           (IsItem(kind, v) \/ (kind = "raw" /\ v \in Seq(Byte))), Put(kind, v, bytes), UNCHANGED little
    PROVE  IndInv'
<1>1. ba' = write(ba, bytes) /\ entries' = Record(kind, v, ba.position, ba.position + Len(bytes))
  BY DEF Put
<1>2. Stores(ba, ba', bytes)
  BY <1>1, WriteStores DEF IndInv
<1>3. \A e \in entries' : IsStored(ba', e)
  BY <1>1, <1>2, RecordStored
<1>4. Sane(ba') /\ ba'.size <= MaxSize /\ little' \in BOOLEAN
  <2>1. ba.position + Len(bytes) <= MaxSize
    BY DEF Put
  <2> QED BY <1>2, <2>1 DEF Stores, IndInv
<1> QED BY <1>3, <1>4 DEF IndInv, Stored

(* The calls that move the position. *)
LEMMA MoveInv ==
    ASSUME IndInv, Sane(ba'), ba'.mem = ba.mem, ba.size <= ba'.size, ba'.size <= MaxSize,
           UNCHANGED <<little, entries>>
    PROVE  IndInv'
<1>1. \A e \in entries : IsStored(ba', e)
  BY StoredMoved
<1> QED BY <1>1 DEF IndInv, Stored

(* Every call keeps IndInv. *)
LEMMA NextInv == IndInv /\ [Next]_vars => IndInv'
<1> SUFFICES ASSUME IndInv, [Next]_vars PROVE IndInv'
  OBVIOUS
<1>0. /\ Sane(ba) /\ Chain(ba) /\ little \in BOOLEAN
      /\ ba.position \in Nat /\ ba.size \in Nat /\ ba.capacity \in Nat
      /\ ba.position <= ba.size /\ ba.size <= ba.capacity /\ ba.size <= MaxSize /\ MaxSize \in Nat
  BY BaseAssumption DEF IndInv, Sane, Chain
<1>1. ASSUME NEW item \in Items, Write(item[1], item[2]) PROVE IndInv'
  <2>1. IsItem(item[1], item[2])
    BY ItemsAssumption
  <2>2. Encode(item[1], item[2], little) \in Seq(Byte)
    BY <1>0, <2>1, EncodeType
  <2> DEFINE kind == item[1]
  <2> DEFINE v == item[2]
  <2>3. PICK bytes \in Seq(Byte) : bytes = Encode(kind, v, little)
    BY <2>2
  <2>4. IsItem(kind, v) /\ Put(kind, v, bytes) /\ UNCHANGED little
    BY <1>1, <2>1, <2>3 DEF Write
  <2>5. IndInv /\ (IsItem(kind, v) \/ (kind = "raw" /\ v \in Seq(Byte)))
    BY <2>4
  <2> HIDE DEF kind, v
  <2> QED BY <2>3, <2>4, <2>5, PutInv
<1>2. ASSUME NEW kind \in Kinds \cup {"raw"}, NEW n \in Nat, Read(kind, n) PROVE IndInv'
  <2>1. ba' = Decode(kind, ba, n, little).ba /\ UNCHANGED <<little, entries>>
    BY <1>2 DEF Read
  <2>2. PICK k \in Nat : Moved(ba, k, ba')
    BY <1>0, <2>1, DecodeMoves
  <2> QED BY <1>0, <2>1, <2>2, MoveInv DEF Moved
<1>3. ASSUME NEW v \in 0 .. MaxSize, SetPosition(v) PROVE IndInv'
  <2>1. v \in Nat /\ v <= ba.capacity /\ ba' = setPosition(ba, v) /\ UNCHANGED <<little, entries>>
    BY <1>3, BaseAssumption DEF SetPosition
  <2>2. Sane(ba') /\ ba'.mem = ba.mem /\ ba'.size = IF v > ba.size THEN v ELSE ba.size
    BY <1>0, <2>1, SetPositionSane
  <2>3. ba.size <= ba'.size /\ ba'.size <= MaxSize
    BY <1>0, <1>3, <2>1, <2>2
  <2> QED BY <2>1, <2>2, <2>3, MoveInv
<1>4. CASE Clear
  BY <1>4, NewBaSane DEF Clear, IndInv, Stored
<1>5. CASE SetIsLittleEndian
  <2>1. ba' = ba /\ entries' = entries /\ little' \in BOOLEAN
    BY <1>5 DEF SetIsLittleEndian
  <2> QED BY <2>1 DEF IndInv, Stored
<1>6. ASSUME NEW file \in Chunks, ReadFromFile(file) PROVE IndInv'
  <2>1. file \in Seq(Byte) /\ file = Encode("raw", file, little)
    BY BaseAssumption DEF Encode
  <2> QED BY <1>6, <2>1, PutInv DEF ReadFromFile
<1>7. ASSUME NEW bytes \in Chunks, NEW len \in 1 .. 3, Recv(bytes, len) PROVE IndInv'
  <2> DEFINE c == addCapacity(ba, len)
  <2>1. bytes \in Seq(Byte) /\ bytes = Encode("raw", bytes, little) /\ len \in Nat
    BY BaseAssumption DEF Encode
  <2>2. /\ Len(bytes) <= len /\ UNCHANGED little
        /\ ba' = IF bytes = <<>> THEN c ELSE setPosition(Store(c, Here(c), bytes), ba.position + Len(bytes))
        /\ entries' = Record("raw", bytes, ba.position, ba.position + Len(bytes))
    BY <1>7 DEF Recv
  <2>3. Stores(ba, ba', bytes)
    BY <1>0, <2>1, <2>2, RecvStores
  <2> HIDE DEF c
  <2>4. \A e \in entries' : IsStored(ba', e)
    BY <2>1, <2>2, <2>3, RecordStored
  <2>5. ba.position + Len(bytes) <= MaxSize
    <3>1. ba.position + len <= MaxSize
      BY <1>7 DEF Recv
    <3>2. Len(bytes) \in Nat
      BY <2>1, LenProperties
    <3> QED BY <1>0, <2>1, <2>2, <3>1, <3>2
  <2> QED BY <1>0, <2>2, <2>3, <2>4, <2>5 DEF IndInv, Stored, Stores
<1>8. ASSUME NEW len \in 1 .. 3, NEW n \in 1 .. 3, Send(len, n) PROVE IndInv'
  <2> DEFINE v == ba.position + n
  <2>1. n <= getReadSize(ba) /\ ba' = setPosition(ba, v) /\ UNCHANGED <<little, entries>>
    <3>1. n \in 1 .. Len(getReadBuffers(ba, len)) /\ ba' = setPosition(ba, v) /\ UNCHANGED <<little, entries>>
      BY <1>8 DEF Send
    <3> DEFINE k == MinOf(len, getReadSize(ba))
    <3>2. k \in Nat /\ k <= getReadSize(ba)
      BY <1>0 DEF getReadSize, MinOf
    <3>3. getReadBuffers(ba, len) = [i \in 1 .. k |-> Here(ba) + i - 1]
      BY DEF getReadBuffers
    <3> HIDE DEF k
    <3>4. Len(getReadBuffers(ba, len)) = k
      BY <3>2, <3>3
    <3>5. getReadSize(ba) \in Nat
      BY <1>0 DEF getReadSize
    <3> QED BY <3>1, <3>2, <3>4, <3>5
  <2>2. v \in Nat /\ v <= ba.size /\ v <= ba.capacity
    BY <1>0, <2>1 DEF getReadSize
  <2> HIDE DEF v
  <2>3. Sane(ba') /\ ba'.mem = ba.mem /\ ba'.size = IF v > ba.size THEN v ELSE ba.size
    BY <1>0, <2>1, <2>2, SetPositionSane
  <2>4. ba.size <= ba'.size /\ ba'.size <= MaxSize
    BY <1>0, <2>2, <2>3
  <2> QED BY <2>1, <2>3, <2>4, MoveInv
<1>9. CASE UNCHANGED vars
  BY <1>9 DEF vars, IndInv, Stored
<1>10. ASSUME NEW kind \in Kinds, Read(kind, 0) PROVE IndInv'
  BY <1>2, <1>10
<1>11. ASSUME NEW n \in 0 .. 2, Read("raw", n) PROVE IndInv'
  BY <1>2, <1>11
<1> QED BY <1>1, <1>3, <1>4, <1>5, <1>6, <1>7, <1>8, <1>9, <1>10, <1>11 DEF Next

(* IndInv is an invariant: m_cur belongs to the position, and the bytes of *)
(* everything that was written and not overwritten lie where they were     *)
(* written, whatever the calls in between.                                 *)
THEOREM Inductive == Spec => []IndInv
BY InitInv, NextInv, PTL DEF Spec

(* The position lies within the data, the data within whole nodes, and     *)
(* every byte of the nodes is a byte.                                      *)
THEOREM TypeCorrect == Spec => []TypeOK
<1>1. IndInv => TypeOK
  BY DEF IndInv, Sane, Chain, TypeOK
<1> QED BY <1>1, Inductive, PTL

(* After every call m_cur is the node that holds the position, and null    *)
(* exactly at the end of the last node.                                    *)
THEOREM CurCorrect == Spec => []CurIsPosition
<1>1. IndInv => CurIsPosition
  BY DEF IndInv, Sane, Chain, CurIsPosition
<1> QED BY <1>1, Inductive, PTL

(* toString and the buffers of getReadBuffers, with and without a          *)
(* position, show the data from the position on.                           *)
THEOREM BuffersCorrect == Spec => []BuffersAgree
<1>1. IndInv => BuffersAgree
  <2> SUFFICES ASSUME IndInv PROVE BuffersAgree
    OBVIOUS
  <2> DEFINE n == getReadSize(ba)
  <2>1. /\ Sane(ba) /\ Chain(ba) /\ ba.position \in Nat /\ ba.size \in Nat /\ ba.capacity \in Nat
        /\ ba.position <= ba.size /\ ba.size <= ba.capacity
    BY DEF IndInv, Sane, Chain
  <2>2. n \in Nat /\ n = ba.size - ba.position
    BY <2>1 DEF getReadSize
  <2> HIDE DEF n
  <2>3. n > 0 => Here(ba) = ba.position
    BY <2>1, <2>2, HereIsPosition
  <2>4. n > 0 => toString(ba) = [i \in 1 .. n |-> ba.mem[ba.position + i - 1]]
    BY <2>3 DEF toString, Bytes, n
  <2>5. ASSUME NEW len \in 1 .. n
        PROVE  getReadBuffers(ba, len) = getReadBuffersAt(ba, len, ba.position)
    <3> DEFINE q == ba.position \div m_baseSize
    <3>1. ba.position = m_baseSize * q + (ba.position % m_baseSize) /\ q \in Nat
      BY <2>1, InNode
    <3>2. Here(ba) = ba.position
      BY <2>2, <2>3, <2>5
    <3>3. q * m_baseSize = m_baseSize * q
      <4> HIDE DEF q
      <4> QED BY <3>1, BaseAssumption
    <3>4. (q * m_baseSize) + (ba.position % m_baseSize) = Here(ba)
      BY <3>1, <3>2, <3>3
    <3> QED BY <3>4 DEF getReadBuffers, getReadBuffersAt
  <2> QED BY <2>4, <2>5 DEF BuffersAgree, n
<1> QED BY <1>1, Inductive, PTL

(* One call reads back what IndInv says is there; those that give nothing  *)
(* give back nothing wrong.                                                *)
LEMMA NextReadsBack == IndInv /\ IndInv' /\ ReadsBack /\ [Next]_vars => ReadsBack'
<1> SUFFICES ASSUME IndInv, IndInv', ReadsBack, [Next]_vars PROVE ReadsBack'
  OBVIOUS
<1>0. /\ Sane(ba) /\ Chain(ba) /\ little \in BOOLEAN
      /\ ba.position \in Nat /\ ba.size \in Nat /\ ba.capacity \in Nat
      /\ ba.position <= ba.size /\ ba.size <= ba.capacity
  BY DEF IndInv, Sane, Chain
<1>1. CASE got' = NoResult
  <2>1. \A e \in entries' : e.kind # "none"
    BY DEF IndInv, Stored, IsStored, IsItem
  <2> QED BY <1>1, <2>1 DEF ReadsBack, NoResult
<1>2. ASSUME entries' = entries, little' = little, got'.kind = "raw", got'.at = ba.position,
             got'.how = "ok" => \A i \in DOMAIN got'.value :
                                   i \in Nat \ {0} /\ got'.value[i] = ba.mem[ba.position + i - 1]
      PROVE  ReadsBack'
  <2> SUFFICES ASSUME NEW e \in entries, e.kind = "raw", ba.position = e.from, got'.how = "ok",
                      NEW i \in DOMAIN got'.value \cap DOMAIN e.value
               PROVE  got'.value[i] = e.value[i]
    BY <1>2 DEF ReadsBack
  <2>1. IsStored(ba, e) /\ Code(e) = e.value
    BY DEF IndInv, Stored, Code, Encode
  <2>2. e.value \in Seq(Byte) /\ Lies(ba, ba.position, e.value)
    BY <2>1, CodeType DEF IsStored
  <2>3. i \in 1 .. Len(e.value)
    BY <2>2, LenProperties
  <2> QED BY <1>2, <2>2, <2>3 DEF Lies
<1>3. ASSUME NEW kind \in Kinds, Read(kind, 0) PROVE ReadsBack'
  <2> DEFINE r == Decode(kind, ba, 0, little)
  <2>1. /\ ba' = r.ba /\ UNCHANGED <<little, entries>>
        /\ got' = [kind |-> kind, at |-> ba.position, how |-> r.how, value |-> r.value]
    BY <1>3 DEF Read
  <2> SUFFICES ASSUME NEW e \in entries, kind = e.kind, ba.position = e.from,
                      e.kind \in {"F2", "SF"} => e.little = little
               PROVE  \/ r.how = "ok" /\ r.value = e.value /\ r.ba.position = e.to
                      \/ r.how = "null" /\ e.value = <<>> /\ r.ba.position = r.ba.capacity
    <3> HIDE DEF r
    <3> QED BY <2>1 DEF ReadsBack, Kinds
  <2>2. IsStored(ba, e) /\ IsItem(kind, e.value) /\ e.little \in BOOLEAN
    BY DEF IndInv, Stored, IsStored, Kinds
  <2>3. Code(e) = Encode(kind, e.value, little)
    <3>1. CASE e.kind \in {"F2", "SF"}
      BY <3>1 DEF Code
    <3>2. CASE e.kind \notin {"F2", "SF"}
      BY <1>0, <2>2, <3>2, EncodeOrder DEF Code
    <3> QED BY <3>1, <3>2
  <2>4. Lies(ba, ba.position, Encode(kind, e.value, little))
        /\ e.to = ba.position + Len(Encode(kind, e.value, little))
    BY <2>2, <2>3 DEF IsStored
  <2>5. ItemBack(ba, Len(Encode(kind, e.value, little)), e.value, r)
    BY <1>0, <2>2, <2>4, DecodeReadsBack
  <2> HIDE DEF r
  <2> QED BY <2>4, <2>5 DEF ItemBack
<1>4. ASSUME NEW n \in 0 .. 2, Read("raw", n) PROVE ReadsBack'
  <2> DEFINE r == read(ba, n)
  <2>1. /\ UNCHANGED <<little, entries>>
        /\ got' = [kind |-> "raw", at |-> ba.position, how |-> r.how, value |-> r.bytes]
    BY <1>4 DEF Read, Decode, Result
  <2>2. ReadsBytes(ba, n, r) /\ n \in Nat
    BY <1>0, ReadReads
  <2> HIDE DEF r
  <2>3. r.how = "ok" => \A i \in DOMAIN r.bytes : i \in Nat \ {0} /\ r.bytes[i] = ba.mem[ba.position + i - 1]
    <3>1. r.bytes \in Seq(Byte) /\ DOMAIN r.bytes = 1 .. Len(r.bytes)
      BY <2>2, LenProperties DEF ReadsBytes
    <3> QED BY <2>2, <3>1 DEF ReadsBytes
  <2> QED BY <1>2, <2>1, <2>3
<1>5. ASSUME NEW len \in 1 .. 3, NEW n \in 1 .. 3, Send(len, n) PROVE ReadsBack'
  <2> DEFINE addresses == getReadBuffers(ba, len)
  <2> DEFINE k == MinOf(len, getReadSize(ba))
  <2>1. /\ n \in 1 .. Len(addresses) /\ UNCHANGED <<little, entries>>
        /\ got' = [kind |-> "raw", at |-> ba.position, how |-> "ok",
                   value |-> [i \in 1 .. n |-> ba.mem[addresses[i]]]]
    BY <1>5 DEF Send
  <2>2. k \in Nat /\ k <= getReadSize(ba) /\ getReadSize(ba) \in Nat
    BY <1>0 DEF getReadSize, MinOf
  <2>3. addresses = [i \in 1 .. k |-> Here(ba) + i - 1]
    BY DEF getReadBuffers
  <2> HIDE DEF k, addresses
  <2>4. Len(addresses) = k
    BY <2>2, <2>3
  <2>5. Here(ba) = ba.position
    <3>1. getReadSize(ba) # 0
      BY <2>1, <2>2, <2>4
    <3>2. ba.position # ba.capacity
      BY <1>0, <3>1 DEF getReadSize
    <3> QED BY <1>0, <3>2, HereIsPosition
  <2>6. \A i \in 1 .. n : addresses[i] = ba.position + i - 1
    BY <2>1, <2>2, <2>3, <2>4, <2>5
  <2> QED BY <1>2, <2>1, <2>6
<1>6. CASE UNCHANGED vars
  BY <1>6 DEF vars, ReadsBack
<1>7. CASE \/ \E item \in Items : Write(item[1], item[2])
           \/ \E v \in 0 .. MaxSize : SetPosition(v)
           \/ Clear
           \/ SetIsLittleEndian
           \/ \E file \in Chunks : ReadFromFile(file)
           \/ \E bytes \in Chunks, len \in 1 .. 3 : Recv(bytes, len)
  <2>1. got' = NoResult
    BY <1>7 DEF Write, Put, SetPosition, Clear, SetIsLittleEndian, ReadFromFile, Recv
  <2> QED BY <1>1, <2>1
<1> QED BY <1>3, <1>4, <1>5, <1>6, <1>7 DEF Next

(* What was written and not overwritten is read back, with any node        *)
(* boundaries in between and after any sequence of calls; the codes, the   *)
(* copy loops and the buffers of SocketStream all go into it.              *)
THEOREM ReadsBackCorrect == Spec => []ReadsBack
<1>1. Init => ReadsBack
  BY DEF Init, ReadsBack
<1> QED BY <1>1, Inductive, NextReadsBack, PTL DEF Spec

----------------------------------------------------------------------------
(* writeToFile *)

(* The states of its loop: what has been written so far is the data from   *)
(* the position on, and the next round starts at the start of a node or    *)
(* has the rest of a node before it.                                       *)
FileStates(b) ==
    {s \in [pos : Nat, rest : Nat, cur : Int, bad : {FALSE}, file : Seq(Byte)] :
        /\ s.pos = b.position + Len(s.file) /\ s.pos + s.rest = b.size
        /\ \A i \in 1 .. Len(s.file) : s.file[i] = b.mem[b.position + i - 1]
        /\ s.rest > 0 => /\ s.cur = s.pos \div m_baseSize
                         /\ s.pos % m_baseSize = 0 \/ s.rest >= m_baseSize}

FileStep(b, s) == IF s.rest > 0 /\ ~s.bad THEN FileRound(b, s) ELSE s

(* A round writes something, and leads to such a state again. *)
LEMMA FileRoundKeeps ==
    ASSUME NEW b, Sane(b), NEW s \in FileStates(b), s.rest > 0
    PROVE  FileRound(b, s) \in FileStates(b) /\ Len(FileRound(b, s).file) > Len(s.file)
<1> DEFINE q == s.pos \div m_baseSize
<1> DEFINE d == s.pos % m_baseSize
<1> DEFINE len == MinOf(s.rest, m_baseSize) - d
<1> DEFINE piece == [i \in 1 .. len |-> b.mem[s.cur * m_baseSize + d + i - 1]]
<1> DEFINE r == FileRound(b, s)
<1> DEFINE L == Len(s.file)
<1>1. /\ b.position \in Nat /\ b.size \in Nat /\ b.capacity \in Nat /\ b.size <= b.capacity
      /\ b.mem \in [0 .. b.capacity - 1 -> Byte] /\ m_baseSize \in Nat \ {0}
  BY BaseAssumption DEF Sane, Chain
<1>2. /\ s.pos \in Nat /\ s.rest \in Nat /\ s.bad = FALSE /\ s.file \in Seq(Byte) /\ s.cur = q
      /\ s.pos = b.position + L /\ s.pos + s.rest = b.size
      /\ (\A i \in 1 .. L : s.file[i] = b.mem[b.position + i - 1])
      /\ d = 0 \/ s.rest >= m_baseSize
  BY DEF FileStates
<1>3. q \in Nat /\ d \in 0 .. (m_baseSize - 1) /\ s.pos = m_baseSize * q + d
  BY <1>2, InNode
<1>4. L \in Nat
  BY <1>2, LenProperties
<1> HIDE DEF q, d, L
<1>5. len \in Nat \ {0} /\ len <= s.rest /\ (len < s.rest => len = m_baseSize - d)
  BY <1>1, <1>2, <1>3 DEF MinOf
<1>6. s.cur # Null /\ ~(len < 0)
  BY <1>2, <1>3, <1>5 DEF Null
<1>7. r = [pos |-> s.pos + len, rest |-> s.rest - len, cur |-> NextNode(b, q), bad |-> FALSE,
           file |-> s.file \o piece]
  BY <1>2, <1>6 DEF FileRound, d
<1> HIDE DEF len, r
<1>8. piece \in Seq(Byte) /\ Len(piece) = len /\ \A i \in 1 .. len : piece[i] = b.mem[s.pos + i - 1]
  <2>1. s.cur * m_baseSize + d = s.pos
    BY <1>1, <1>2, <1>3
  <2>2. \A i \in 1 .. len : s.pos + i - 1 \in 0 .. b.capacity - 1
    BY <1>1, <1>2, <1>5
  <2>3. piece = [i \in 1 .. len |-> b.mem[s.pos + i - 1]]
    BY <2>1
  <2>4. piece \in [1 .. len -> Byte]
    BY <1>1, <2>2, <2>3
  <2> QED BY <1>5, <2>3, <2>4
<1> HIDE DEF piece
<1> DEFINE f == s.file \o piece
<1>9. /\ f \in Seq(Byte) /\ Len(f) = L + len
      /\ \A i \in 1 .. L + len : f[i] = IF i <= L THEN s.file[i] ELSE piece[i - L]
  <2> DEFINE t == s.file
  <2>1. t \in Seq(Byte) /\ Len(t) = L
    BY <1>2 DEF L
  <2> HIDE DEF t
  <2>2. /\ t \o piece \in Seq(Byte) /\ Len(t \o piece) = Len(t) + Len(piece)
        /\ \A i \in 1 .. Len(t) + Len(piece) : (t \o piece)[i] = IF i <= Len(t) THEN t[i] ELSE piece[i - Len(t)]
    BY <1>8, <2>1, ConcatProperties
  <2>3. f = t \o piece
    BY DEF t
  <2> HIDE DEF f
  <2>4. /\ f \in Seq(Byte) /\ Len(f) = L + len
        /\ \A i \in 1 .. L + len : f[i] = IF i <= L THEN t[i] ELSE piece[i - L]
    BY <1>8, <2>1, <2>2, <2>3
  <2> QED BY <2>4 DEF t
<1> HIDE DEF f
<1>10. ASSUME NEW i \in 1 .. L + len PROVE f[i] = b.mem[b.position + i - 1]
  <2>1. CASE i <= L
    <3>1. i \in 1 .. L
      BY <1>4, <1>5, <2>1
    <3> QED BY <1>2, <1>9, <2>1, <3>1
  <2>2. CASE ~(i <= L)
    <3> DEFINE j == i - L
    <3>1. j \in 1 .. len /\ s.pos + j - 1 = b.position + i - 1
      BY <1>1, <1>2, <1>4, <1>5, <2>2
    <3>2. f[i] = piece[j]
      BY <1>9, <2>2
    <3> HIDE DEF j
    <3> QED BY <1>8, <3>1, <3>2
  <2> QED BY <2>1, <2>2
<1>11. NextNode(b, q) \in Int
  BY <1>3 DEF NextNode, Null
<1> DEFINE pos == s.pos + len
<1> DEFINE rest == s.rest - len
<1>12. rest > 0 => NextNode(b, q) = pos \div m_baseSize /\ pos % m_baseSize = 0
  <2> SUFFICES ASSUME rest > 0 PROVE NextNode(b, q) = pos \div m_baseSize /\ pos % m_baseSize = 0
    OBVIOUS
  <2>1. len = m_baseSize - d /\ pos < b.capacity
    BY <1>1, <1>2, <1>5
  <2> DEFINE k == q + 1
  <2>2. k \in Int /\ m_baseSize * k = m_baseSize * q + m_baseSize /\ k * m_baseSize = m_baseSize * k
    BY <1>1, <1>3
  <2>3. pos = m_baseSize * k + 0 /\ pos \in Int /\ 0 \in 0 .. (m_baseSize - 1)
    BY <1>1, <1>2, <1>3, <1>5, <2>1, <2>2
  <2> HIDE DEF k, pos
  <2>4. pos % m_baseSize = 0 /\ pos \div m_baseSize = k
    BY <1>1, <2>2, <2>3, DivBase
  <2>5. k * m_baseSize < b.capacity
    BY <1>1, <2>1, <2>2, <2>3
  <2>6. NextNode(b, q) = k
    BY <2>5 DEF NextNode, k
  <2> QED BY <2>4, <2>6
<1>13. pos \in Nat /\ rest \in Nat /\ pos = b.position + (L + len) /\ pos + rest = b.size
  <2> DEFINE x == s.pos
  <2> DEFINE y == s.rest
  <2> DEFINE z == b.position
  <2>1. x \in Nat /\ y \in Nat /\ z \in Nat /\ x = z + L /\ x + y = b.size /\ len \in Nat /\ len <= y
    BY <1>1, <1>2, <1>5
  <2> HIDE DEF x, y, z
  <2>2. x + len \in Nat /\ y - len \in Nat /\ x + len = z + (L + len) /\ (x + len) + (y - len) = b.size
    BY <1>4, <2>1
  <2> QED BY <2>2 DEF x, y, z
<1> HIDE DEF pos, rest
<1>14. r = [pos |-> pos, rest |-> rest, cur |-> NextNode(b, q), bad |-> FALSE, file |-> f]
  BY <1>7 DEF pos, rest, f
<1>15. r \in [pos : Nat, rest : Nat, cur : Int, bad : {FALSE}, file : Seq(Byte)]
  BY <1>9, <1>11, <1>13, <1>14
<1>16. r \in FileStates(b)
  BY <1>9, <1>10, <1>12, <1>13, <1>14, <1>15 DEF FileStates
<1>17. Len(r.file) > L
  BY <1>4, <1>5, <1>9, <1>14
<1> QED BY <1>16, <1>17 DEF r, L

(* The whole loop, from the start of a node or with a whole node left,     *)
(* writes all of the data.                                                 *)
LEMMA FileWritten ==
    ASSUME NEW b, Sane(b), b.size <= MaxSize,
           b.position % m_baseSize = 0 \/ getReadSize(b) >= m_baseSize
    PROVE  /\ ~writeToFile(b).bad
           /\ writeToFile(b).file = [i \in 1 .. getReadSize(b) |-> b.mem[b.position + i - 1]]
<1> DEFINE S == FileStates(b)
<1> DEFINE start == [pos |-> b.position, rest |-> getReadSize(b), cur |-> b.cur, bad |-> FALSE,
                     file |-> <<>>]
<1>1. /\ b.position \in Nat /\ b.size \in Nat /\ b.capacity \in Nat /\ b.size <= b.capacity
      /\ b.position <= b.size /\ b.cur \in Int /\ MaxSize \in Nat
      /\ b.cur = IF b.position = b.capacity THEN Null ELSE b.position \div m_baseSize
  BY BaseAssumption DEF Sane, Chain
<1>2. getReadSize(b) \in Nat /\ getReadSize(b) = b.size - b.position
  BY <1>1 DEF getReadSize
<1>3. start \in S
  <2>1. start \in [pos : Nat, rest : Nat, cur : Int, bad : {FALSE}, file : Seq(Byte)]
    BY <1>1, <1>2
  <2>2. getReadSize(b) > 0 => b.cur = b.position \div m_baseSize
    BY <1>1, <1>2
  <2>3. /\ start.pos = b.position /\ start.rest = getReadSize(b) /\ start.cur = b.cur
        /\ start.file = <<>> /\ Len(start.file) = 0
    OBVIOUS
  <2> HIDE DEF start
  <2>4. /\ start.pos = b.position + Len(start.file) /\ start.pos + start.rest = b.size
        /\ \A i \in 1 .. Len(start.file) : start.file[i] = b.mem[b.position + i - 1]
    BY <1>1, <1>2, <2>3
  <2>5. start.rest > 0 => /\ start.cur = start.pos \div m_baseSize
                          /\ start.pos % m_baseSize = 0 \/ start.rest >= m_baseSize
    BY <2>2, <2>3
  <2> QED BY <2>1, <2>4, <2>5 DEF FileStates
<1>4. ASSUME NEW s \in S
      PROVE  /\ FileStep(b, s) \in S
             /\ s.rest \in Nat /\ Len(s.file) \in Nat /\ s.bad = FALSE
             /\ s.rest = 0 \/ Len(FileStep(b, s).file) > Len(s.file)
             /\ s.rest = 0 => FileStep(b, s) = s
  <2>1. s.rest \in Nat /\ s.file \in Seq(Byte) /\ s.bad = FALSE
    BY DEF FileStates
  <2>2. Len(s.file) \in Nat
    BY <2>1, LenProperties
  <2>3. CASE s.rest = 0
    <3>1. FileStep(b, s) = s
      BY <2>1, <2>3 DEF FileStep
    <3> HIDE DEF S
    <3> QED BY <2>1, <2>2, <2>3, <3>1
  <2>4. CASE s.rest > 0
    <3>1. FileRound(b, s) \in S /\ Len(FileRound(b, s).file) > Len(s.file)
      BY <2>4, FileRoundKeeps
    <3>2. FileStep(b, s) = FileRound(b, s)
      BY <2>1, <2>4 DEF FileStep
    <3>3. s.rest # 0
      BY <2>1, <2>4
    <3> HIDE DEF S
    <3> QED BY <2>1, <2>2, <3>1, <3>2, <3>3
  <2>5. s.rest = 0 \/ s.rest > 0
    BY <2>1
  <2> HIDE DEF S
  <2> QED BY <2>3, <2>4, <2>5
<1>5. ASSUME NEW s \in S, s.rest = 0
      PROVE  s.file = [i \in 1 .. getReadSize(b) |-> b.mem[b.position + i - 1]]
  <2>1. /\ s.file \in Seq(Byte) /\ s.pos = b.position + Len(s.file) /\ s.pos + s.rest = b.size
        /\ \A i \in 1 .. Len(s.file) : s.file[i] = b.mem[b.position + i - 1]
    BY DEF FileStates
  <2>2. Len(s.file) \in Nat /\ s.file = [i \in 1 .. Len(s.file) |-> s.file[i]]
    BY <2>1, LenProperties
  <2>3. Len(s.file) = getReadSize(b)
    BY <1>1, <1>2, <1>5, <2>1, <2>2
  <2> QED BY <2>1, <2>2, <2>3
<1>6. ASSUME NEW s \in S PROVE Len(s.file) + s.rest = getReadSize(b)
  <2>1. s.file \in Seq(Byte) /\ s.rest \in Nat /\ s.pos = b.position + Len(s.file) /\ s.pos + s.rest = b.size
    BY DEF FileStates
  <2>2. Len(s.file) \in Nat
    BY <2>1, LenProperties
  <2> QED BY <1>1, <1>2, <2>1, <2>2
<1> HIDE DEF S, start
<1> DEFINE h == [n \in Nat |-> [s \in S |-> FileStep(b, s)]]
<1>7. h \in [Nat -> [S -> S]] /\ \A n \in Nat, s \in S : h[n][s] = FileStep(b, s)
  BY <1>4
<1> HIDE DEF h
<1>8. PICK f \in [Nat -> S] : f[0] = start /\ \A n \in Nat : f[n + 1] = FileStep(b, f[n])
  <2>1. \E f : IsRecursive(f, S, start, h)
    BY <1>3, <1>7, NatRecursion
  <2> QED BY <1>7, <2>1 DEF IsRecursive
<1> DEFINE g == [n \in 0 .. MaxSize |-> f[n]]
<1> DEFINE Body(e, n) == IF n = 0 THEN start ELSE FileStep(b, e[n - 1])
<1>9. g = [n \in 0 .. MaxSize |-> Body(g, n)]
  <2>1. ASSUME NEW n \in 0 .. MaxSize PROVE g[n] = Body(g, n)
    <3>1. CASE n = 0
      BY <1>8, <3>1
    <3>2. CASE n # 0
      <4>1. n - 1 \in Nat /\ n - 1 \in 0 .. MaxSize /\ (n - 1) + 1 = n
        BY <1>1, <3>2
      <4>2. f[(n - 1) + 1] = FileStep(b, f[n - 1])
        BY <1>8, <4>1
      <4> QED BY <3>2, <4>1, <4>2
    <3> QED BY <3>1, <3>2
  <2> QED BY <2>1
<1> HIDE DEF g
<1> DEFINE round[n \in 0 .. MaxSize] == Body(round, n)
<1>10. round = [n \in 0 .. MaxSize |-> Body(round, n)]
  BY <1>9 DEF round
<1>11. writeToFile(b) = round[MaxSize]
  BY DEF writeToFile, FileStep, start
<1> HIDE DEF round
<1> DEFINE P == {n \in Nat : n <= MaxSize => /\ round[n] = f[n]
                                             /\ f[n].rest = 0 \/ Len(f[n].file) >= n}
<1>12. 0 \in P
  <2>1. round[0] = start
    BY <1>1, <1>10
  <2>2. f[0] \in S
    BY <1>8
  <2>3. Len(f[0].file) \in Nat
    BY <1>4, <2>2
  <2> QED BY <1>8, <2>1, <2>3
<1>13. ASSUME NEW n \in P PROVE n + 1 \in P
  <2>1. CASE n + 1 <= MaxSize
    <3> DEFINE s == f[n]
    <3>1. n \in Nat /\ round[n] = s /\ (s.rest = 0 \/ Len(s.file) >= n)
      BY <1>1, <2>1
    <3>2. n + 1 \in 0 .. MaxSize /\ (n + 1) - 1 = n /\ n + 1 # 0 /\ n + 1 \in Nat
      BY <1>1, <2>1, <3>1
    <3> HIDE DEF P
    <3>3. f[n + 1] = FileStep(b, s) /\ s \in S
      BY <1>8, <3>1
    <3>4. round[n + 1] = FileStep(b, s)
      BY <1>10, <3>1, <3>2
    <3> HIDE DEF s
    <3>5. /\ s.rest \in Nat /\ Len(s.file) \in Nat
          /\ s.rest = 0 \/ Len(FileStep(b, s).file) > Len(s.file)
          /\ s.rest = 0 => FileStep(b, s) = s
      BY <1>4, <3>3
    <3>6. Len(FileStep(b, s).file) \in Nat
      BY <1>4, <3>3
    <3>7. FileStep(b, s).rest = 0 \/ Len(FileStep(b, s).file) >= n + 1
      BY <3>1, <3>5, <3>6
    <3> QED BY <3>2, <3>3, <3>4, <3>7 DEF P
  <2> QED BY <1>1, <2>1
<1>14. P = Nat
  <2>1. P \in SUBSET Nat
    OBVIOUS
  <2> HIDE DEF P
  <2> QED BY <1>12, <1>13, <2>1, NatInduct
<1> DEFINE end == f[MaxSize]
<1>15. round[MaxSize] = end /\ end \in S /\ (end.rest = 0 \/ Len(end.file) >= MaxSize)
  <2>1. MaxSize \in P /\ MaxSize <= MaxSize
    BY <1>1, <1>14
  <2> QED BY <1>1, <1>8, <2>1
<1> HIDE DEF end, P
<1>16. end.rest = 0 /\ end.bad = FALSE
  <2>1. end.rest \in Nat /\ Len(end.file) \in Nat /\ end.bad = FALSE
    BY <1>4, <1>15
  <2>2. Len(end.file) + end.rest = getReadSize(b)
    BY <1>6, <1>15
  <2> QED BY <1>1, <1>2, <1>15, <2>1, <2>2
<1> QED BY <1>5, <1>11, <1>15, <1>16

(* Whoever looks at the rest of the data, through toString, the buffers or *)
(* a file, sees the same bytes; a file when the position is at the start   *)
(* of a node or a whole node is left.                                      *)
THEOREM ViewsCorrect == Spec => []ViewsAgree
<1>1. IndInv /\ BuffersAgree => ViewsAgree
  BY FileWritten DEF IndInv, ViewsAgree
<1> QED BY <1>1, Inductive, BuffersCorrect, PTL

----------------------------------------------------------------------------
(* Conversions *)

(* The inputs stay what they are. *)
LEMMA InputsStay == SpecAll => [](input \in Inputs \cup {NoInput})
<1>1. InitAll => input \in Inputs \cup {NoInput}
  BY DEF InitAll
<1>2. input \in Inputs \cup {NoInput} /\ [NextAll]_<<vars, input>> => (input \in Inputs \cup {NoInput})'
  BY DEF NextAll
<1> QED BY <1>1, <1>2, PTL DEF SpecAll

(* Every value of the integer types that an input can be survives its      *)
(* encoding, for bytes and integers of any width.                          *)
THEOREM CodecAlwaysExact == SpecAll => []CodecExact
<1>1. ASSUME input \in Inputs \cup {NoInput}, input[1] = "integer"
      PROVE  input[2] \in Unsigned \cup Signed
  <2>1. input # NoInput
    BY <1>1 DEF NoInput
  <2>2. input \notin {"prefix"} \X (0 .. V6Bytes * ByteBits)
    BY <1>1
  <2>3. input \notin {"address"} \X [1 .. V6Groups -> {"0", "x"}]
    BY <1>1
  <2>4. input \in {"integer"} \X (Unsigned \cup Signed)
    BY <1>1, <2>1, <2>2, <2>3 DEF Inputs
  <2> QED BY <2>4
<1>2. input \in Inputs \cup {NoInput} => CodecExact
  BY <1>1, CodecCorrect DEF CodecExact
<1> QED BY <1>2, InputsStay, PTL

(* A bit of an address lies in the first n bits when its byte is before    *)
(* the one in which the prefix ends, or in that one and before the end.    *)
LEMMA BitInPrefix ==
    ASSUME NEW w \in Nat \ {0}, NEW n \in Nat, NEW i \in Nat \ {0}
    PROVE  LET q == (i - 1) \div w
               r == ((i - 1) % w) + 1 IN
           /\ q \in Nat /\ r \in 1 .. w
           /\ i <= n <=> (q < n \div w \/ (q = n \div w /\ r <= n % w))
<1> PICK q, r, e, m : q = (i - 1) \div w /\ r = ((i - 1) % w) + 1 /\ e = n \div w /\ m = n % w
  OBVIOUS
<1>1. q \in Nat /\ r \in 1 .. w /\ i - 1 = w * q + (r - 1)
  OBVIOUS
<1>2. e \in Nat /\ m \in 0 .. (w - 1) /\ n = w * e + m
  OBVIOUS
<1>3. w * q \in Int /\ w * e \in Int
  BY <1>1, <1>2
<1>4. CASE q < e
  <2>1. w * q + w <= w * e
    BY <1>1, <1>2, <1>4, MulStep
  <2> QED BY <1>1, <1>2, <1>3, <1>4, <2>1
<1>5. CASE e < q
  <2>1. w * e + w <= w * q
    BY <1>1, <1>2, <1>5, MulStep
  <2> QED BY <1>1, <1>2, <1>3, <1>5, <2>1
<1>6. CASE q = e
  BY <1>1, <1>2, <1>3, <1>6
<1> QED BY <1>1, <1>2, <1>4, <1>5, <1>6

(* IPv4: CountBytes gives the prefix length back, and the broadcast        *)
(* address keeps the prefix and has ones behind it.                        *)
LEMMA MasksExact4 ==
    ASSUME NEW n \in 1 .. V4Bits
    PROVE  /\ CountBytes(subnetMask4(n)) = n
           /\ \A a \in SUBSET (1 .. V4Bits) :
                broadcastAddress4(a, n) = (a \cap subnetMask4(n)) \cup Below(n, V4Bits)
<1>1. V4Bits \in Nat /\ n \in Nat /\ n # 0
  BY AddressAssumption
<1>2. CreateMask32(n) = (n + 1) .. V4Bits
  BY <1>1 DEF CreateMask32, Below
<1>3. subnetMask4(n) = 1 .. n
  BY <1>1, <1>2 DEF subnetMask4
<1>4. Cardinality(1 .. n) = n
  BY <1>1, FS_Interval
<1>5. \A a \in SUBSET (1 .. V4Bits) : a \cup ((n + 1) .. V4Bits) = (a \cap (1 .. n)) \cup ((n + 1) .. V4Bits)
  <2>1. \A i \in 1 .. V4Bits : i \in 1 .. n \/ i \in (n + 1) .. V4Bits
    BY <1>1
  <2> QED BY <2>1
<1> QED BY <1>2, <1>3, <1>4, <1>5 DEF CountBytes, broadcastAddress4, Below

(* IPv6: byte by byte, the netmask has just the bits of the prefix and the *)
(* broadcast address the bits behind it besides its own.                   *)
LEMMA MasksExact6 ==
    ASSUME NEW n \in Nat, n < V6Bytes * ByteBits
    PROVE  LET bit(b) == {i \in 1 .. V6Bytes * ByteBits :
                           ((i - 1) % ByteBits) + 1 \in b[(i - 1) \div ByteBits]} IN
           /\ bit(subnetMask6(n)) = 1 .. n
           /\ \A a \in [0 .. V6Bytes - 1 -> SUBSET (1 .. ByteBits)] :
                bit(broadcastAddress6(a, n)) = bit(a) \cup Below(n, V6Bytes * ByteBits)
<1> DEFINE w == ByteBits
           all == V6Bytes * ByteBits
           q(i) == (i - 1) \div ByteBits
           r(i) == ((i - 1) % ByteBits) + 1
           bit(b) == {i \in 1 .. V6Bytes * ByteBits : ((i - 1) % ByteBits) + 1 \in b[(i - 1) \div ByteBits]}
<1> PICK e, m : e = n \div ByteBits /\ m = n % ByteBits
  OBVIOUS
<1>1. w \in Nat \ {0} /\ V6Bytes \in Nat \ {0} /\ all \in Nat /\ all = w * V6Bytes
  BY AddressAssumption
<1>2. e \in Nat /\ m \in 0 .. (w - 1)
  BY <1>1
<1>3. \A i \in 1 .. all : /\ q(i) \in 0 .. (V6Bytes - 1) /\ r(i) \in 1 .. w
                          /\ i <= n <=> (q(i) < e \/ (q(i) = e /\ r(i) <= m))
  <2> TAKE i \in 1 .. all
  <2>1. i \in Nat \ {0}
    BY <1>1
  <2>2. /\ q(i) \in Nat /\ r(i) \in 1 .. w
        /\ i <= n <=> (q(i) < e \/ (q(i) = e /\ r(i) <= m))
    BY <1>1, <2>1, BitInPrefix
  <2>3. i - 1 = w * q(i) + (r(i) - 1)
    BY <1>1, <2>1
  <2>4. ~(V6Bytes - 1 < q(i))
    <3>1. w * (V6Bytes - 1) = w * V6Bytes - w /\ w * V6Bytes \in Int /\ w * q(i) \in Int
      BY <1>1, <2>2
    <3>2. ASSUME V6Bytes - 1 < q(i) PROVE w * (V6Bytes - 1) + w <= w * q(i)
      <4> HIDE DEF q, w
      <4>1. V6Bytes - 1 \in Int /\ q(i) \in Int /\ w \in Nat \ {0}
        BY <1>1, <2>2
      <4> QED BY <3>2, <4>1, MulStep
    <3> HIDE DEF q, r, w, all
    <3> QED BY <1>1, <2>1, <2>2, <2>3, <3>1, <3>2
  <2> HIDE DEF q, r, w, all
  <2> QED BY <1>1, <2>2, <2>4
<1>4. CreateMask8(m) = (m + 1) .. w
  BY DEF CreateMask8, Below
<1>5. \A b : \A i : i \in bit(b) <=> i \in 1 .. all /\ r(i) \in b[q(i)]
  OBVIOUS
<1>6. \A j \in 0 .. (V6Bytes - 1) :
        subnetMask6(n)[j] = IF j = e THEN (1 .. w) \ ((m + 1) .. w) ELSE IF j < e THEN 1 .. w ELSE {}
  BY <1>4 DEF subnetMask6
<1>7. \A a : \A j \in 0 .. (V6Bytes - 1) :
        broadcastAddress6(a, n)[j] = IF j = e THEN a[j] \cup ((m + 1) .. w)
                                     ELSE IF j > e THEN 1 .. w ELSE a[j]
  BY <1>4 DEF broadcastAddress6
<1> HIDE DEF q, r, w, all, bit
<1>8. \A i \in 1 .. all : i \in bit(subnetMask6(n)) <=> i <= n
  <2> TAKE i \in 1 .. all
  <2>1. r(i) \in 1 .. w /\ q(i) \in 0 .. (V6Bytes - 1)
    BY <1>3
  <2>2. r(i) \in subnetMask6(n)[q(i)] <=> (q(i) < e \/ (q(i) = e /\ r(i) <= m))
    BY <1>1, <1>2, <1>6, <2>1
  <2> QED BY <1>3, <1>5, <2>2
<1>9. bit(subnetMask6(n)) = 1 .. n
  <2>1. bit(subnetMask6(n)) \subseteq 1 .. all
    BY <1>5
  <2>2. 1 .. n \subseteq 1 .. all
    BY <1>1 DEF all
  <2>3. \A i \in 1 .. all : i \in 1 .. n <=> i <= n
    BY <1>1
  <2> QED BY <1>8, <2>1, <2>2, <2>3
<1>10. ASSUME NEW a \in [0 .. V6Bytes - 1 -> SUBSET (1 .. ByteBits)]
       PROVE  bit(broadcastAddress6(a, n)) = bit(a) \cup ((n + 1) .. all)
  <2>1. ASSUME NEW i \in 1 .. all
        PROVE  i \in bit(broadcastAddress6(a, n)) <=> i \in bit(a) \/ n < i
    <3>1. r(i) \in 1 .. w /\ q(i) \in 0 .. (V6Bytes - 1)
      BY <1>3
    <3>2. r(i) \in broadcastAddress6(a, n)[q(i)]
            <=> r(i) \in a[q(i)] \/ q(i) > e \/ (q(i) = e /\ m < r(i))
      <4> PICK j, k, c : j = q(i) /\ k = r(i) /\ c = a[j]
        OBVIOUS
      <4>1. j \in Int /\ e \in Int /\ k \in 1 .. w /\ (k \in (m + 1) .. w <=> m < k)
        BY <1>1, <1>2, <3>1
      <4>2. broadcastAddress6(a, n)[j] = IF j = e THEN c \cup ((m + 1) .. w) ELSE IF j > e THEN 1 .. w ELSE c
        BY <1>7, <3>1
      <4> QED BY <4>1, <4>2
    <3>3. n < i <=> q(i) > e \/ (q(i) = e /\ m < r(i))
      BY <1>1, <1>2, <1>3, <3>1
    <3> QED BY <1>5, <3>2, <3>3
  <2>2. \A b : bit(b) \subseteq 1 .. all
    BY <1>5
  <2>3. (n + 1) .. all \subseteq 1 .. all /\ \A i \in 1 .. all : i \in (n + 1) .. all <=> n < i
    BY <1>1
  <2> QED BY <2>1, <2>2, <2>3
<1> QED BY <1>9, <1>10 DEF bit, Below, all

(* CreateMask, CountBytes, the netmasks and the broadcast addresses are    *)
(* exact for every prefix length but 0 of IPv4 and all bits of IPv6, and   *)
(* for bytes and addresses of any size, the 8, 32 and 128 bits of the code *)
(* included.                                                               *)
THEOREM MasksCorrect == \A n \in Nat : MasksExact(n)
<1> SUFFICES ASSUME NEW n \in Nat PROVE MasksExact(n)
  OBVIOUS
<1> QED BY MasksExact4, MasksExact6 DEF MasksExact
=============================================================================
