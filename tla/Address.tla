------------------------------ MODULE Address ------------------------------
(***************************************************************************)
(* The computations of src/dwframe/address.cc: masks of a prefix, the text *)
(* of an IPv6 address and how Address::Lookup takes a host apart.  An      *)
(* address is the set of its bits that are 1, bit 1 the most significant;  *)
(* bytes and 16-bit groups have fewer bits than in the code.               *)
(***************************************************************************)
EXTENDS Integers, Sequences, FiniteSets, SequencesExt

CONSTANTS ByteBits,    \* 8
          V4Bits,      \* 32
          V6Bytes,     \* 16
          V6Groups     \* 8

ASSUME AddressAssumption == {ByteBits, V4Bits, V6Bytes, V6Groups} \subseteq Nat \ {0}

Below(n, bits) == n + 1 .. bits      \* the bits behind the first n

\* CreateMask: (1 << (bits of T - n)) - 1.  For n = 0 and the type uint32_t the shift is by
\* the width of int; the processor shifts by 0 and the mask is empty.
CreateMask32(n) == IF n = 0 THEN {} ELSE Below(n, V4Bits)
CreateMask8(n)  == Below(n, ByteBits)

\* CountBytes, with which GetInterfaceAddresses turns a netmask into a prefix length.
CountBytes(mask) == Cardinality(mask)

\* IPv4Address.
broadcastAddress4(a, n) == a \cup CreateMask32(n)
subnetMask4(n)          == (1 .. V4Bits) \ CreateMask32(n)

\* IPv6Address: a byte in the middle and the bytes before or behind it.  a is a function of
\* the index of a byte, from 0 on.
broadcastAddress6(a, n) ==
    [i \in 0 .. V6Bytes - 1 |->
        IF i = n \div ByteBits THEN a[i] \cup CreateMask8(n % ByteBits)
        ELSE IF i > n \div ByteBits THEN 1 .. ByteBits ELSE a[i]]
subnetMask6(n) ==
    [i \in 0 .. V6Bytes - 1 |->
        IF i = n \div ByteBits THEN (1 .. ByteBits) \ CreateMask8(n % ByteBits)
        ELSE IF i < n \div ByteBits THEN 1 .. ByteBits ELSE {}]

\* Mutant: every run of zeros becomes "::".
insert6Twice(groups, port) ==
    LET step(acc, i) ==
            IF groups[i] = "0" THEN acc
            ELSE acc \o (IF i > 1 /\ groups[i - 1] = "0" THEN <<":">> ELSE <<>>)
                     \o (IF i > 1 THEN <<":">> ELSE <<>>) \o <<groups[i]>>
    IN  <<"[">> \o FoldLeftDomain(step, <<>>, groups)
          \o (IF groups[V6Groups] = "0" THEN <<":", ":">> ELSE <<>>) \o <<"]", ":", port>>

\* IPv6Address::insert: the first zeros become "::"; "x" is a group that is not zero.
insert6(groups, port) ==
    LET step(acc, i) ==
            IF groups[i] = "0" /\ ~acc.used THEN acc
            ELSE LET zeros == i > 1 /\ groups[i - 1] = "0" /\ ~acc.used IN
                 [used |-> acc.used \/ zeros,
                  text |-> acc.text \o (IF zeros THEN <<":">> ELSE <<>>)
                             \o (IF i > 1 THEN <<":">> ELSE <<>>) \o <<groups[i]>>]
        all == FoldLeftDomain(step, [used |-> FALSE, text |-> <<>>], groups)
    IN  <<"[">> \o all.text
          \o (IF ~all.used /\ groups[V6Groups] = "0" THEN <<":", ":">> ELSE <<>>)
          \o <<"]", ":", port>>

\* Address::Lookup: what of the host is the node and what the service, for getaddrinfo.
First(c, s) == SelectInSeq(s, LAMBDA x : x = c)
After(s, n) == SubSeq(s, n + 1, Len(s))

Brackets(host) == host # <<>> /\ host[1] = "[" /\ First("]", host) > 2
Lookup(host) ==
    IF Brackets(host)
    THEN LET end == First("]", host) IN
         [node |-> SubSeq(host, 2, end - 1),
          service |-> IF end < Len(host) /\ host[end + 1] = ":" THEN After(host, end + 1) ELSE <<>>]
    ELSE LET colon == First(":", host) IN
         IF colon = 0 THEN [node |-> host, service |-> <<>>]
         ELSE IF First(":", After(host, colon)) > 0
              THEN [node |-> host, service |-> SubSeq(host, colon, Len(host))]
              ELSE [node |-> IF colon > 1 THEN SubSeq(host, 1, colon - 1) ELSE host,
                    service |-> After(host, colon)]

--------------------------------------------------------------------------
(* inet_pton's reading of the text of an address: "::" stands for as many zeros as are
   missing.  A reference definition. *)
Gap(t) == SelectInSeq([i \in 1 .. Len(t) - 1 |-> t[i] = ":" /\ t[i + 1] = ":"], LAMBDA x : x)
NoColons(t) == SelectSeq(t, LAMBDA x : x # ":")
inet_pton(t) ==
    IF Gap(t) = 0 THEN NoColons(t)
    ELSE LET left  == NoColons(SubSeq(t, 1, Gap(t)))
             right == NoColons(After(t, Gap(t)))
         IN  left \o [i \in 1 .. V6Groups - Len(left) - Len(right) |-> "0"] \o right

--------------------------------------------------------------------------
(* What the conversions must do, for one prefix length or one address.      *)

\* The broadcast address is the last address with the same prefix and the mask has just the
\* bits of the prefix, so that the prefix length comes back from the netmask (IPv4: but for
\* 0; IPv6: for less than all bits).
MasksExact(n) ==
    /\ n \in 1 .. V4Bits =>
         /\ CountBytes(subnetMask4(n)) = n
         /\ \A a \in SUBSET (1 .. V4Bits) :
              broadcastAddress4(a, n) = (a \cap subnetMask4(n)) \cup Below(n, V4Bits)
    /\ n < V6Bytes * ByteBits =>
         LET bit(b) == {i \in 1 .. V6Bytes * ByteBits :
                           ((i - 1) % ByteBits) + 1 \in b[(i - 1) \div ByteBits]} IN
         /\ bit(subnetMask6(n)) = 1 .. n
         /\ \A a \in [0 .. V6Bytes - 1 -> SUBSET (1 .. ByteBits)] :
              bit(broadcastAddress6(a, n)) = bit(a) \cup Below(n, V6Bytes * ByteBits)

\* The text of an IPv6 address, wherever its zeros are, comes apart again in Lookup: the
\* node names the same address, with at most one "::", and the service is the port.
TextRoundTrip(groups) ==
    LET l == Lookup(insert6(groups, "p")) IN
    /\ inet_pton(l.node) = groups
    /\ l.service = <<"p">>
=============================================================================
