---------------------------- MODULE Conversions ----------------------------
(***************************************************************************)
(* The conversions of ByteArray and Address over all of their inputs: each *)
(* integer, prefix length and position of zeros in an IPv6 address is an   *)
(* initial state of its own, with input to be converted; in one more the   *)
(* array is used.                                                          *)
(***************************************************************************)
EXTENDS ByteArray, Address

VARIABLE input    \* <<what, value>>, or NoInput while the array is used
NoInput == <<"none", 0>>

Inputs ==
    ({"integer"} \X (Unsigned \cup Signed))
        \cup ({"prefix"} \X (0 .. V6Bytes * ByteBits))
        \cup ({"address"} \X [1 .. V6Groups -> {"0", "x"}])

InitAll == Init /\ input \in Inputs \cup {NoInput}
NextAll == input = NoInput /\ Next /\ UNCHANGED input
SpecAll == InitAll /\ [][NextAll]_<<vars, input>>

\* Every integer survives writeUint and writeInt with their varints and zigzag, both ends of
\* the types included.
CodecExact == input[1] = "integer" => SurvivesCodec(input[2])

\* The netmasks and broadcast addresses of the prefix lengths from 1 (IPv4) or below the whole
\* width (IPv6), and the text of every IPv6 address, which Lookup reads back, are exact.
\* networkAddress is not part of it.
AddressExact ==
    /\ input[1] = "prefix"  => MasksExact(input[2])
    /\ input[1] = "address" => TextRoundTrip(input[2])
=============================================================================
