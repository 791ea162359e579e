------------------------------- MODULE Packing -------------------------------
(* The integers of an RPC packet: pack_dd, pack_dq and unpack_dd, unpack_dq    *)
(* of kernwin.cpp, and the addresses built on them (rpc_hlp.h).                *)
(* A double word is the pair of its halves <<hi, lo>>: the code writes and     *)
(* reads it by halves, and TLC's integers are too narrow for the whole.        *)
(* The peer that packs what the server unpacks is not in the repository; it    *)
(* uses the format of pack_dd.                                                 *)
EXTENDS Integers, Sequences, SequencesExt, Bitwise

CONSTANTS Dwords,      \* the double words that are packed
          MaxFields    \* bound: integers in a packet

VARIABLES sent,        \* what was appended
          packet,      \* the bytes
          cut,         \* bytes missing at the end of it
          ptr,         \* how many bytes the reader has consumed
          got          \* what the reader extracted

vars == <<sent, packet, cut, ptr, got>>

Half == 0 .. 65535
Zero == <<0, 0>>
BADADDR == <<65535, 65535>>

Plus1(x) == IF x[2] < 65535 THEN <<x[1], x[2] + 1>> ELSE <<(x[1] + 1) % 65536, 0>>
Minus1(x) == IF x[2] > 0 THEN <<x[1], x[2] - 1>> ELSE <<(x[1] + 65535) % 65536, 65535>>
Either(x, y) == <<x[1] | y[1], x[2] | y[2]>>

------------------------------------------------------------------------------
(* Packing: 1, 2, 4 or 5 bytes. *)

PutDw(n) == <<n \div 256, n % 256>>

PackDd(x) ==
    CASE x[1] = 0 /\ x[2] <= 127 -> <<x[2]>>
      [] x[1] = 0 /\ x[2] > 127 /\ x[2] <= 16383 -> PutDw(x[2] + 32768)
      [] x[1] <= 8191 /\ (x[1] > 0 \/ x[2] > 16383) -> PutDw(x[1] + 49152) \o PutDw(x[2])
      [] OTHER -> <<255>> \o PutDw(x[1]) \o PutDw(x[2])

\* A quad word [lo, hi] is two double words, the low one first.
PackDq(q) == PackDd(q.lo) \o PackDd(q.hi)

\* append_ea64: the address plus one, so that BADADDR needs the high word.
PackEa(ea) == PackDq([lo |-> Plus1(ea), hi |-> IF ea = BADADDR THEN <<0, 1>> ELSE Zero])

------------------------------------------------------------------------------
(* Unpacking. The branches for four and five bytes are never taken: the test   *)
(* compares (result & 0xC0), a uint32, with -64, which is 0xFFFFFFC0 there.    *)

UnpackDd(bytes, i) ==
    IF i >= Len(bytes) THEN [v |-> Zero, ptr |-> i]
    ELSE LET b == bytes[i + 1]
         IN  CASE b < 128 -> [v |-> <<0, b>>, ptr |-> i + 1]
               [] b >= 128 /\ i + 1 < Len(bytes)
                    -> [v |-> <<0, bytes[i + 2] + 256 * (b - 128)>>, ptr |-> i + 2]
               [] OTHER -> [v |-> <<0, b>>, ptr |-> i + 1]

\* MAKEQWORD shifts a 32-bit value by 32, which is undefined: the result of the
\* shift is nothing or, where the count is masked, the value itself.
Shifted(x) == {Zero, x}

UnpackDq(bytes, i) ==
    LET lo == UnpackDd(bytes, i)
        hi == UnpackDd(bytes, lo.ptr)
    IN  {[v |-> Either(s, lo.v), ptr |-> hi.ptr] : s \in Shifted(hi.v)}

UnpackEa(bytes, i) == {[v |-> Minus1(r.v), ptr |-> r.ptr] : r \in UnpackDq(bytes, i)}

------------------------------------------------------------------------------
Field(kind, v) == [kind |-> kind, v |-> v]

Packed(f) == IF f.kind = "dd" THEN PackDd(f.v) ELSE PackEa(f.v)
Unpacked(kind, bytes, i) ==
    IF kind = "dd" THEN {UnpackDd(bytes, i)} ELSE UnpackEa(bytes, i)

Init == sent = <<>> /\ packet = <<>> /\ cut = 0 /\ ptr = 0 /\ got = <<>>

Append1(kind, v) ==
    /\ got = <<>> /\ cut = 0 /\ Len(sent) < MaxFields
    /\ sent' = Append(sent, Field(kind, v))
    /\ packet' = packet \o Packed(Field(kind, v))
    /\ UNCHANGED <<cut, ptr, got>>

\* A packet that ends too early for the request it holds.
Truncate ==
    /\ got = <<>> /\ packet # <<>>
    /\ packet' = Front(packet)
    /\ cut' = cut + 1
    /\ UNCHANGED <<sent, ptr, got>>

Extract ==
    /\ Len(got) < Len(sent)
    /\ LET kind == sent[Len(got) + 1].kind
       IN  \E r \in Unpacked(kind, packet, ptr) :
               /\ got' = Append(got, Field(kind, r.v))
               /\ ptr' = r.ptr
    /\ UNCHANGED <<sent, packet, cut>>

Next ==
    \/ \E kind \in {"dd", "ea"}, v \in Dwords : Append1(kind, v)
    \/ Truncate
    \/ Extract

Spec == Init /\ [][Next]_vars

------------------------------------------------------------------------------
\* Addresses for the run wire_addresses, one on each side of the edge of the
\* two-byte form, a larger one, and BADADDR.
EdgeAddresses == {<<0, 127>>, <<0, 16382>>, <<0, 16383>>, <<16, 0>>, BADADDR}

Small(f) == f.v[1] = 0 /\ f.v[2] < 16383

\* Two different integers are packed differently, and neither is the beginning
\* of the other: a packet of pack_dd (kernwin.cpp) can be read back.
PackedApart ==
    \A x, y \in Dwords : x # y => ~IsPrefix(PackDd(x), PackDd(y))

\* Integers and addresses that fit in two bytes arrive as they were sent,
\* whatever stands before them in the packet, as long as that is small too.
SmallArrive ==
    \A i \in 1 .. Len(got) :
        cut = 0 /\ (\A j \in 1 .. i : Small(sent[j])) => got[i] = sent[i]

\* Whatever the bytes are, the reader stays inside the packet.
InsidePacket == ptr <= Len(packet)

\* What the comment at rpc_hlp.h:77 promises of append_ea64 and extract_ea64:
\* an address alone in a packet is passed correctly.
AddressesArrive == got # <<>> /\ cut = 0 /\ sent[1].kind = "ea" => got[1] = sent[1]
==============================================================================
