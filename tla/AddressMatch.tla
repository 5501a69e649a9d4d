---------------------------- MODULE AddressMatch ----------------------------
(***************************************************************************)
(* Addresses and the networks they are matched with: isValidIP, isIPInCIDR *)
(* and their helpers in src/src/security/utils.ts, on words of any width.  *)
(*                                                                         *)
(* A word is a function of its bits; bit 1 is the most significant, so the *)
(* first bits of an address are those of its first octet or byte.          *)
(***************************************************************************)
EXTENDS Integers, Sequences

CONSTANTS
    ByteBits, \* bits of an octet or a byte: 8
    V4Bytes,  \* octets of an IPv4 address: 4
    V6Bytes   \* bytes of an IPv6 address: 16

ASSUME AddressAssumption ==
    ByteBits \in Nat \ {0} /\ V4Bytes \in Nat \ {0} /\ V6Bytes \in Nat \ {0}

V4Width == ByteBits * V4Bytes
V6Width == ByteBits * V6Bytes
Words(width) == [1..width -> {0, 1}]

(* An address is its family, its bits and how it was written, for example  *)
(* with :: or without.  Family 0 is a text that is not an address.         *)
IPv4(bits, written) == [family |-> 4, bits |-> bits, written |-> written]
IPv6(bits, written) == [family |-> 6, bits |-> bits, written |-> written]
NotAnIP(written)    == [family |-> 0, bits |-> <<>>, written |-> written]
NoAddress           == NotAnIP("unknown")

IsAddress(a) ==
    \/ a = NotAnIP(a.written)
    \/ a = IPv4(a.bits, a.written) /\ a.bits \in Words(V4Width)
    \/ a = IPv6(a.bits, a.written) /\ a.bits \in Words(V6Width)

IsValidIP(a) == a.family # 0

(* An entry of the list of trusted networks; prefix -1: it has no "/".     *)
Cidr(network, prefix) == [network |-> network, prefix |-> prefix]

-----------------------------------------------------------------------------
(* The operators of JavaScript on words, bit by bit.                       *)
And(x, y)        == [i \in DOMAIN x |-> x[i] * y[i]]
Complement(x)    == [i \in DOMAIN x |-> 1 - x[i]]
ShiftLeft(x, n)  == [i \in DOMAIN x |-> IF i + n \in DOMAIN x THEN x[i + n] ELSE 0]
(* x - 1 turns the lowest 1 and the zeros after it; 0 - 1 is all ones.     *)
MinusOne(x) ==
    [i \in DOMAIN x |-> IF \A j \in DOMAIN x : j > i => x[j] = 0 THEN 1 - x[i] ELSE x[i]]

(* ~((1 << (32 - len)) - 1): a shift count wraps at the width.             *)
V4One == [i \in 1..V4Width |-> IF i = V4Width THEN 1 ELSE 0]
NetworkMask(len) ==
    Complement(MinusOne(ShiftLeft(V4One, (V4Width - len) % V4Width)))

(* The octets in a row.  What is not IPv4 counts as 0.                     *)
IpToNumber(a) == IF a.family = 4 THEN a.bits ELSE [i \in 1..V4Width |-> 0]

(* Mutant: a prefix of 0 is no case of its own.                            *)
InV4NetworkNoZero(a, c) ==
    LET mask == NetworkMask(c.prefix)
    IN  /\ c.prefix \in 0..V4Width
        /\ And(IpToNumber(a), mask) = And(IpToNumber(c.network), mask)

InV4Network(a, c) ==
    LET mask == NetworkMask(c.prefix)
    IN  /\ c.prefix \in 0..V4Width
        /\ \/ c.prefix = 0
           \/ And(IpToNumber(a), mask) = And(IpToNumber(c.network), mask)

(* Byte k of an IPv6 address, and 0xff << (8 - rest).                      *)
ByteAt(a, k)   == [j \in 1..ByteBits |-> a.bits[ByteBits * (k - 1) + j]]
ByteMask(rest) == ShiftLeft([j \in 1..ByteBits |-> 1], ByteBits - rest)

(* Whole bytes, then the leading bits of the next one.                     *)
InV6Network(a, c) ==
    LET full == c.prefix \div ByteBits
        rest == c.prefix % ByteBits
    IN  /\ c.prefix \in 0..V6Width
        /\ a.family = 6
        /\ \A k \in 1..full : ByteAt(a, k) = ByteAt(c.network, k)
        /\ rest > 0 => And(ByteAt(a, full + 1), ByteMask(rest))
                       = And(ByteAt(c.network, full + 1), ByteMask(rest))

(* isIPInCIDR: without "/" the two texts are compared.                     *)
IsIPInCIDR(a, c) ==
    CASE c.prefix = -1 -> a = c.network
      [] c.prefix # -1 /\ c.network.family = 4 -> InV4Network(a, c)
      [] c.prefix # -1 /\ c.network.family = 6 -> InV6Network(a, c)
      [] OTHER -> FALSE

-----------------------------------------------------------------------------
(* What a network is: the addresses of its family that begin as it does,   *)
(* every address for an IPv4 prefix of 0.                                  *)
Begins(c, a) ==
    /\ a.family = c.network.family
    /\ c.prefix \in 0..(IF a.family = 4 THEN V4Width ELSE V6Width)
    /\ \A i \in 1..c.prefix : a.bits[i] = c.network.bits[i]

Covers(c, a) ==
    IF c.prefix = -1 THEN a = c.network
    ELSE \/ c.network.family = 4 /\ c.prefix = 0
         \/ c.network.family # 0 /\ Begins(c, a)

(* IpToNumber takes an IPv6 address for 0.0.0.0, so an IPv4 network that   *)
(* begins with zeros only, in the reserved block 0.0.0.0/8, covers more.   *)
Reserved(c) ==
    /\ c.network.family = 4 /\ c.prefix \in 1..V4Width
    /\ \A i \in 1..c.prefix : c.network.bits[i] = 0

=============================================================================
