------------------------------ MODULE LpmTrie ------------------------------
(***************************************************************************)
(* Addresses, the keys of the two allow maps, and their longest-prefix     *)
(* lookup.                                                                 *)
(*                                                                         *)
(* The agent writes a key (internal/ebpf: AllowIP, AllowPrefix) and the    *)
(* kernel program looks one up (bpf/kern/censor.c: lookup_allow_v4/v6).    *)
(* The two sides build the key differently, so an address is kept as the   *)
(* bits at its positions <<word, byte, bit>> in network order, and a key   *)
(* as the bits that end up in memory at those positions.  Sizes are        *)
(* parameters: the code has 8-bit bytes, 4-byte words and 4 words in an    *)
(* IPv6 address.                                                           *)
(***************************************************************************)
EXTENDS Naturals

CONSTANTS
  ByteBits,      \* bits in a byte (8 in the code)
  WordBytes,     \* bytes in a __u32 (4 in the code)
  V6Words,       \* words in an IPv6 address (4 in the code)
  MappedPrefix,  \* ::ffff:0:0/96, the leading words of an IPv4-mapped address
  LittleEndian   \* byte order of the host the agent runs on

ASSUME SizeAssumption ==
  /\ ByteBits \in Nat \ {0}
  /\ WordBytes \in Nat \ {0}
  /\ V6Words \in Nat \ {0, 1}

ASSUME OrderAssumption == LittleEndian \in BOOLEAN

Families == {4, 6}
Words(family) == IF family = 4 THEN 1 ELSE V6Words
AddrBits(family) == Words(family) * WordBytes * ByteBits

(* Where a bit is: word, byte of the word, bit of the byte; and how many   *)
(* bits of the address there are up to and including it.                   *)
Positions(family) == (1 .. Words(family)) \X (1 .. WordBytes) \X (1 .. ByteBits)
Rank(p) == ((p[1] - 1) * WordBytes + (p[2] - 1)) * ByteBits + p[3]

AddressesOf(family) ==
  [family : {family}, bits : [Positions(family) -> {0, 1}]]
Addresses == AddressesOf(4) \cup AddressesOf(6)

(* netip.Addr.Unmap: an IPv4-mapped IPv6 address becomes its IPv4 address. *)
IsMapped(a) ==
  a.family = 6 /\ \A p \in DOMAIN MappedPrefix : a.bits[p] = MappedPrefix[p]
Unmap(a) ==
  IF IsMapped(a)
  THEN [family |-> 4,
        bits |-> [p \in Positions(4) |-> a.bits[<<V6Words, p[2], p[3]>>]]]
  ELSE a

-----------------------------------------------------------------------------
(***************************************************************************)
(* Byte order.  Swapped reverses the bytes of every word and keeps the     *)
(* bits of a byte in place: what a word read with one byte order and       *)
(* written with the other looks like.                                      *)
(***************************************************************************)
Swapped(bits) ==
  [p \in DOMAIN bits |-> bits[<<p[1], WordBytes + 1 - p[2], p[3]>>]]

(* A uint32 read with binary.BigEndian and then laid out in the key struct *)
(* in host order.                                                          *)
HostLayout(bits) == IF LittleEndian THEN Swapped(bits) ELSE bits

(***************************************************************************)
(* Keys of the allow maps: the family selects allow_v4 or allow_v6.        *)
(***************************************************************************)
KeysOf(family) ==
  [family : {family}, prefixlen : 0 .. AddrBits(family),
   data : [Positions(family) -> {0, 1}]]
Keys == KeysOf(4) \cup KeysOf(6)

Masked(bits, len) ==
  [p \in DOMAIN bits |-> IF Rank(p) <= len THEN bits[p] ELSE 0]

(* The /32 or /128 key AllowIP writes for an address.                      *)
HostKey(a) ==
  [family |-> a.family, prefixlen |-> AddrBits(a.family),
   data |-> HostLayout(a.bits)]

(* A slip: the host bits of the CIDR are not masked out.                   *)
PrefixKeyUnmasked(p) ==
  [family |-> p.addr.family, prefixlen |-> p.len,
   data |-> HostLayout(p.addr.bits)]

(* The key AllowPrefix writes for a parsed CIDR (addr, len): the address   *)
(* is masked first and laid out in host order after that.                  *)
PrefixKey(p) ==
  [family |-> p.addr.family, prefixlen |-> p.len,
   data |-> HostLayout(Masked(p.addr.bits, p.len))]

(* The trie tells keys apart by their first prefixlen bits only.           *)
Entry(key) == [key EXCEPT !.data = Masked(key.data, key.prefixlen)]

(* What the trie answers for a packet's destination, whose bytes the       *)
(* program copies into the lookup key as they are in the packet.           *)
Covers(key, dst) ==
  /\ key.family = dst.family
  /\ \A p \in Positions(dst.family) :
       Rank(p) <= key.prefixlen => key.data[p] = dst.bits[p]
LookupAllow(trie, dst) == \E key \in trie : Covers(key, dst)

(* /proc/net/{tcp,udp}{,6} print each word of the remote address as a host *)
(* integer; parseHexIP always reads it back as little-endian.              *)
ProcAddress(a) ==
  IF LittleEndian THEN a ELSE [a EXCEPT !.bits = Swapped(a.bits)]
=============================================================================
