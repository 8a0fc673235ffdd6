---------------------------- MODULE LookupProofs ----------------------------
(***************************************************************************)
(* The allow maps mean what was put into them, up to the byte order of the *)
(* host: a proof about the keys of keys.go, attach and cidr on one side    *)
(* and lookup_allow_v4/v6 on the other, for every size of bytes, words and *)
(* addresses, either byte order and every mix of addresses and prefixes.   *)
(***************************************************************************)
EXTENDS Firewall, Integers, TLAPS

(* Every entry was written by AllowIP or AllowPrefix.                      *)
WrittenInv ==
  allow \subseteq {Entry(HostKey(a)) : a \in Dests}
                    \cup {Entry(PrefixKey(c)) : c \in Cidrs}

-----------------------------------------------------------------------------
(* Multiplication by a natural number is monotone.                         *)
LEMMA TimesMonotone ==
  ASSUME NEW x \in Int, NEW y \in Int, NEW z \in Nat, x <= y
  PROVE  x * z <= y * z
<1> DEFINE gap == y - x
<1>1. gap \in Nat
  OBVIOUS
<1>2. y * z = x * z + gap * z
  OBVIOUS
<1> HIDE DEF gap
<1>3. gap * z \in Nat
  BY <1>1
<1>4. x * z \in Int
  OBVIOUS
<1> QED
  BY <1>2, <1>3, <1>4

(* A bit's rank is at most the number of bits of its address.              *)
LEMMA RankBound ==
  ASSUME NEW family \in Families, NEW p \in Positions(family)
  PROVE  Rank(p) <= AddrBits(family)
<1> DEFINE W == Words(family)
           word == p[1]
           byte == p[2]
           bit == p[3]
           index == (word - 1) * WordBytes + (byte - 1)
<1>1. /\ W \in Nat \ {0} /\ WordBytes \in Nat \ {0} /\ ByteBits \in Nat \ {0}
      /\ word \in 1 .. W /\ byte \in 1 .. WordBytes /\ bit \in 1 .. ByteBits
  BY SizeAssumption DEF Positions, Words, Families
<1> HIDE DEF W, word, byte, bit
<1>2. (word - 1) * WordBytes <= (W - 1) * WordBytes
  BY <1>1, TimesMonotone
<1>3. (W - 1) * WordBytes = W * WordBytes - WordBytes
  BY <1>1
<1>4. index <= W * WordBytes - 1
  BY <1>1, <1>2, <1>3
<1>5. index \in Int /\ W * WordBytes \in Int
  BY <1>1
<1> HIDE DEF index
<1>6. index * ByteBits <= (W * WordBytes - 1) * ByteBits
  BY <1>1, <1>4, <1>5, TimesMonotone
<1>7. (W * WordBytes - 1) * ByteBits = W * WordBytes * ByteBits - ByteBits
  BY <1>1
<1>8. index * ByteBits + bit <= W * WordBytes * ByteBits
  BY <1>1, <1>5, <1>6, <1>7
<1> QED
  BY <1>8 DEF Rank, AddrBits, index, W, word, byte, bit

(* Reversing the bytes of every word twice leaves them as they were.       *)
LEMMA SwappedType ==
  ASSUME NEW family \in Families, NEW bits \in [Positions(family) -> {0, 1}]
  PROVE  /\ Swapped(bits) \in [Positions(family) -> {0, 1}]
         /\ Swapped(Swapped(bits)) = bits
<1>1. WordBytes \in Nat \ {0}
  BY SizeAssumption
<1>2. ASSUME NEW p \in Positions(family)
      PROVE  /\ <<p[1], WordBytes + 1 - p[2], p[3]>> \in Positions(family)
             /\ p[2] \in 1 .. WordBytes /\ p = <<p[1], p[2], p[3]>>
  BY <1>1, <1>2 DEF Positions
<1>3. Swapped(bits) \in [Positions(family) -> {0, 1}]
  BY <1>2 DEF Swapped
<1>4. ASSUME NEW p \in Positions(family) PROVE Swapped(Swapped(bits))[p] = bits[p]
  <2> DEFINE q == <<p[1], WordBytes + 1 - p[2], p[3]>>
  <2>1. q \in Positions(family) /\ q[1] = p[1] /\ q[2] = WordBytes + 1 - p[2] /\ q[3] = p[3]
    BY <1>2
  <2>2. WordBytes + 1 - (WordBytes + 1 - p[2]) = p[2]
    <3>1. \A w \in Int, x \in Int : w + 1 - (w + 1 - x) = x
      OBVIOUS
    <3>2. p[2] \in 1 .. WordBytes
      BY <1>2
    <3>3. WordBytes \in Int /\ p[2] \in Int
      BY <1>1, <3>2
    <3> QED
      BY <3>1, <3>3
  <2>3. Swapped(bits)[q] = bits[<<q[1], WordBytes + 1 - q[2], q[3]>>]
    BY <2>1 DEF Swapped
  <2>4. Swapped(bits)[q] = bits[p]
    BY <1>2, <2>1, <2>2, <2>3
  <2>5. Swapped(Swapped(bits))[p] = Swapped(bits)[q]
    BY <1>3 DEF Swapped
  <2> QED
    BY <2>4, <2>5
<1>5. Swapped(Swapped(bits)) \in [Positions(family) -> {0, 1}]
  BY <1>2, <1>3 DEF Swapped
<1> QED
  BY <1>3, <1>4, <1>5

LEMMA LayoutType ==
  ASSUME NEW family \in Families, NEW bits \in [Positions(family) -> {0, 1}]
  PROVE  HostLayout(bits) \in [Positions(family) -> {0, 1}]
  BY SwappedType DEF HostLayout

LEMMA MaskedType ==
  ASSUME NEW family \in Families, NEW bits \in [Positions(family) -> {0, 1}],
         NEW len
  PROVE  Masked(bits, len) \in [Positions(family) -> {0, 1}]
  BY DEF Masked

(* The entry AllowIP leaves covers the image of that address and no other. *)
LEMMA HostEntryCovers ==
  ASSUME NEW d \in Addresses, NEW a \in Addresses
  PROVE  Covers(Entry(HostKey(d)), a) <=> a = OnWire(d)
<1>1. PICK family \in Families : d \in AddressesOf(family)
  BY DEF Addresses, Families
<1> DEFINE key == Entry(HostKey(d))
           bits == HostLayout(d.bits)
<1>2. d.family = family /\ d.bits \in [Positions(family) -> {0, 1}]
      /\ d = [family |-> family, bits |-> d.bits]
  BY <1>1 DEF AddressesOf
<1>3. bits \in [Positions(family) -> {0, 1}]
  BY <1>2, LayoutType
<1>4. OnWire(d) = [family |-> family, bits |-> bits]
  BY <1>2 DEF OnWire, HostLayout
<1>5. key.family = family /\ key.prefixlen = AddrBits(family)
  BY <1>2 DEF Entry, HostKey
<1>6. key.data = Masked(bits, AddrBits(family))
  BY <1>2 DEF Entry, HostKey
<1> HIDE DEF key, bits
<1>7. \A p \in Positions(family) : key.data[p] = bits[p]
  BY <1>3, <1>6, RankBound DEF Masked
<1>8. CASE a.family # family
  <2>1. ~ Covers(Entry(HostKey(d)), a)
    BY <1>5, <1>8 DEF Covers, key
  <2>2. a # OnWire(d)
    BY <1>4, <1>8
  <2> QED
    BY <2>1, <2>2
<1>9. CASE a.family = family
  <2>1. /\ a.bits \in [Positions(family) -> {0, 1}]
        /\ a = [family |-> family, bits |-> a.bits]
    BY <1>1, <1>9 DEF Addresses, AddressesOf, Families
  <2>2. Covers(key, a) <=> \A p \in Positions(family) : bits[p] = a.bits[p]
    BY <1>5, <1>7, <1>9, RankBound DEF Covers
  <2>3. (\A p \in Positions(family) : bits[p] = a.bits[p]) <=> bits = a.bits
    BY <1>3, <2>1
  <2> QED
    BY <1>4, <2>1, <2>2, <2>3 DEF key
<1> QED
  BY <1>8, <1>9

(* The entry AllowPrefix leaves covers the image of the CIDR.              *)
LEMMA PrefixEntryCovers ==
  ASSUME NEW c \in Cidrs, NEW a \in Addresses
  PROVE  Covers(Entry(PrefixKey(c)), a) <=> InCidr(a, CidrOnWire(c))
<1>1. PICK family \in Families : c.addr \in AddressesOf(family)
  BY CidrsAssumption DEF Addresses, Families
<1> DEFINE key == Entry(PrefixKey(c))
           masked == Masked(c.addr.bits, c.len)
           bits == HostLayout(masked)
<1>2. c.addr.family = family /\ c.addr.bits \in [Positions(family) -> {0, 1}]
      /\ c.addr = [family |-> family, bits |-> c.addr.bits]
  BY <1>1 DEF AddressesOf
<1>3. masked \in [Positions(family) -> {0, 1}]
  BY <1>2, MaskedType
<1>4. [c.addr EXCEPT !.bits = masked] = [family |-> family, bits |-> masked]
  BY <1>2
<1>5. bits \in [Positions(family) -> {0, 1}]
  BY <1>3, LayoutType
<1>6. CidrOnWire(c) = [addr |-> [family |-> family, bits |-> bits], len |-> c.len]
  <2>1. CidrOnWire(c) =
          [addr |-> OnWire([family |-> family, bits |-> masked]), len |-> c.len]
    BY <1>4 DEF CidrOnWire
  <2>2. OnWire([family |-> family, bits |-> masked]) = [family |-> family, bits |-> bits]
    BY DEF OnWire, HostLayout
  <2> QED
    BY <2>1, <2>2
<1>7. key.family = family /\ key.prefixlen = c.len /\ key.data = Masked(bits, c.len)
  BY <1>2 DEF Entry, PrefixKey
<1> HIDE DEF key, masked, bits
<1>8. \A p \in Positions(family) : Rank(p) <= c.len => key.data[p] = bits[p]
  BY <1>5, <1>7 DEF Masked
<1> QED
  BY <1>1, <1>6, <1>7, <1>8 DEF Covers, InCidr, key

(* WrittenInv holds in every reachable state.                              *)
LEMMA WrittenInvariance == FwSpec => []WrittenInv
<1>1. FwInit => WrittenInv
  BY DEF FwInit, WrittenInv
<1>2. WrittenInv /\ [FwNext]_fwVars => WrittenInv'
  <2> SUFFICES ASSUME WrittenInv, [FwNext]_fwVars PROVE WrittenInv'
    OBVIOUS
  <2>1. ASSUME NEW a \in Dests, AllowIP(a) PROVE WrittenInv'
    BY <2>1 DEF AllowIP, AllowKey, Put, WrittenInv
  <2>2. ASSUME NEW c \in Cidrs, AllowPrefix(c) PROVE WrittenInv'
    BY <2>2 DEF AllowPrefix, AllowKey, Put, WrittenInv
  <2>3. CASE LoadCensorObjects
    BY <2>3 DEF LoadCensorObjects, Fail, WrittenInv
  <2>4. CASE FwStep /\ ~ LoadCensorObjects
    BY <2>4 DEF FwStep, RemoveMemlock, ConfigPut, AttachConnect4,
         AttachConnect6, AttachEgress, Attach, AttachExec, NewReader,
         CleanupStep, CleanupEnd, Fail, WrittenInv
  <2>5. CASE AttachFirewall \/ DetachFirewall \/ UNCHANGED fwVars
    BY <2>5 DEF AttachFirewall, DetachFirewall, fwVars, WrittenInv
  <2> QED
    BY <2>1, <2>2, <2>3, <2>4, <2>5 DEF FwNext
<1> QED
  BY <1>1, <1>2, PTL DEF FwSpec

(* The maps mean what was put into them, whatever mix of addresses and     *)
(* overlapping prefixes of both families was allowed and however full the  *)
(* maps are: a lookup of a packet's destination succeeds exactly for the   *)
(* images of the addresses AllowIP was called for and of the CIDRs that    *)
(* AllowPrefix was called for.  The image is what the bytes of the key     *)
(* spell on the wire, on hosts of either byte order.                       *)
THEOREM LookupIsExact == FwSpec => []LookupMatchesImages
<1>1. WrittenInv => LookupMatchesImages
  <2> SUFFICES ASSUME WrittenInv, NEW a \in Addresses
               PROVE  LookupAllow(allow, a) <=> LetThrough(a)
    BY DEF LookupMatchesImages
  <2>1. ASSUME NEW key \in allow, Covers(key, a) PROVE LetThrough(a)
    <3>1. CASE \E d \in Dests : key = Entry(HostKey(d))
      BY <2>1, <3>1, DestsAssumption, HostEntryCovers DEF LetThrough
    <3>2. CASE \E c \in Cidrs : key = Entry(PrefixKey(c))
      BY <2>1, <3>2, PrefixEntryCovers DEF LetThrough
    <3> QED
      BY <3>1, <3>2 DEF WrittenInv
  <2>2. ASSUME LetThrough(a) PROVE LookupAllow(allow, a)
    BY <2>2, DestsAssumption, HostEntryCovers, PrefixEntryCovers
       DEF LetThrough, LookupAllow
  <2> QED
    BY <2>1, <2>2 DEF LookupAllow
<1> QED
  BY <1>1, WrittenInvariance, PTL

(* In the byte order of the network an address and a CIDR are their own    *)
(* images.                                                                 *)
LEMMA ImageIsSame ==
  ASSUME ~ LittleEndian, NEW a \in Addresses
  PROVE  /\ OnWire(a) = a
         /\ \A c \in Cidrs : InCidr(a, CidrOnWire(c)) <=> InCidr(a, c)
<1>1. ASSUME NEW d \in Addresses PROVE OnWire(d) = d
  <2>1. PICK family \in Families : d \in AddressesOf(family)
    BY <1>1 DEF Addresses, Families
  <2>2. d = [family |-> family, bits |-> d.bits]
    BY <2>1 DEF AddressesOf
  <2>3. OnWire(d) = [d EXCEPT !.bits = d.bits]
    BY DEF OnWire
  <2>4. [d EXCEPT !.bits = d.bits] = [family |-> family, bits |-> d.bits]
    BY <2>2
  <2> QED
    BY <2>2, <2>3, <2>4
<1>2. ASSUME NEW c \in Cidrs PROVE InCidr(a, CidrOnWire(c)) <=> InCidr(a, c)
  <2>1. PICK family \in Families : c.addr \in AddressesOf(family)
    BY CidrsAssumption DEF Addresses, Families
  <2> DEFINE masked == Masked(c.addr.bits, c.len)
  <2>2. c.addr.family = family /\ c.addr.bits \in [Positions(family) -> {0, 1}]
        /\ c.addr = [family |-> family, bits |-> c.addr.bits]
    BY <2>1 DEF AddressesOf
  <2>3. [c.addr EXCEPT !.bits = masked] = [family |-> family, bits |-> masked]
    BY <2>2
  <2>4. CidrOnWire(c) = [addr |-> [family |-> family, bits |-> masked], len |-> c.len]
    BY <2>3 DEF CidrOnWire, OnWire
  <2>5. \A p \in Positions(family) : Rank(p) <= c.len => masked[p] = c.addr.bits[p]
    BY <2>2 DEF Masked
  <2> HIDE DEF masked
  <2> QED
    BY <2>2, <2>4, <2>5 DEF InCidr
<1> QED
  BY <1>1, <1>2

(* So nothing but the byte order stands between what is granted and what   *)
(* is let through.                                                         *)
COROLLARY BigEndianLookup ==
  ~ LittleEndian => (FwSpec => []LookupMatchesGrants)
<1> SUFFICES ASSUME ~ LittleEndian PROVE FwSpec => []LookupMatchesGrants
  OBVIOUS
<1>1. LookupMatchesImages => LookupMatchesGrants
  <2> SUFFICES ASSUME LookupMatchesImages, NEW a \in Addresses
               PROVE  LetThrough(a) <=> Granted(a)
    BY DEF LookupMatchesImages, LookupMatchesGrants
  <2>1. \A d \in Dests : OnWire(d) = d
    BY DestsAssumption, ImageIsSame
  <2>2. \A c \in Cidrs : InCidr(a, CidrOnWire(c)) <=> InCidr(a, c)
    BY ImageIsSame
  <2>3. ASSUME Granted(a) PROVE LetThrough(a)
    <3>1. CASE Entry(HostKey(a)) \in allow
      <4>1. OnWire(a) = a
        BY ImageIsSame
      <4>2. LookupAllow(allow, a)
        BY <3>1, <4>1, HostEntryCovers DEF LookupAllow
      <4> QED
        BY <4>2 DEF LookupMatchesImages
    <3>2. CASE \E c \in Cidrs : InCidr(a, c) /\ Entry(PrefixKey(c)) \in allow
      BY <2>2, <3>2 DEF LetThrough
    <3> QED
      BY <2>3, <3>1, <3>2 DEF Granted
  <2>4. ASSUME LetThrough(a) PROVE Granted(a)
    BY <2>1, <2>2, <2>4 DEF Granted, LetThrough
  <2> QED
    BY <2>3, <2>4
<1> QED
  BY <1>1, LookupIsExact, PTL
=============================================================================
