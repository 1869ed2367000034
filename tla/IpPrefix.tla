------------------------------ MODULE IpPrefix ------------------------------
(***************************************************************************)
(* IpPrefix and ExemptPrefixes (crates/sbc_core/src/lib.rs) over address    *)
(* families of any width, the code's being 32 and 128 bits.  An address is  *)
(* a number below 2^width; a mask keeps its leading bits.                   *)
(***************************************************************************)
EXTENDS Naturals, FiniteSets

CONSTANT Width    \* bits of an address, per family

ASSUME WidthAssumption == \A f \in DOMAIN Width : Width[f] \in Nat \ {0}

\* 1 << n, by which v4_mask and v6_mask shift; a function, so that it can be proved about.
TwoTo[n \in Nat] == IF n = 0 THEN 1 ELSE 2 * TwoTo[n - 1]

Families    == DOMAIN Width
Addresses   == UNION {[family : {f}, bits : 0..TwoTo[Width[f]] - 1] : f \in Families}
Prefix      == [addr : Addresses, prefix_len : Nat]
BadPrefix   == [error |-> "invalid prefix len"]

\* v4_mask / v6_mask and the bitwise and: MAX << (width - len), and all bits
\* cleared for length 0, where the shift would be as wide as the word.
Masked(a, len) ==
    LET block == TwoTo[Width[a.family] - len] IN
    [a EXCEPT !.bits = IF len = 0 THEN 0 ELSE (@ \div block) * block]

New(a, len) ==
    IF len > Width[a.family] THEN BadPrefix ELSE [addr |-> Masked(a, len), prefix_len |-> len]

ContainsIp(p, ip) ==
    /\ p.addr.family = ip.family
    /\ Masked(p.addr, p.prefix_len) = Masked(ip, p.prefix_len)

\* Fault: the lengths not compared.
ContainsAddress(p, q) == ContainsIp(p, q.addr)

ContainsPrefix(p, q) ==
    /\ p.addr.family = q.addr.family
    /\ p.prefix_len <= q.prefix_len
    /\ ContainsIp(p, q.addr)

ExemptContainsPrefix(exempt, p) == \E e \in exempt : ContainsPrefix(e, p)
ExemptContainsIp(exempt, ip)    == \E e \in exempt : ContainsIp(e, ip)

-----------------------------------------------------------------------------
(* All inputs, one per state: a prefix, another one, and the raw address    *)
(* the second was made from.                                                *)

VARIABLES p, q, raw

\* Lengths up to one that is too long.
Lengths == UNION {0..(Width[f] + 1) : f \in Families}

PrefixInit ==
    /\ raw \in Addresses
    /\ p \in {New(a, len) : a \in Addresses, len \in Lengths} \ {BadPrefix}
    /\ q \in {New(raw, len) : len \in Lengths} \ {BadPrefix}
PrefixNext == UNCHANGED <<p, q, raw>>
PrefixSpec == PrefixInit /\ [][PrefixNext]_<<p, q, raw>>

\* The addresses a prefix of a length stands for: those that agree with it on
\* the leading bits, written bit by bit.
LeadingBit(a, i) == (a.bits \div TwoTo[Width[a.family] - i]) % 2
Members(x) ==
    {a \in Addresses : a.family = x.addr.family
                         /\ \A i \in 1..x.prefix_len : LeadingBit(a, i) = LeadingBit(x.addr, i)}

\* contains_ip and contains_prefix are membership and inclusion of the
\* addresses, at every length including 0 and the full width.
ContainmentIsInclusion ==
    /\ ContainsIp(p, raw) <=> raw \in Members(p)
    /\ ContainsPrefix(p, q) <=> Members(q) \subseteq Members(p)

\* Two prefixes that stand for the same addresses are equal, so the CIDR string
\* is a sound key for ban_by_key however the operator wrote the address.
CanonicalKey == Members(p) = Members(q) => p = q

\* An exempted prefix is exempt address by address.  (Not conversely: a ban
\* that is wider than an exemption is not exempt, and covers it.)
ExemptionCoversMembers ==
    ExemptContainsPrefix({p}, q) => \A a \in Members(q) : ExemptContainsIp({p}, a)

\* The prefix arithmetic means inclusion, equality and exemption of sets of
\* addresses, at every length.
PrefixesAgree == ContainmentIsInclusion /\ CanonicalKey /\ ExemptionCoversMembers

=============================================================================
