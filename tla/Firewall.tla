------------------------------- MODULE Firewall -------------------------------
(***************************************************************************)
(* CheckFirewall of the SOCKS server: socks.conf is read line by line,     *)
(* `permit c 140.113.*.*`, and the first rule of the command's mode whose  *)
(* text matches the address permits it.  The code compares texts character *)
(* by character; what a rule means is said octet by octet.                 *)
(***************************************************************************)
EXTENDS Naturals, Sequences, SequencesExt

CONSTANTS
  Octets,    \* bound: the octets that addresses and rules use
  Parts,     \* how many octets make an address
  MaxLines   \* bound: the lines of socks.conf

ASSUME OctetsAssumption == Octets \subseteq 0..255
ASSUME PartsAssumption == Parts \in Nat \ {0} /\ MaxLines \in Nat

Modes == {"c", "b"}

\* Characters: the digits are themselves.
dot == 10
star == 11
any == 256     \* the octet of a rule that is a star

Digits(o) ==
  IF o = any THEN <<star>>
  ELSE IF o < 10 THEN <<o>>
  ELSE IF o < 100 THEN <<o \div 10, o % 10>>
  ELSE <<o \div 100, (o \div 10) % 10, o % 10>>

\* The text of an address or of a rule.
Text(a) ==
  FlattenSeq([i \in 1..Parts |->
                IF i = 1 THEN Digits(a[i]) ELSE <<dot>> \o Digits(a[i])])

Address == [1..Parts -> Octets]

\* The rules in the format of socks.conf: octets, and stars after them.
Rule == {r \in [1..Parts -> Octets \cup {any}] :
           \A i, j \in 1..Parts : i < j /\ r[i] = any => r[j] = any}

\* Mutant: the rule may end before the address does.
MatchesPrefix(dst_ip, rule_ip) ==
  LET from[i \in Nat] ==
        IF i > Len(dst_ip) \/ i > Len(rule_ip)
        THEN i > Len(rule_ip)
        ELSE rule_ip[i] = star \/ (dst_ip[i] = rule_ip[i] /\ from[i + 1])
  IN from[1]

\* The inner loop: both texts lose their first character while it is the same
\* in both; a star in the rule matches whatever is left.
Matches(dst_ip, rule_ip) ==
  LET from[i \in Nat] ==
        IF i > Len(dst_ip) \/ i > Len(rule_ip)
        THEN i > Len(dst_ip) /\ i > Len(rule_ip)
        ELSE rule_ip[i] = star \/ (dst_ip[i] = rule_ip[i] /\ from[i + 1])
  IN from[1]

\* mode_str: every command but CONNECT is looked up as BIND.
mode_str(command) == IF command = 1 THEN "c" ELSE "b"

\* The lines of socks.conf.  Without the file the function returns -1, which is true.
Line == [mode : Modes, rule : Rule]
Conf == SeqOf(Line, MaxLines)

CheckFirewall(ip, command, found, conf) ==
  \/ ~found
  \/ \E l \in Range(conf) :
       l.mode = mode_str(command) /\ Matches(Text(ip), Text(l.rule))
-----------------------------------------------------------------------------
\* What a rule means: each octet is the one of the address, or a star.
Covers(r, ip) == \A i \in 1..Parts : r[i] \in {any, ip[i]}

\* The comparison of texts, which stops at the first star and knows no octets,
\* decides as the rules mean: with a socks.conf an address is permitted if and only
\* if a line of its mode covers it, whatever digits its octets share with the rule's.
Decides ==
  \A ip \in Address, command \in 1..3, conf \in Conf :
    CheckFirewall(ip, command, TRUE, conf) <=>
      \E l \in Range(conf) : l.mode = mode_str(command) /\ Covers(l.rule, ip)
=============================================================================
