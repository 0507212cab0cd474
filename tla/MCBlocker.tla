----------------------------- MODULE MCBlocker -----------------------------
(***************************************************************************)
(* Instances of Blocker for TLC.                                           *)
(***************************************************************************)
EXTENDS Blocker, TLC

V4(n) == [len |-> 4, mapped |-> FALSE, n |-> n]
Mapped(n) == [len |-> 16, mapped |-> TRUE, n |-> n]
V6(n) == [len |-> 16, mapped |-> FALSE, n |-> n]

\* How they are written: "1.2.3.n", "::ffff:1.2.3.n", "2001:db8::n", and "x".
AsV4(n) == [colons |-> FALSE, ip |-> V4(n), tail |-> V4(n)]
AsMapped(n) == [colons |-> TRUE, ip |-> Mapped(n), tail |-> V4(n)]
AsV6(n) == [colons |-> TRUE, ip |-> V6(n), tail |-> NoIP]
NoText == [colons |-> FALSE, ip |-> NoIP, tail |-> NoIP]

line(first, last) == [blank |-> FALSE, first |-> first, last |-> last]
Comment == [blank |-> TRUE, first |-> NoText, last |-> NoText]

\* Ranges of one length and of two, one whose hyphen parseLine does not see, one address,
\* an IPv6 one and a comment.
MCIPLines ==
  {line(AsV4(1), AsV4(1)), line(AsV4(1), AsV6(1)), line(AsMapped(0), AsV4(2)),
   line(AsV4(2), AsMapped(4)), line(AsV4(3), AsV4(4)), line(AsV6(2), AsV6(2)), Comment}
MCClientIPs == {V4(n) : n \in 0..5} \cup {Mapped(2), V6(0), V6(2)}
=============================================================================
