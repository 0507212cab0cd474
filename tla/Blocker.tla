------------------------------ MODULE Blocker ------------------------------
(***************************************************************************)
(* The request blocker (server/web/blocker): bip.txt and wip.txt are read  *)
(* once, a line is an address or a range of addresses, and a request is    *)
(* refused by a binary search in the two sorted lists.                     *)
(*                                                                         *)
(* An address is a record: len is 4 or 16 bytes, mapped tells a 16-byte    *)
(* address that stands for a 4-byte one, n orders the addresses of one     *)
(* length.  A line is blank (empty or a comment), or two texts with a      *)
(* hyphen between them; one text alone is a range from it to it.  Of a     *)
(* text it matters whether it has colons, which address net.ParseIP makes  *)
(* of it, and which one of the piece after its last colon, which is never  *)
(* a 16-byte one; NoIP is text that is no address.  A description and its  *)
(* colon before the first text are left out: parseLine drops them.         *)
(***************************************************************************)
EXTENDS Integers, Sequences, FiniteSets

CONSTANTS
  IPLines,         \* lines the two files may have
  MaxBlackLines,   \* bound: lines of bip.txt
  MaxWhiteLines,   \* bound: lines of wip.txt
  ClientIPs        \* addresses requests come from

IPs == [len : {0, 4, 16}, mapped : BOOLEAN, n : Int]

Texts == {t \in [colons : BOOLEAN, ip : IPs, tail : [len : {0, 4}, mapped : {FALSE}, n : Int]] :
            ~t.colons => t.tail = t.ip}

ASSUME BlockerAssumption ==
  /\ MaxBlackLines \in Nat /\ MaxWhiteLines \in Nat
  /\ IPLines \subseteq [blank : BOOLEAN, first : Texts, last : Texts] /\ ClientIPs \subseteq IPs

NoIP == [len |-> 0, mapped |-> FALSE, n |-> 0]   \* nil: not an address

VARIABLES
  listsRead,       \* the middleware has been built
  blackFile, whiteFile,      \* lines of bip.txt and wip.txt
  blackIPList, whiteIPList,  \* what New made of them
  verdict          \* the last request: its address and whether it was refused

blockerVars == <<listsRead, blackFile, whiteFile, blackIPList, whiteIPList, verdict>>

\* minifyIP.
minifyIP(ip) == IF ip.mapped THEN [len |-> 4, mapped |-> FALSE, n |-> ip.n] ELSE ip

ipLess(a, b) == IF a.len # b.len THEN a.len < b.len ELSE a.n < b.n

\* parseLine: everything up to the last colon of the line is taken for a description,
\* and a hyphen before it is not seen.  The rest names no range, a bad one or one whose
\* ends have one length.
parseLine(line) ==
  LET rest == IF line.last.colons THEN line.last ELSE line.first
      first == minifyIP(rest.tail)
      last == minifyIP(line.last.tail)
  IN  [kind |-> CASE line.blank -> "blank"
                  [] ~line.blank /\ (NoIP \in {first, last} \/ first.len # last.len)
                       -> "bad"
                  [] OTHER -> "range",
       first |-> first, last |-> last]

\* scanBuf: the lines of a file that are ranges, none at all when one line is bad.
scanBuf(file) ==
  IF \E i \in 1..Len(file) : parseLine(file[i]).kind = "bad" THEN {}
  ELSE {i \in 1..Len(file) : parseLine(file[i]).kind = "range"}

\* New: some order of the ranges by their first address; sort.Slice is not stable.
SortedLists(file) ==
  LET Places == 1..Cardinality(scanBuf(file))
      Orders == {p \in [Places -> scanBuf(file)] : \A i \in scanBuf(file) : \E k \in Places : p[k] = i}
  IN  {l \in {[k \in Places |-> parseLine(file[p[k]])] : p \in Orders} :
         \A k \in Places : k + 1 \in Places => ~ipLess(l[k + 1].first, l[k].first)}

\* Mutant: the last range is never looked at.
lookupBinary_short(ranges, ip) ==
  LET found[at \in (0..Len(ranges)) \X (-1..(Len(ranges) - 1))] ==
        LET lo == at[1]
            hi == at[2]
            mid == lo + (hi - lo) \div 2
            r == ranges[mid + 1]
        IN  IF lo >= hi THEN FALSE
            ELSE IF ipLess(ip, r.first) THEN found[<<lo, mid - 1>>]
            ELSE IF ipLess(r.last, ip) THEN found[<<mid + 1, hi>>]
            ELSE TRUE
  IN  found[<<0, Len(ranges) - 1>>]

lookupBinary(ranges, ip) ==
  LET found[at \in (0..Len(ranges)) \X (-1..(Len(ranges) - 1))] ==
        LET lo == at[1]
            hi == at[2]
            mid == lo + (hi - lo) \div 2
            r == ranges[mid + 1]
        IN  IF lo > hi THEN FALSE
            ELSE IF ipLess(ip, r.first) THEN found[<<lo, mid - 1>>]
            ELSE IF ipLess(r.last, ip) THEN found[<<mid + 1, hi>>]
            ELSE TRUE
  IN  found[<<0, Len(ranges) - 1>>]

Lookup(ranges, ip) == ranges # <<>> /\ lookupBinary(ranges, ip)

-----------------------------------------------------------------------------
BlockerInit ==
  /\ listsRead = FALSE
  /\ blackFile = <<>> /\ whiteFile = <<>>
  /\ blackIPList = <<>> /\ whiteIPList = <<>>
  /\ verdict = [ip |-> NoIP, banned |-> FALSE]

Files(max) == UNION {[1..n -> IPLines] : n \in 0..max}

\* BlockerWithRuntimeState, when the web server builds its routes.
ReadLists ==
  /\ ~listsRead
  /\ listsRead' = TRUE
  /\ blackFile' \in Files(MaxBlackLines) /\ whiteFile' \in Files(MaxWhiteLines)
  /\ blackIPList' \in SortedLists(blackFile')
  /\ whiteIPList' \in SortedLists(whiteFile')
  /\ UNCHANGED verdict

\* The middleware: the white list first, then the black one; a request without an
\* address passes.
banned(ip) ==
  /\ ip # NoIP
  /\ LET addr == minifyIP(ip)
     IN  \/ whiteIPList # <<>> /\ ~Lookup(whiteIPList, addr)
         \/ blackIPList # <<>> /\ Lookup(blackIPList, addr)

CheckRequest(ip) ==
  /\ listsRead
  /\ verdict' = [ip |-> ip, banned |-> banned(ip)]
  /\ UNCHANGED <<listsRead, blackFile, whiteFile, blackIPList, whiteIPList>>

BlockerNext == ReadLists \/ \E ip \in ClientIPs \cup {NoIP} : CheckRequest(ip)

BlockerSpec == BlockerInit /\ [][BlockerNext]_blockerVars

-----------------------------------------------------------------------------
\* What parseLine makes of the files, without sorting or searching.
Readable(file) == {i \in 1..Len(file) : parseLine(file[i]).kind # "blank"}

Says(file) ==
  IF \E i \in 1..Len(file) : parseLine(file[i]).kind = "bad" THEN {}
  ELSE {parseLine(file[i]) : i \in Readable(file)}

Holds(r, ip) == ~ipLess(ip, r.first) /\ ~ipLess(r.last, ip)

Listed(file, ip) == \E r \in Says(file) : Holds(r, minifyIP(ip))

\* No range of the file is empty, and no two of them meet.
Separate(file) ==
  /\ \A r \in Says(file) : ~ipLess(r.last, r.first)
  /\ \A r, s \in Says(file) :
       r = s \/ ipLess(r.last, s.first) \/ ipLess(s.last, r.first)

\* A request is refused by exactly what parseLine makes of the two files, whatever the
\* order of their lines, and by nothing in a file with a bad line: scanBuf, the sort and
\* the binary search lose no range and find no address between two (iplist.go:71).  With
\* ranges that overlap the search may miss one.
LookupExact ==
  (verdict.ip # NoIP /\ Separate(blackFile) /\ Separate(whiteFile))
    => (verdict.banned <=>
          \/ Says(whiteFile) # {} /\ ~Listed(whiteFile, verdict.ip)
          \/ Listed(blackFile, verdict.ip))

\* The range a line is written as.
Written(line) == [first |-> minifyIP(line.first.ip), last |-> minifyIP(line.last.ip)]

\* The lists hold addresses of both lengths (iplist_test.go:53, `{"2001:db8::100", true}`)
\* and a client has one of either ("handles IPv4/IPv6 forms", blocker.go:90): who comes
\* from an address that a line of bip.txt is written for is refused.
WrittenRefused ==
  verdict.ip # NoIP =>
    \A i \in 1..Len(blackFile) :
      LET line == blackFile[i] IN
      (/\ ~line.blank /\ NoIP \notin {line.first.ip, line.last.ip}
       /\ Written(line).first.len = Written(line).last.len
       /\ Holds(Written(line), minifyIP(verdict.ip)))
        => verdict.banned
=============================================================================
