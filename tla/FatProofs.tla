----------------------------- MODULE FatProofs -----------------------------
(***************************************************************************)
(* The reader of Fat finds what the image holds, for every image without   *)
(* damage, any sizes of clusters and names, and any paths.                 *)
(***************************************************************************)
EXTENDS Fat, QueueLemmas

-----------------------------------------------------------------------------
(* The layout of the disk. *)

(* A quotient that is rounded up: the multiple is the first from there on. *)
LEMMA RoundedUp ==
    ASSUME NEW n \in Nat, NEW b \in Nat \ {0}
    PROVE  /\ (n + b - 1) \div b \in Nat
           /\ ((n + b - 1) \div b) * b \in n .. n + b - 1
<1> DEFINE q == (n + b - 1) \div b
           r == (n + b - 1) % b
<1>1. n + b - 1 \in Nat /\ b > 0 /\ b \in Int
  OBVIOUS
<1>2. q \in Nat /\ r \in 0 .. b - 1 /\ n + b - 1 = q * b + r
  BY <1>1
<1> HIDE DEF q, r
<1>3. q * b \in Int
  BY <1>2
<1>4. q * b <= n + b - 1 /\ q * b >= n
  BY <1>2, <1>3
<1>5. q * b \in n .. n + b - 1
  BY <1>3, <1>4
<1> QED BY <1>2, <1>5 DEF q

LEMMA LayoutDisjoint == bs \in Layout => RegionsDisjoint
<1> SUFFICES ASSUME bs \in Layout PROVE RegionsDisjoint
  OBVIOUS
<1> DEFINE b == bs.bytesPerSector
           start == root_dir_start
           n == 32 * bs.rootEntryCount
           q == root_dir_sectors
<1>1. b \in Nat \ {0} /\ start \in Nat /\ n \in Nat
      /\ bs.sectorsPerCluster \in Nat
  BY DEF Layout, root_dir_start
<1>2. q \in Nat /\ q * b \in n .. n + b - 1
  BY <1>1, RoundedUp DEF root_dir_sectors
<1>3. fat_get_cluster_addr(2) = (start + q) * b
  BY <1>1, <1>2 DEF fat_get_cluster_addr
<1> HIDE DEF b, start, n, q
<1>4. (start + q) * b = start * b + q * b
  BY <1>1, <1>2
<1>5. start * b \in Int
  BY <1>1
<1>6. fat_get_cluster_addr(2) \in start * b + n .. start * b + n + b - 1
  BY <1>1, <1>2, <1>3, <1>4, <1>5
<1> QED BY <1>6 DEF RegionsDisjoint, b, start, n

(* Fat!Next changes neither the image nor its boot sector. *)
LEMMA ImageStays == [Next]_vars => disk' = disk /\ bs' = bs
BY DEF Next, Step, NextToken, VisitEntry, NextCluster, WalkEnds, PathEnds,
       ReadCluster, ReadEnds, process_command, vars

(* For every boot sector: the data of the clusters begin where the root    *)
(* directory ends, rounded up to a sector.                                 *)
THEOREM RegionsApart == Spec => []RegionsDisjoint
<1>1. Init => bs \in Layout
  BY FatAssumption DEF Init
<1>2. bs \in Layout /\ [Next]_vars => (bs \in Layout)'
  BY ImageStays
<1> QED BY <1>1, <1>2, LayoutDisjoint, PTL DEF Spec

-----------------------------------------------------------------------------
(* Chains and the table that represents them. *)

LEMMA DiskWellFormed == disk \in Disks => WellFormed(disk)
BY FatAssumption

(* A cluster is in one chain at most, at one place. *)
LEMMA ChainIs ==
    ASSUME WellFormed(disk), NEW chain \in disk.chains, NEW k \in DOMAIN chain
    PROVE  /\ ChainOf(chain[k]) = chain
           /\ PositionOf(chain[k]) = k
           /\ Len(chain) \in Nat /\ DOMAIN chain = 1 .. Len(chain)
           /\ chain[k] \in 2 .. LAST - 1
<1>1. /\ chain \in Seq(2 .. LAST - 1)
      /\ IsInjective(chain)
      /\ \A d \in disk.chains : chain # d => ToSet(chain) \cap ToSet(d) = {}
  BY DEF WellFormed
<1>2. chain[k] \in ToSet(chain)
  BY DEF ToSet
<1>3. \A d \in disk.chains : chain[k] \in ToSet(d) => d = chain
  BY <1>1, <1>2
<1>4. ChainOf(chain[k]) = chain
  BY <1>2, <1>3 DEF ChainOf
<1>5. PositionOf(chain[k]) = k
  BY <1>1, <1>4 DEF PositionOf, IsInjective
<1>6. Len(chain) \in Nat /\ DOMAIN chain = 1 .. Len(chain)
  BY <1>1
<1>7. chain[k] \in 2 .. LAST - 1
  BY <1>1, <1>6, ElementOfSeq
<1> QED BY <1>4, <1>5, <1>6, <1>7

LEMMA ClusterIsNat ==
    \A c \in 2 .. LAST - 1 : c \in Nat /\ c # EMPTY /\ ~(c >= LAST)
BY DEF LAST, EMPTY

(* The table has the successor of every cluster of a chain. *)
LEMMA TableOfChain ==
    ASSUME WellFormed(disk), NEW chain \in disk.chains, NEW k \in DOMAIN chain
    PROVE  Table(chain[k]) = IF k = Len(chain) THEN END_OF_CHAIN ELSE chain[k + 1]
<1>1. /\ ChainOf(chain[k]) = chain /\ PositionOf(chain[k]) = k
      /\ Len(chain) \in Nat /\ DOMAIN chain = 1 .. Len(chain)
  BY ChainIs
<1>2. ~ \A d \in disk.chains : chain[k] \notin ToSet(d)
  BY DEF ToSet
<1>3. chain[k] = Last(chain) <=> k = Len(chain)
  BY <1>1 DEF WellFormed, IsInjective, Last
<1> QED BY <1>1, <1>2, <1>3 DEF Table

LEMMA TableFits ==
    ASSUME WellFormed(disk), NEW c
    PROVE  Table(c) \in 0 .. 4095
<1>1. CASE \A chain \in disk.chains : c \notin ToSet(chain)
  BY <1>1 DEF Table, EMPTY
<1>2. CASE \E chain \in disk.chains : c \in ToSet(chain)
  <2>1. PICK chain \in disk.chains : \E k \in DOMAIN chain : c = chain[k]
    BY <1>2 DEF ToSet
  <2>2. PICK k \in DOMAIN chain : c = chain[k]
    BY <2>1
  <2>3. Table(c) = IF k = Len(chain) THEN END_OF_CHAIN ELSE chain[k + 1]
    BY <2>2, TableOfChain
  <2>4. Len(chain) \in Nat /\ DOMAIN chain = 1 .. Len(chain)
    BY ChainIs
  <2>5. k # Len(chain) => chain[k + 1] \in 2 .. LAST - 1
    BY <2>4, ChainIs
  <2>6. CASE k = Len(chain)
    BY <2>3, <2>6 DEF END_OF_CHAIN
  <2>7. CASE k # Len(chain)
    <3>1. chain[k + 1] \in 0 .. 4095
      BY <2>5, <2>7 DEF LAST
    <3> QED BY <2>3, <2>7, <3>1
  <2> QED BY <2>6, <2>7
<1> QED BY <1>1, <1>2

(* Two entries of 12 bits are packed in three bytes and unpacked again. *)
LEMMA Unpacked ==
    ASSUME WellFormed(disk), NEW c \in Nat
    PROVE  fat_get_fat(c) = Table(c)
<1> DEFINE h == c \div 2
           even == Table(2 * h)
           odd == Table(2 * h + 1)
<1>1. h \in Nat /\ (c = 2 * h \/ c = 2 * h + 1)
      /\ (c % 2 = 0 => c = 2 * h) /\ (c % 2 # 0 => c = 2 * h + 1)
  OBVIOUS
<1>2. even \in 0 .. 4095 /\ odd \in 0 .. 4095
  BY TableFits
<1> HIDE DEF h
<1>3. /\ (3 * h) % 3 = 0 /\ (3 * h) \div 3 = h
      /\ (3 * h + 1) % 3 = 1 /\ (3 * h + 1) \div 3 = h
      /\ (3 * h + 2) % 3 = 2 /\ (3 * h + 2) \div 3 = h
  BY <1>1
<1>4. /\ fatp(3 * h) = even % 256
      /\ fatp(3 * h + 1) = (even \div 256) + 16 * (odd % 16)
      /\ fatp(3 * h + 2) = odd \div 16
  BY <1>3 DEF fatp
<1>5. CASE c % 2 = 0
  <2>1. fat_get_fat(c) = (even % 256)
                           + 256 * (((even \div 256) + 16 * (odd % 16)) % 16)
    BY <1>4, <1>5 DEF fat_get_fat, h
  <2>2. c = 2 * h
    BY <1>1, <1>5
  <2> HIDE DEF even, odd
  <2>3. ((even \div 256) + 16 * (odd % 16)) % 16 = even \div 256
    BY <1>2
  <2>4. (even % 256) + 256 * (even \div 256) = even
    BY <1>2
  <2> QED BY <2>1, <2>2, <2>3, <2>4 DEF even
<1>6. CASE c % 2 # 0
  <2>1. fat_get_fat(c) = 16 * (odd \div 16)
                           + (((even \div 256) + 16 * (odd % 16)) \div 16)
    BY <1>4, <1>6 DEF fat_get_fat, h
  <2>2. c = 2 * h + 1
    BY <1>1, <1>6
  <2> HIDE DEF even, odd
  <2>3. ((even \div 256) + 16 * (odd % 16)) \div 16 = odd % 16
    BY <1>2
  <2>4. 16 * (odd \div 16) + (odd % 16) = odd
    BY <1>2
  <2> QED BY <2>1, <2>2, <2>3, <2>4 DEF odd
<1> QED BY <1>5, <1>6

LEMMA ChainsUnpacked == WellFormed(disk) => FatUnpacked
<1> SUFFICES ASSUME WellFormed(disk),
                    NEW c \in UNION {ToSet(chain) : chain \in disk.chains}
             PROVE  fat_get_fat(c) = Table(c)
  BY DEF FatUnpacked
<1>1. PICK chain \in disk.chains : \E k \in DOMAIN chain : c = chain[k]
  BY DEF ToSet
<1>2. c \in 2 .. LAST - 1
  BY <1>1, ChainIs
<1>3. c \in Nat
  BY <1>2, ClusterIsNat
<1> QED BY <1>3, Unpacked

(* For every image: whatever lies beside an entry of the table, the reader *)
(* takes the twelve bits of the cluster and no other.                      *)
THEOREM TableUnpacked == Spec => []FatUnpacked
<1>1. Init => disk \in Disks
  BY DEF Init
<1>2. disk \in Disks /\ [Next]_vars => (disk \in Disks)'
  BY ImageStays
<1> QED BY <1>1, <1>2, DiskWellFormed, ChainsUnpacked, PTL DEF Spec

-----------------------------------------------------------------------------
(* Names: what ls shows of a name and what the commands make of that. *)

FirstOf(s, x) == SelectInSeq(s, LAMBDA y : y = x)

(* SelectInSeq finds the first place of a character. *)
LEMMA SelectCases ==
    ASSUME NEW S, NEW s \in Seq(S), NEW x
    PROVE  \/ FirstOf(s, x) = 0 /\ \A i \in 1 .. Len(s) : s[i] # x
           \/ /\ FirstOf(s, x) \in 1 .. Len(s) /\ s[FirstOf(s, x)] = x
              /\ \A i \in 1 .. FirstOf(s, x) - 1 : s[i] # x
<1> DEFINE I == {i \in 1 .. Len(s) : s[i] = x}
           n == FirstOf(s, x)
<1>1. n = IF I # {} THEN Min(I) ELSE 0
  BY DEF FirstOf, SelectInSeq
<1>2. CASE I = {}
  BY <1>1, <1>2
<1>3. CASE I # {}
  <2>1. Len(s) \in Nat /\ I \subseteq Nat /\ I \subseteq Int
    OBVIOUS
  <2>2. PICK m \in I : \A i \in I : m <= i
    BY <1>3, <2>1, SmallestExists
  <2>3. n = m
    BY <1>1, <1>3, <2>1, <2>2, MinIs
  <2>4. m \in 1 .. Len(s) /\ s[m] = x
    BY <2>2
  <2>5. ASSUME NEW i \in 1 .. m - 1 PROVE s[i] # x
    <3>1. i \in 1 .. Len(s) /\ ~(m <= i)
      BY <2>1, <2>4
    <3> QED BY <2>2, <3>1
  <2> QED BY <2>3, <2>4, <2>5
<1> QED BY <1>2, <1>3

LEMMA SelectFirst ==
    ASSUME NEW S, NEW s \in Seq(S), NEW x, NEW n \in 1 .. Len(s), s[n] = x,
           \A i \in 1 .. n - 1 : s[i] # x
    PROVE  FirstOf(s, x) = n
<1> DEFINE m == FirstOf(s, x)
<1>1. \/ m = 0 /\ \A i \in 1 .. Len(s) : s[i] # x
      \/ m \in 1 .. Len(s) /\ s[m] = x /\ \A i \in 1 .. m - 1 : s[i] # x
  BY SelectCases
<1> HIDE DEF m
<1>2. Len(s) \in Nat
  OBVIOUS
<1>3. m = n
  BY <1>1, <1>2
<1> QED BY <1>3 DEF m

LEMMA Concatenation ==
    ASSUME NEW S, NEW s \in Seq(S), NEW t \in Seq(S)
    PROVE  /\ s \o t \in Seq(S) /\ Len(s \o t) = Len(s) + Len(t)
           /\ \A i \in 1 .. Len(s) : (s \o t)[i] = s[i]
           /\ \A i \in 1 .. Len(t) : (s \o t)[Len(s) + i] = t[i]
OBVIOUS

LEMMA LengthsOfNames ==
    BASE_LEN \in Nat \ {0} /\ EXT_LEN \in Nat \ {0} /\ NAME_LEN = BASE_LEN + EXT_LEN
BY FatAssumption DEF NAME_LEN

(* The base that is shown is all of the base but the blanks at its end. *)
LEMMA BaseShown ==
    ASSUME NEW S, NEW name \in Seq(S), NameWritten(name)
    PROVE  \E n \in 0 .. BASE_LEN :
              /\ ShownBase(name) = SubSeq(name, 1, n)
              /\ \A i \in n + 1 .. BASE_LEN : name[i] = BLANK
<1> DEFINE space == FirstOf(name, BLANK)
<1>1. \/ space = 0 /\ \A i \in 1 .. Len(name) : name[i] # BLANK
      \/ /\ space \in 1 .. Len(name) /\ name[space] = BLANK
         /\ \A i \in 1 .. space - 1 : name[i] # BLANK
  BY SelectCases
<1>2. ShownBase(name)
        = SubSeq(name, 1, IF space \in 1 .. BASE_LEN THEN space - 1 ELSE BASE_LEN)
  BY DEF ShownBase, FirstOf
<1> HIDE DEF space
<1>3. \A i, j \in 1 .. BASE_LEN : (i < j /\ name[i] = BLANK) => name[j] = BLANK
  BY DEF NameWritten
<1>4. CASE space \in 1 .. BASE_LEN
  <2>1. name[space] = BLANK /\ space - 1 \in 0 .. BASE_LEN
    BY <1>1, <1>4, LengthsOfNames
  <2>2. ASSUME NEW i \in space - 1 + 1 .. BASE_LEN PROVE name[i] = BLANK
    BY <1>3, <1>4, <2>1, LengthsOfNames
  <2> QED BY <1>2, <1>4, <2>1, <2>2
<1>5. CASE space \notin 1 .. BASE_LEN
  <2>1. BASE_LEN \in 0 .. BASE_LEN /\ BASE_LEN + 1 .. BASE_LEN = {}
    BY LengthsOfNames
  <2> QED BY <1>2, <1>5, <2>1
<1> QED BY <1>4, <1>5

LEMMA CapitalsStay ==
    ASSUME NEW name, NameWritten(name), NEW i \in DOMAIN name
    PROVE  Up(name[i]) = name[i]
BY DEF NameWritten, Up

LEMMA BlankStays == Up(BLANK) = BLANK
BY FatAssumption DEF Up

(* fat_set_entry_name of a base, a dot and an extension, and of a base. *)
LEMMA FileNameAgain ==
    ASSUME NEW S, NEW name \in Seq(S), DOT \in S, NameWritten(name), name[1] # DOT
    PROVE  fat_set_entry_name(ShownBase(name) \o <<DOT>>
                                \o SubSeq(name, BASE_LEN + 1, NAME_LEN)) = name
<1>1. PICK n \in 0 .. BASE_LEN :
         /\ ShownBase(name) = SubSeq(name, 1, n)
         /\ \A i \in n + 1 .. BASE_LEN : name[i] = BLANK
  BY BaseShown
<1> DEFINE b == SubSeq(name, 1, n)
           x == SubSeq(name, BASE_LEN + 1, NAME_LEN)
           shown == b \o <<DOT>> \o x
<1>2. /\ Len(name) = NAME_LEN /\ DOMAIN name = 1 .. NAME_LEN
      /\ \A i \in 1 .. BASE_LEN : name[i] # DOT
  BY DEF NameWritten
<1>3. n \in Nat /\ n <= BASE_LEN /\ BASE_LEN \in Nat /\ EXT_LEN \in Nat
      /\ NAME_LEN = BASE_LEN + EXT_LEN
  BY LengthsOfNames
<1>4. /\ b \in Seq(S) /\ Len(b) = n
      /\ \A i \in 1 .. n : b[i] = name[i]
  BY <1>2, <1>3
<1>5. /\ x \in Seq(S) /\ Len(x) = EXT_LEN
      /\ \A i \in 1 .. EXT_LEN : x[i] = name[BASE_LEN + i]
  BY <1>2, <1>3
<1> HIDE DEF b, x
<1>6. /\ shown \in Seq(S) /\ Len(shown) = n + 1 + EXT_LEN
      /\ \A i \in 1 .. n : shown[i] = b[i]
      /\ shown[n + 1] = DOT
      /\ \A i \in 1 .. EXT_LEN : shown[n + 1 + i] = x[i]
  <2> DEFINE head == b \o <<DOT>>
  <2>1. <<DOT>> \in Seq(S) /\ Len(<<DOT>>) = 1 /\ <<DOT>>[1] = DOT
    OBVIOUS
  <2>2. /\ head \in Seq(S) /\ Len(head) = n + 1
        /\ \A i \in 1 .. n : head[i] = b[i]
        /\ head[n + 1] = DOT
    BY <1>3, <1>4, <2>1
  <2> HIDE DEF head
  <2>3. shown = head \o x
    BY DEF head
  <2> HIDE DEF shown
  <2>4. /\ shown \in Seq(S) /\ Len(shown) = Len(head) + Len(x)
        /\ \A i \in 1 .. Len(head) : shown[i] = head[i]
        /\ \A i \in 1 .. Len(x) : shown[Len(head) + i] = x[i]
    <3>1. head \in Seq(S) /\ x \in Seq(S)
      BY <1>5, <2>2
    <3> QED BY ONLY <2>3, <3>1, Concatenation
  <2>5. n + 1 \in 1 .. Len(head) /\ \A i \in 1 .. n : i \in 1 .. Len(head)
    BY <1>3, <2>2
  <2>6. shown[n + 1] = DOT /\ \A i \in 1 .. n : shown[i] = b[i]
    BY <2>2, <2>4, <2>5
  <2> QED BY <1>3, <1>5, <2>2, <2>4, <2>6
<1> HIDE DEF shown
<1>7. FirstOf(shown, DOT) = n + 1
  <2>1. n + 1 \in 1 .. Len(shown)
    BY <1>3, <1>6
  <2>2. \A i \in 1 .. n + 1 - 1 : shown[i] # DOT
    BY <1>2, <1>3, <1>4, <1>6
  <2> QED BY <1>6, <2>1, <2>2, SelectFirst
<1> DEFINE base == SubSeq(shown, 1, n)
           ext == SubSeq(shown, n + 2, Len(shown))
           char(i) == IF i > BASE_LEN /\ i - BASE_LEN <= Len(ext) THEN ext[i - BASE_LEN]
                      ELSE IF i <= Len(base) THEN base[i] ELSE BLANK
<1>8. fat_set_entry_name(shown) = [i \in 1 .. NAME_LEN |-> Up(char(i))]
  <2> DEFINE dot == FirstOf(shown, DOT)
  <2>1. dot # 0 /\ dot - 1 = n /\ dot + 1 = n + 2
    BY <1>3, <1>7
  <2>2. /\ base = IF dot = 0 THEN shown ELSE SubSeq(shown, 1, dot - 1)
        /\ ext = IF dot = 0 THEN <<>> ELSE SubSeq(shown, dot + 1, Len(shown))
    BY <2>1
  <2> HIDE DEF base, ext
  <2> QED BY <2>2 DEF fat_set_entry_name, FirstOf
<1>9. Len(base) = n /\ \A i \in 1 .. n : base[i] = name[i]
  BY <1>3, <1>4, <1>6
<1>10. Len(ext) = EXT_LEN /\ \A i \in 1 .. EXT_LEN : ext[i] = name[BASE_LEN + i]
  <2>1. Len(ext) = EXT_LEN
    BY <1>3, <1>6
  <2>2. ASSUME NEW i \in 1 .. EXT_LEN PROVE ext[i] = name[BASE_LEN + i]
    <3>1. n + 2 + i - 1 = n + 1 + i /\ i \in 1 .. Len(shown) - (n + 2) + 1
      BY <1>3, <1>6
    <3>2. ext[i] = shown[n + 1 + i]
      BY <1>3, <1>6, <3>1
    <3> QED BY <1>5, <1>6, <3>2
  <2> QED BY <2>1, <2>2
<1> HIDE DEF base, ext
<1>11. ASSUME NEW i \in 1 .. NAME_LEN PROVE Up(char(i)) = name[i]
  <2>1. CASE i > BASE_LEN
    <3>1. i - BASE_LEN \in 1 .. EXT_LEN /\ BASE_LEN + (i - BASE_LEN) = i
      BY <1>3, <2>1
    <3>2. char(i) = name[i]
      BY <1>3, <1>10, <2>1, <3>1
    <3> QED BY <1>2, <3>2, CapitalsStay
  <2>2. CASE i <= n
    <3>1. char(i) = name[i]
      BY <1>3, <1>9, <2>2
    <3> QED BY <1>2, <3>1, CapitalsStay
  <2>3. CASE i > n /\ i <= BASE_LEN
    <3>1. char(i) = BLANK /\ name[i] = BLANK
      BY <1>1, <1>3, <1>9, <2>3
    <3> QED BY <3>1, BlankStays
  <2> QED BY <1>3, <2>1, <2>2, <2>3
<1>12. fat_set_entry_name(shown) = [i \in 1 .. NAME_LEN |-> name[i]]
  BY <1>8, <1>11
<1>13. name = [i \in 1 .. NAME_LEN |-> name[i]]
  BY <1>2
<1> QED BY <1>1, <1>12, <1>13 DEF shown, b, x

LEMMA DirectoryNameAgain ==
    ASSUME NEW S, NEW name \in Seq(S), NameWritten(name), name[1] # DOT,
           \A i \in BASE_LEN + 1 .. NAME_LEN : name[i] = BLANK
    PROVE  fat_set_entry_name(ShownBase(name)) = name
<1>1. PICK n \in 0 .. BASE_LEN :
         /\ ShownBase(name) = SubSeq(name, 1, n)
         /\ \A i \in n + 1 .. BASE_LEN : name[i] = BLANK
  BY BaseShown
<1> DEFINE shown == SubSeq(name, 1, n)
<1>2. /\ Len(name) = NAME_LEN /\ DOMAIN name = 1 .. NAME_LEN
      /\ \A i \in 1 .. BASE_LEN : name[i] # DOT
  BY DEF NameWritten
<1>3. n \in Nat /\ n <= BASE_LEN /\ BASE_LEN \in Nat /\ EXT_LEN \in Nat
      /\ NAME_LEN = BASE_LEN + EXT_LEN
  BY LengthsOfNames
<1>4. /\ shown \in Seq(S) /\ Len(shown) = n
      /\ \A i \in 1 .. n : shown[i] = name[i]
  BY <1>2, <1>3
<1> HIDE DEF shown
<1>5. FirstOf(shown, DOT) = 0
  <2> DEFINE dot == FirstOf(shown, DOT)
  <2>1. \/ dot = 0 /\ \A i \in 1 .. Len(shown) : shown[i] # DOT
        \/ dot \in 1 .. Len(shown) /\ shown[dot] = DOT
    BY <1>4, SelectCases
  <2> HIDE DEF dot
  <2>2. dot = 0
    BY <1>2, <1>3, <1>4, <2>1
  <2> QED BY <2>2 DEF dot
<1> DEFINE char(i) == IF i > BASE_LEN /\ i - BASE_LEN <= Len(<<>>) THEN <<>>[i - BASE_LEN]
                      ELSE IF i <= Len(shown) THEN shown[i] ELSE BLANK
<1>6. fat_set_entry_name(shown) = [i \in 1 .. NAME_LEN |-> Up(char(i))]
  BY <1>5 DEF fat_set_entry_name, FirstOf
<1>7. ASSUME NEW i \in 1 .. NAME_LEN PROVE Up(char(i)) = name[i]
  <2>1. ~(i > BASE_LEN /\ i - BASE_LEN <= Len(<<>>))
    BY <1>3
  <2>2. CASE i <= n
    <3>1. char(i) = name[i]
      BY <1>3, <1>4, <2>1, <2>2
    <3> QED BY <1>2, <3>1, CapitalsStay
  <2>3. CASE i > n
    <3>1. char(i) = BLANK
      BY <1>3, <1>4, <2>1, <2>3
    <3>2. name[i] = BLANK
      BY <1>1, <1>3, <2>3
    <3> QED BY <3>1, <3>2, BlankStays
  <2> QED BY <1>3, <2>2, <2>3
<1>8. fat_set_entry_name(shown) = [i \in 1 .. NAME_LEN |-> name[i]]
  BY <1>6, <1>7
<1>9. name = [i \in 1 .. NAME_LEN |-> name[i]]
  BY <1>2
<1> QED BY <1>1, <1>8, <1>9 DEF shown

LEMMA NameAgain ==
    ASSUME NEW e \in DirectoryEntry, NameWritten(e.name), ShownWhole(e)
    PROVE  fat_set_entry_name(fat_get_entry_name(e)) = e.name
<1>1. e.name \in Seq(STRING) /\ e.name[1] # DOT
  BY DEF DirectoryEntry, ShownWhole
<1> DEFINE S == STRING \cup {DOT}
<1>2. CASE e.kind = "file"
  <2>1. e.name \in Seq(S) /\ DOT \in S
    BY <1>1
  <2> QED BY <1>1, <1>2, <2>1, FileNameAgain DEF fat_get_entry_name
<1>3. CASE e.kind # "file"
  BY <1>1, <1>3, DirectoryNameAgain DEF fat_get_entry_name, ShownWhole
<1> QED BY <1>2, <1>3

-----------------------------------------------------------------------------
(* What the image says, as functions of the image. *)

LiveIn(image, dir) == {e \in ToSet(image.dirs[dir]) : Live(e)}

CompactIn(image, dir) ==
    \A i, j \in DOMAIN image.dirs[dir] :
        (i < j /\ image.dirs[dir][j].kind # "free") => Live(image.dirs[dir][i])

(* The directories along a path. *)
Ways(image, arg) ==
    {dirs \in [1 .. Len(arg) -> DOMAIN image.dirs] :
        /\ dirs[1] = EMPTY
        /\ \A k \in DOMAIN arg : CompactIn(image, dirs[k])
        /\ \A k \in 1 .. Len(arg) - 1 : \E e \in LiveIn(image, dirs[k]) :
              e.kind = "dir" /\ e.name = fat_set_entry_name(arg[k])
                /\ e.cluster = dirs[k + 1]}

DenotesIn(image, arg, e) ==
    /\ arg # <<>>
    /\ \E dirs \in Ways(image, arg) : /\ e \in LiveIn(image, dirs[Len(arg)])
                                      /\ e.name = fat_set_entry_name(Last(arg))

ListsIn(image, arg, dir) ==
    IF arg = NoArgument THEN dir = EMPTY
    ELSE \E parent \in DOMAIN image.dirs : \E e \in LiveIn(image, parent) :
            e.kind = "dir" /\ e.cluster = dir /\ dir # EMPTY /\ DenotesIn(image, arg, e)

(* None of the bytes of a chain, up to the size of the file, is zero. *)
TextIn(image, chain, size) ==
    \A k \in DOMAIN chain : \A i \in 0 .. BytesIn(k, size) - 1 :
        (chain[k] - 2) * CLUSTER_SIZE + i \notin image.zeros

(* A text file with contents that the path names, and cat prints whole. *)
FileAt(image, arg, dir, e) ==
    /\ WholePieces
    /\ e \in LiveIn(image, dir) /\ e.kind = "file" /\ e.size > 0
    /\ DenotesIn(image, arg, e)
    /\ \A chain \in image.chains : chain[1] = e.cluster => TextIn(image, chain, e.size)

(* The entries of cluster c are those of a directory from skip + 1 on. *)
Stands(image, c, dir, skip) ==
    /\ dir \in DOMAIN image.dirs
    /\ \/ c = EMPTY /\ dir = EMPTY /\ skip = 0
       \/ \E chain \in image.chains : \E k \in DOMAIN chain :
             c = chain[k] /\ dir = chain[1] /\ skip = DIR_ENTRIES * (k - 1)

Width(image, c) == IF c = EMPTY THEN Len(image.dirs[EMPTY]) ELSE DIR_ENTRIES

-----------------------------------------------------------------------------
(* The invariant: how far a command has come, in each of its phases. *)

(* The names of the argument. *)
Words == IF path = NoArgument THEN <<>> ELSE path

Looked == Len(Words) - Len(tokens)

Rest(arg, n) == SubSeq(arg, n + 1, Len(arg))

Sought(e, arg, n) == e.kind \in {"file", "dir"} /\ e.name = fat_set_entry_name(arg[n])

(* The reader has found what the first n names of the path denote. *)
Answers(image, arg, n, e, c) ==
    /\ n = 0 => c = EMPTY
    /\ n > 0 => \A dirs \in Ways(image, arg) : \A x \in LiveIn(image, dirs[n]) :
                    Sought(x, arg, n) => e = x /\ c = x.cluster

(* The n-th name is looked for and was found if it is among those visited. *)
Finding(image, arg, n, dir, skip, c, i, f, e) ==
    /\ Stands(image, c, dir, skip)
    /\ i \in 1 .. Width(image, c) + 1
    /\ e.name = fat_set_entry_name(arg[n])
    /\ f \in BOOLEAN
    /\ f => e \in LiveIn(image, dir)
    /\ \A dirs \in Ways(image, arg) : dirs[n] = dir
    /\ CompactIn(image, dir) => \A j \in 1 .. skip + i - 1 :
          (Live(image.dirs[dir][j]) /\ Sought(image.dirs[dir][j], arg, n))
              => f /\ e = image.dirs[dir][j]

(* Of the first m entries the live ones are shown. *)
Shown(image, dir, m, p) ==
    /\ Len(p) <= m
    /\ \A k \in 1 .. Len(p) : p[k] = image.dirs[dir][k]
    /\ \A k \in Len(p) + 1 .. m : ~Live(image.dirs[dir][k])

Listing(image, dir, skip, c, i, p) ==
    /\ Stands(image, c, dir, skip)
    /\ i \in 1 .. Width(image, c) + 1
    /\ p \in Seq(LiveIn(image, dir))
    /\ CompactIn(image, dir) => Shown(image, dir, skip + i - 1, p)

Listed(image, arg, dir, p) ==
    /\ p \in Seq(LiveIn(image, dir))
    /\ \A d \in DOMAIN image.dirs : ListsIn(image, arg, d) =>
          /\ d = dir
          /\ CompactIn(image, dir) => Shown(image, dir, Len(image.dirs[dir]), p)

(* The k-th piece of a file, and the first pieces read. *)
Piece(chain, k, size) == <<chain[k], BytesIn(k, size)>>

Reading(chain, size, c, l, p) ==
    /\ p \in Seq(Nat \X Nat)
    /\ Len(p) <= Len(chain)
    /\ \A k \in 1 .. Len(p) : p[k] = Piece(chain, k, size)
    /\ Len(p) < Len(chain) => c = chain[Len(p) + 1]
    /\ l = IF Len(p) * CLUSTER_SIZE <= size THEN size - Len(p) * CLUSTER_SIZE ELSE 0

AtPath == /\ printed = <<>>
          /\ Answers(disk, Words, Looked, entry, cluster)
          /\ (tokens # <<>> \/ command = "ls") => cluster \in DOMAIN disk.dirs

AtFind == /\ printed = <<>>
          /\ Looked > 0
          /\ \E dir \in DOMAIN disk.dirs : \E skip \in 0 .. Len(disk.dirs[dir]) :
                Finding(disk, Words, Looked, dir, skip, cluster, index, found, entry)

AtList == /\ command = "ls"
          /\ \E dir \in DOMAIN disk.dirs : \E skip \in 0 .. Len(disk.dirs[dir]) :
                /\ Listing(disk, dir, skip, cluster, index, printed)
                /\ \A d \in DOMAIN disk.dirs : ListsIn(disk, path, d) => d = dir

AtRead == /\ command = "cat"
          /\ \A dir \in DOMAIN disk.dirs : \A e \in LiveIn(disk, dir) :
                FileAt(disk, path, dir, e) =>
                    \A chain \in disk.chains : chain[1] = e.cluster =>
                        Reading(chain, e.size, cluster, left, printed)

AtPrompt ==
    /\ command = "ls" => \E dir \in DOMAIN disk.dirs : Listed(disk, path, dir, printed)
    /\ command = "cat" =>
          \A dir \in DOMAIN disk.dirs : \A e \in LiveIn(disk, dir) :
              FileAt(disk, path, dir, e) =>
                  \A chain \in disk.chains : chain[1] = e.cluster =>
                      printed = [k \in DOMAIN chain |-> Piece(chain, k, e.size)]

CommandGiven ==
    /\ disk \in Disks
    /\ phase \in {"prompt", "path", "find", "list", "read"}
    /\ phase # "prompt" => command \in {"ls", "cat"}
    /\ command = "ls" => path \in LsPaths
    /\ command = "cat" => path \in CatPaths
    /\ Words \in Seq(Seq(STRING))
    /\ Looked \in 0 .. Len(Words)
    /\ tokens = Rest(Words, Looked)
    /\ "name" \in DOMAIN entry

FatInv == /\ CommandGiven
          /\ phase = "path" => AtPath
          /\ phase = "find" => AtFind
          /\ phase = "list" => AtList
          /\ phase = "read" => AtRead
          /\ phase = "prompt" => AtPrompt

-----------------------------------------------------------------------------
(* Lemmas about the walk through a directory. *)

LEMMA Multiples ==
    ASSUME NEW w \in Nat, NEW a \in Nat, NEW b \in Nat
    PROVE  /\ w * a \in Nat /\ a * w = w * a
           /\ w * (a + 1) = w * a + w
           /\ a <= b => w * a <= w * b
<1>1. w * a \in Nat /\ a * w = w * a /\ w * (a + 1) = w * a + w
  OBVIOUS
<1>2. ASSUME a <= b PROVE w * a <= w * b
  <2>1. b - a \in Nat /\ w * b = w * a + w * (b - a)
    BY <1>2
  <2>2. w * (b - a) \in Nat /\ w * b \in Nat
    BY <2>1
  <2> HIDE <1>2
  <2> QED BY <1>1, <2>1, <2>2
<1> QED BY <1>1, <1>2

LEMMA SizesOfClusters == DIR_ENTRIES \in Nat \ {0} /\ CLUSTER_SIZE \in Nat \ {0}
BY FatAssumption

LEMMA ChainBegins ==
    ASSUME WellFormed(disk), NEW chain \in disk.chains
    PROVE  1 \in DOMAIN chain /\ Len(chain) \in Nat /\ DOMAIN chain = 1 .. Len(chain)
BY DEF WellFormed

(* The chain of a directory holds its entries, no fewer and no more. *)
LEMMA DirectoryFills ==
    ASSUME WellFormed(disk), NEW chain \in disk.chains, chain[1] \in DOMAIN disk.dirs
    PROVE  Len(disk.dirs[chain[1]]) = DIR_ENTRIES * Len(chain)
<1>1. 1 \in DOMAIN chain
  BY ChainBegins
<1>2. chain[1] # EMPTY
  BY <1>1, ChainIs, ClusterIsNat
<1>3. PICK c \in disk.chains :
         c[1] = chain[1] /\ Len(disk.dirs[chain[1]]) = DIR_ENTRIES * Len(c)
  BY <1>2 DEF WellFormed
<1>4. ChainOf(c[1]) = c /\ ChainOf(chain[1]) = chain
  BY <1>1, ChainBegins, ChainIs
<1> QED BY <1>3, <1>4

LEMMA DirectoryTyped ==
    ASSUME WellFormed(disk), NEW dir \in DOMAIN disk.dirs
    PROVE  /\ disk.dirs[dir] \in Seq(DirectoryEntry)
           /\ Len(disk.dirs[dir]) \in Nat
           /\ DOMAIN disk.dirs[dir] = 1 .. Len(disk.dirs[dir])
BY DEF WellFormed

(* A directory begins in the cluster by which it is known. *)
LEMMA StandsAtBeginning ==
    ASSUME WellFormed(disk), NEW dir \in DOMAIN disk.dirs
    PROVE  Stands(disk, dir, dir, 0)
<1>1. CASE dir = EMPTY
  BY <1>1 DEF Stands
<1>2. CASE dir # EMPTY
  <2>1. PICK c \in disk.chains : c[1] = dir
    BY <1>2 DEF WellFormed
  <2>2. 1 \in DOMAIN c
    BY ChainBegins
  <2>3. 0 = DIR_ENTRIES * (1 - 1)
    BY SizesOfClusters
  <2> QED BY <2>1, <2>2, <2>3 DEF Stands
<1> QED BY <1>1, <1>2

LEMMA EntriesAre ==
    ASSUME WellFormed(disk), NEW c, NEW dir, NEW skip, Stands(disk, c, dir, skip)
    PROVE  /\ skip \in Nat /\ Width(disk, c) \in Nat /\ Len(disk.dirs[dir]) \in Nat
           /\ skip + Width(disk, c) <= Len(disk.dirs[dir])
           /\ Len(Entries(c)) = Width(disk, c)
           /\ \A i \in 1 .. Width(disk, c) : Entries(c)[i] = disk.dirs[dir][skip + i]
<1> DEFINE entries == disk.dirs[dir]
<1>1. dir \in DOMAIN disk.dirs
  BY DEF Stands
<1>2. entries \in Seq(DirectoryEntry) /\ Len(entries) \in Nat
  BY <1>1, DirectoryTyped
<1>3. CASE c = EMPTY /\ dir = EMPTY /\ skip = 0
  <2>1. Entries(c) = entries /\ Width(disk, c) = Len(entries)
    BY <1>3 DEF Entries, Width
  <2> HIDE DEF entries
  <2>2. \A i \in 1 .. Len(entries) : skip + i = i
    BY <1>2, <1>3
  <2>3. \A i \in 1 .. Width(disk, c) : Entries(c)[i] = entries[skip + i]
    BY <2>1, <2>2
  <2>4. skip \in Nat /\ skip + Width(disk, c) <= Len(entries)
    BY <1>2, <1>3, <2>1
  <2> QED BY <1>2, <2>1, <2>3, <2>4 DEF entries
<1>4. ASSUME NEW chain \in disk.chains, NEW k \in DOMAIN chain,
             c = chain[k], dir = chain[1], skip = DIR_ENTRIES * (k - 1)
      PROVE  /\ skip \in Nat /\ Width(disk, c) \in Nat
             /\ skip + Width(disk, c) <= Len(entries)
             /\ Len(Entries(c)) = Width(disk, c)
             /\ \A i \in 1 .. Width(disk, c) : Entries(c)[i] = entries[skip + i]
  <2>1. /\ ChainOf(c) = chain /\ PositionOf(c) = k /\ c # EMPTY
        /\ k \in 1 .. Len(chain) /\ Len(chain) \in Nat
    BY <1>4, ChainIs, ClusterIsNat
  <2>2. Len(entries) = DIR_ENTRIES * Len(chain)
    BY <1>1, <1>4, DirectoryFills
  <2>3. Width(disk, c) = DIR_ENTRIES /\ DIR_ENTRIES \in Nat
    BY <2>1, SizesOfClusters DEF Width
  <2>4. Entries(c) = SubSeq(entries, skip + 1, skip + DIR_ENTRIES)
    BY <1>4, <2>1 DEF Entries
  <2> HIDE DEF entries
  <2>5. skip \in Nat /\ skip + DIR_ENTRIES <= Len(entries)
    <3>1. k - 1 \in Nat /\ k \in Nat /\ k = k - 1 + 1 /\ k <= Len(chain)
      BY <2>1
    <3>2. DIR_ENTRIES * (k - 1) \in Nat
          /\ DIR_ENTRIES * (k - 1 + 1) = DIR_ENTRIES * (k - 1) + DIR_ENTRIES
          /\ DIR_ENTRIES * k <= DIR_ENTRIES * Len(chain)
      BY <2>1, <2>3, <3>1, Multiples
    <3> QED BY <1>4, <2>2, <3>1, <3>2
  <2>6. Len(Entries(c)) = DIR_ENTRIES
    BY <1>2, <2>3, <2>4, <2>5
  <2>7. ASSUME NEW i \in 1 .. DIR_ENTRIES PROVE Entries(c)[i] = entries[skip + i]
    <3>1. skip + 1 + i - 1 = skip + i
      BY <2>3, <2>5
    <3> QED BY <1>2, <2>3, <2>4, <2>5, <3>1
  <2> QED BY <2>3, <2>5, <2>6, <2>7
<1> HIDE DEF entries
<1>5. \/ c = EMPTY /\ dir = EMPTY /\ skip = 0
      \/ \E chain \in disk.chains : \E k \in DOMAIN chain :
             c = chain[k] /\ dir = chain[1] /\ skip = DIR_ENTRIES * (k - 1)
  BY DEF Stands
<1> QED BY <1>2, <1>3, <1>4, <1>5 DEF entries

(* The table leads from a cluster of a directory to the next one, and the  *)
(* last one holds the last entries.                                        *)
LEMMA NextStands ==
    ASSUME WellFormed(disk), NEW c, NEW dir, NEW skip, Stands(disk, c, dir, skip),
           c # EMPTY, fat_get_fat(c) < LAST
    PROVE  /\ Stands(disk, fat_get_fat(c), dir, skip + DIR_ENTRIES)
           /\ Width(disk, c) = DIR_ENTRIES
<1>1. PICK chain \in disk.chains : \E k \in DOMAIN chain :
          c = chain[k] /\ dir = chain[1] /\ skip = DIR_ENTRIES * (k - 1)
  BY DEF Stands
<1>2. PICK k \in DOMAIN chain :
          c = chain[k] /\ dir = chain[1] /\ skip = DIR_ENTRIES * (k - 1)
  BY <1>1
<1>3. k \in 1 .. Len(chain) /\ Len(chain) \in Nat /\ DOMAIN chain = 1 .. Len(chain)
      /\ c \in Nat
  BY <1>2, ChainIs, ClusterIsNat
<1>4. fat_get_fat(c) = IF k = Len(chain) THEN END_OF_CHAIN ELSE chain[k + 1]
  BY <1>2, <1>3, Unpacked, TableOfChain
<1>5. k # Len(chain)
  BY <1>4 DEF END_OF_CHAIN, LAST
<1>6. k + 1 \in DOMAIN chain /\ fat_get_fat(c) = chain[k + 1]
  BY <1>3, <1>4, <1>5
<1>7. skip + DIR_ENTRIES = DIR_ENTRIES * ((k + 1) - 1)
  <2>1. k - 1 \in Nat /\ (k - 1) + 1 = k /\ (k + 1) - 1 = k /\ DIR_ENTRIES \in Nat
    BY <1>3, SizesOfClusters
  <2>2. DIR_ENTRIES * (k - 1 + 1) = DIR_ENTRIES * (k - 1) + DIR_ENTRIES
    BY <2>1, Multiples
  <2> QED BY <1>2, <2>1, <2>2
<1>8. dir \in DOMAIN disk.dirs /\ Width(disk, c) = DIR_ENTRIES
  BY DEF Stands, Width
<1>9. Stands(disk, chain[k + 1], dir, skip + DIR_ENTRIES)
  <2> DEFINE m == k + 1
             s == skip + DIR_ENTRIES
  <2>1. m \in DOMAIN chain
    BY <1>6
  <2>2. s = DIR_ENTRIES * (m - 1)
    BY <1>7
  <2>3. dir = chain[1]
    BY <1>2
  <2> HIDE DEF m, s
  <2>4. Stands(disk, chain[m], dir, s)
    BY <1>8, <2>1, <2>2, <2>3 DEF Stands
  <2> QED BY <2>4 DEF m, s
<1> QED BY <1>6, <1>8, <1>9

LEMMA LastStands ==
    ASSUME WellFormed(disk), NEW c, NEW dir, NEW skip, Stands(disk, c, dir, skip),
           c # EMPTY => fat_get_fat(c) >= LAST
    PROVE  skip + Width(disk, c) = Len(disk.dirs[dir])
<1>1. CASE c = EMPTY /\ dir = EMPTY /\ skip = 0
  <2>1. Len(disk.dirs[EMPTY]) \in Nat
    BY DirectoryTyped DEF WellFormed
  <2> QED BY <1>1, <2>1 DEF Width
<1>2. ASSUME NEW chain \in disk.chains, NEW k \in DOMAIN chain,
             c = chain[k], dir = chain[1], skip = DIR_ENTRIES * (k - 1)
      PROVE  skip + Width(disk, c) = Len(disk.dirs[dir])
  <2>1. k \in 1 .. Len(chain) /\ Len(chain) \in Nat /\ DOMAIN chain = 1 .. Len(chain)
        /\ c \in Nat /\ c # EMPTY
    BY <1>2, ChainIs, ClusterIsNat
  <2>2. fat_get_fat(c) = IF k = Len(chain) THEN END_OF_CHAIN ELSE chain[k + 1]
    BY <1>2, <2>1, Unpacked, TableOfChain
  <2>3. k # Len(chain) => chain[k + 1] \in 2 .. LAST - 1
    BY <2>1, ChainIs
  <2>4. k = Len(chain)
    <3>1. SUFFICES ASSUME k # Len(chain) PROVE FALSE
      OBVIOUS
    <3>2. chain[k + 1] >= LAST /\ chain[k + 1] \in 2 .. LAST - 1
      BY <2>1, <2>2, <2>3, <3>1
    <3> QED BY <3>2, ClusterIsNat
  <2>5. Len(disk.dirs[dir]) = DIR_ENTRIES * k
    BY <1>2, <2>4, DirectoryFills DEF Stands
  <2>6. k - 1 \in Nat /\ k - 1 + 1 = k /\ DIR_ENTRIES \in Nat
    BY <2>1, SizesOfClusters
  <2>7. DIR_ENTRIES * (k - 1 + 1) = DIR_ENTRIES * (k - 1) + DIR_ENTRIES
    BY <2>6, Multiples
  <2> QED BY <1>2, <2>1, <2>5, <2>6, <2>7 DEF Width
<1>3. \/ c = EMPTY /\ dir = EMPTY /\ skip = 0
      \/ \E chain \in disk.chains : \E k \in DOMAIN chain :
             c = chain[k] /\ dir = chain[1] /\ skip = DIR_ENTRIES * (k - 1)
  BY DEF Stands
<1> QED BY <1>1, <1>2, <1>3

-----------------------------------------------------------------------------
(* The names of a path. *)

LEMMA RestIs ==
    ASSUME NEW S, NEW arg \in Seq(S), NEW n \in 0 .. Len(arg)
    PROVE  /\ Len(Rest(arg, n)) = Len(arg) - n
           /\ n = 0 => Rest(arg, n) = arg
           /\ Rest(arg, n) = <<>> <=> n = Len(arg)
           /\ n < Len(arg) => /\ Head(Rest(arg, n)) = arg[n + 1]
                              /\ Tail(Rest(arg, n)) = Rest(arg, n + 1)
                              /\ n + 1 \in 0 .. Len(arg)
<1>1. Len(arg) \in Nat /\ n \in Nat
  OBVIOUS
<1>2. Rest(arg, n) \in Seq(S) /\ Len(Rest(arg, n)) = Len(arg) - n
  BY <1>1 DEF Rest
<1>3. n = 0 => Rest(arg, n) = arg
  BY <1>1 DEF Rest
<1>4. Rest(arg, n) = <<>> <=> n = Len(arg)
  BY <1>1, <1>2
<1>5. ASSUME n < Len(arg)
      PROVE  /\ Head(Rest(arg, n)) = arg[n + 1]
             /\ Tail(Rest(arg, n)) = Rest(arg, n + 1)
             /\ n + 1 \in 0 .. Len(arg)
  <2>1. n + 1 \in 0 .. Len(arg)
    BY <1>1, <1>5
  <2>2. Head(Rest(arg, n)) = arg[n + 1]
    BY <1>1, <1>5 DEF Rest
  <2>3. Tail(Rest(arg, n)) = Rest(arg, n + 1)
    BY <1>1, <1>5 DEF Rest
  <2> QED BY <2>1, <2>2, <2>3
<1> QED BY <1>2, <1>3, <1>4, <1>5

LEMMA WayTyped ==
    ASSUME NEW image, NEW S, NEW arg \in Seq(S), NEW dirs \in Ways(image, arg),
           NEW n \in 1 .. Len(arg)
    PROVE  dirs[n] \in DOMAIN image.dirs /\ CompactIn(image, dirs[n])
BY DEF Ways

(* Behind n names the reader is in the directory that the path has there. *)
LEMMA WayLeads ==
    ASSUME NEW image, NEW S, NEW arg \in Seq(S), NEW n \in 0 .. Len(arg) - 1,
           NEW e, NEW c, Answers(image, arg, n, e, c), NEW dirs \in Ways(image, arg)
    PROVE  dirs[n + 1] = c
<1>1. CASE n = 0
  <2>1. dirs[1] = EMPTY /\ c = EMPTY
    BY <1>1 DEF Ways, Answers
  <2> QED BY <1>1, <2>1
<1>2. CASE n > 0
  <2>1. n \in 1 .. Len(arg) - 1
    BY <1>2
  <2>2. PICK x \in LiveIn(image, dirs[n]) :
           x.kind = "dir" /\ x.name = fat_set_entry_name(arg[n])
             /\ x.cluster = dirs[n + 1]
    BY <2>1 DEF Ways
  <2>3. Sought(x, arg, n)
    BY <2>2 DEF Sought
  <2> QED BY <1>2, <2>2, <2>3 DEF Answers
<1> QED BY <1>1, <1>2

(* An entry that the whole path denotes has been found. *)
LEMMA DenotedFound ==
    ASSUME NEW image, NEW S, NEW arg \in Seq(S), arg # <<>>, NEW e, NEW c,
           Answers(image, arg, Len(arg), e, c), NEW x, DenotesIn(image, arg, x),
           x.kind \in {"file", "dir"}
    PROVE  e = x /\ c = x.cluster
<1>1. PICK dirs \in Ways(image, arg) : /\ x \in LiveIn(image, dirs[Len(arg)])
                                       /\ x.name = fat_set_entry_name(Last(arg))
  BY DEF DenotesIn
<1>2. Len(arg) > 0
  OBVIOUS
<1>3. Sought(x, arg, Len(arg))
  BY <1>1 DEF Sought, Last
<1> QED BY <1>1, <1>2, <1>3 DEF Answers

LEMMA LiveTyped ==
    ASSUME WellFormed(disk), NEW dir \in DOMAIN disk.dirs, NEW e \in LiveIn(disk, dir)
    PROVE  /\ e \in DirectoryEntry
           /\ "name" \in DOMAIN e
           /\ Live(e)
           /\ \E j \in 1 .. Len(disk.dirs[dir]) : e = disk.dirs[dir][j]
           /\ e.kind \in {"file", "dir"} => NameWritten(e.name)
<1>1. Live(e) /\ e \in ToSet(disk.dirs[dir])
  BY DEF LiveIn
<1>2. PICK j \in DOMAIN disk.dirs[dir] : e = disk.dirs[dir][j]
  BY <1>1 DEF ToSet
<1>3. /\ disk.dirs[dir] \in Seq(DirectoryEntry)
      /\ DOMAIN disk.dirs[dir] = 1 .. Len(disk.dirs[dir])
  BY DirectoryTyped
<1>4. e \in DirectoryEntry
  BY <1>2, <1>3, ElementOfSeq
<1>5. "name" \in DOMAIN e
  BY <1>4 DEF DirectoryEntry
<1>6. e.kind \in {"file", "dir"} => NameWritten(e.name)
  BY <1>1, <1>2 DEF WellFormed
<1> QED BY <1>1, <1>2, <1>3, <1>4, <1>5, <1>6

-----------------------------------------------------------------------------
(* The steps. *)

LEMMA GivenFacts ==
    ASSUME FatInv
    PROVE  /\ WellFormed(disk)
           /\ EMPTY \in DOMAIN disk.dirs
           /\ Words \in Seq(Seq(STRING)) /\ Len(Words) \in Nat
           /\ Looked \in 0 .. Len(Words)
           /\ tokens = Rest(Words, Looked)
<1>1. CommandGiven
  BY DEF FatInv
<1>2. WellFormed(disk)
  BY <1>1, FatAssumption DEF CommandGiven
<1> QED BY <1>1, <1>2 DEF CommandGiven, WellFormed

LEMMA InitFatInv == Init => FatInv
<1> SUFFICES ASSUME Init PROVE FatInv
  OBVIOUS
<1>1. Looked = 0 /\ Words = <<>> /\ tokens = <<>> /\ Words \in Seq(Seq(STRING))
  BY DEF Init, Looked, Words
<1>2. Rest(Words, 0) = Words
  BY <1>1 DEF Rest
<1>3. "name" \in DOMAIN entry
  BY DEF Init, NoEntry
<1>4. command = "none"
  BY DEF Init
<1>5. CommandGiven
  BY <1>1, <1>2, <1>3, <1>4 DEF Init, CommandGiven
<1>6. AtPrompt
  BY <1>4 DEF AtPrompt
<1> QED BY <1>5, <1>6 DEF Init, FatInv

LEMMA CommandStep ==
    ASSUME FatInv, NEW cmd, NEW arg, process_command(cmd, arg),
           \/ cmd = "ls" /\ arg \in LsPaths
           \/ cmd = "cat" /\ arg \in CatPaths
    PROVE  FatInv'
<1> DEFINE words == IF arg = NoArgument THEN <<>> ELSE arg
<1>1. WellFormed(disk) /\ EMPTY \in DOMAIN disk.dirs
  BY GivenFacts
<1>2. words \in Seq(Seq(STRING)) /\ Len(words) \in Nat
  <2>1. CASE arg = NoArgument
    <3>1. words = <<>>
      BY <2>1
    <3> HIDE DEF words
    <3> QED BY <3>1
  <2>2. CASE arg # NoArgument
    <3>1. words = arg /\ arg \in Seq(Seq(STRING))
      BY <2>2, FatAssumption
    <3> HIDE DEF words
    <3> QED BY <3>1
  <2> QED BY <2>1, <2>2
<1>3. /\ disk' = disk /\ command' = cmd /\ path' = arg /\ tokens' = words
      /\ phase' = "path" /\ entry' = NoEntry /\ cluster' = EMPTY /\ printed' = <<>>
  BY DEF process_command
<1>4. Words' = words /\ Looked' = 0
  <2>1. Words' = words
    BY <1>3 DEF Words
  <2> HIDE DEF words
  <2> QED BY <1>2, <1>3, <2>1 DEF Looked
<1> HIDE DEF words
<1>5. Rest(words, 0) = words
  BY <1>2, RestIs
<1>6. "name" \in DOMAIN NoEntry
  BY DEF NoEntry
<1>7. disk \in Disks
  BY DEF FatInv, CommandGiven
<1>8. CommandGiven'
  BY <1>2, <1>3, <1>4, <1>5, <1>6, <1>7 DEF CommandGiven
<1>9. AtPath'
  BY <1>1, <1>3, <1>4 DEF AtPath, Answers
<1> QED BY <1>3, <1>8, <1>9 DEF FatInv

LEMMA TokenStep == ASSUME FatInv, NextToken PROVE FatInv'
<1> DEFINE n == Looked
           name == fat_set_entry_name(Head(tokens))
<1>1. /\ WellFormed(disk) /\ EMPTY \in DOMAIN disk.dirs
      /\ Words \in Seq(Seq(STRING)) /\ Len(Words) \in Nat
      /\ n \in 0 .. Len(Words) /\ tokens = Rest(Words, n)
  BY GivenFacts
<1>2. /\ disk' = disk /\ command' = command /\ path' = path /\ Words' = Words
      /\ tokens' = Tail(tokens)
      /\ entry' = [entry EXCEPT !.name = name] /\ printed' = printed
      /\ phase = "path" /\ tokens # <<>>
  BY DEF NextToken, Words
<1>3. AtPath
  BY <1>2 DEF FatInv
<1>4. n < Len(Words)
  BY <1>1, <1>2, RestIs
<1>5. name = fat_set_entry_name(Words[n + 1]) /\ tokens' = Rest(Words, n + 1)
      /\ n + 1 \in 0 .. Len(Words)
  BY <1>1, <1>2, <1>4, RestIs
<1>6. Looked' = n + 1
  <2>1. Len(tokens') = Len(Words) - (n + 1)
    BY <1>1, <1>5, RestIs
  <2> QED BY <1>1, <1>2, <2>1 DEF Looked
<1>7. "name" \in DOMAIN entry' /\ entry'.name = name
  BY <1>2 DEF FatInv, CommandGiven
<1>8. /\ disk \in Disks /\ command \in {"ls", "cat"}
      /\ (command = "ls" => path \in LsPaths) /\ (command = "cat" => path \in CatPaths)
  BY <1>2 DEF FatInv, CommandGiven
<1> HIDE DEF n, name
<1>9. phase' \in {"path", "find"} => CommandGiven'
  BY <1>1, <1>2, <1>5, <1>6, <1>7, <1>8 DEF CommandGiven
<1>10. CASE name[1] = BLANK /\ cluster' = EMPTY /\ phase' = "path"
  <2>1. ASSUME NEW dirs \in Ways(disk, Words), NEW x \in LiveIn(disk, dirs[n + 1]),
               Sought(x, Words, n + 1)
        PROVE  FALSE
    <3>1. dirs[n + 1] \in DOMAIN disk.dirs
      BY <1>1, <1>4, WayTyped
    <3>2. x.kind \in {"file", "dir"} /\ x.name = name
      BY <1>5, <2>1 DEF Sought
    <3>3. NameWritten(x.name)
      BY <1>1, <3>1, <3>2, LiveTyped
    <3> QED BY <1>10, <3>2, <3>3 DEF NameWritten
  <2>2. Answers(disk, Words, n + 1, entry', EMPTY)
    BY <1>1, <2>1 DEF Answers
  <2>3. AtPath'
    BY <1>1, <1>2, <1>3, <1>6, <1>10, <2>2 DEF AtPath
  <2> QED BY <1>9, <1>10, <2>3 DEF FatInv
<1>11. CASE /\ phase' = "find" /\ found' = FALSE /\ index' = 1 /\ cluster' = cluster
  <2>1. cluster \in DOMAIN disk.dirs /\ Answers(disk, Words, n, entry, cluster)
        /\ printed = <<>>
    BY <1>2, <1>3 DEF AtPath, n
  <2>2. Stands(disk, cluster, cluster, 0)
    BY <1>1, <2>1, StandsAtBeginning
  <2>3. Width(disk, cluster) \in Nat /\ Len(disk.dirs[cluster]) \in Nat
    BY <1>1, <2>2, EntriesAre
  <2>4. \A dirs \in Ways(disk, Words) : dirs[n + 1] = cluster
    <3>1. n \in 0 .. Len(Words) - 1
      BY <1>1, <1>4
    <3> QED BY <1>1, <2>1, <3>1, WayLeads
  <2>5. Finding(disk, Words, n + 1, cluster, 0, cluster, 1, FALSE, entry')
    BY <1>5, <1>7, <2>2, <2>3, <2>4 DEF Finding
  <2>6. \E dir \in DOMAIN disk.dirs : \E skip \in 0 .. Len(disk.dirs[dir]) :
            Finding(disk, Words, n + 1, dir, skip, cluster, 1, FALSE, entry')
    <3>1. 0 \in 0 .. Len(disk.dirs[cluster])
      BY <2>3
    <3> QED BY <2>1, <2>5, <3>1, Zenon
  <2>7. Looked' > 0 /\ printed' = <<>>
    BY <1>1, <1>2, <1>6, <2>1
  <2>8. AtFind'
    BY <1>2, <1>6, <1>11, <2>6, <2>7, Zenon DEF AtFind
  <2> QED BY <1>9, <1>11, <2>8 DEF FatInv
<1>12. \/ name[1] = BLANK /\ cluster' = EMPTY /\ phase' = "path"
       \/ phase' = "find" /\ found' = FALSE /\ index' = 1 /\ cluster' = cluster
  BY DEF NextToken, name
<1> QED BY <1>10, <1>11, <1>12

(* A step that keeps the command and its path keeps what is said of them. *)
LEMMA GivenStays ==
    ASSUME FatInv, disk' = disk, command' = command, path' = path, tokens' = tokens,
           phase # "prompt", "name" \in DOMAIN entry',
           phase' \in {"prompt", "path", "find", "list", "read"}
    PROVE  CommandGiven' /\ Words' = Words /\ Looked' = Looked
<1>1. CommandGiven
  BY DEF FatInv
<1>2. Words' = Words /\ Looked' = Looked
  BY DEF Words, Looked
<1> QED BY <1>1, <1>2 DEF CommandGiven

(* What the walk looks at next. *)
LEMMA VisitedIs ==
    ASSUME WellFormed(disk), NEW dir \in DOMAIN disk.dirs, NEW skip,
           Stands(disk, cluster, dir, skip), index \in 1 .. Width(disk, cluster) + 1,
           InUse
    PROVE  /\ index \in 1 .. Width(disk, cluster) /\ index + 1 \in 1 .. Width(disk, cluster) + 1
           /\ skip + index \in 1 .. Len(disk.dirs[dir])
           /\ Entries(cluster)[index] = disk.dirs[dir][skip + index]
           /\ Entries(cluster)[index] \in LiveIn(disk, dir)
<1> DEFINE w == Width(disk, cluster)
           m == Len(disk.dirs[dir])
<1>1. /\ skip \in Nat /\ w \in Nat /\ m \in Nat /\ skip + w <= m
      /\ Len(Entries(cluster)) = w
      /\ \A i \in 1 .. w : Entries(cluster)[i] = disk.dirs[dir][skip + i]
  BY EntriesAre
<1>2. index <= w /\ Live(Entries(cluster)[index])
  BY <1>1 DEF InUse
<1>3. DOMAIN disk.dirs[dir] = 1 .. m
  BY DirectoryTyped
<1>4. index \in 1 .. w + 1
  OBVIOUS
<1> HIDE DEF w, m
<1>5. index \in 1 .. w /\ skip + index \in 1 .. m /\ index + 1 \in 1 .. w + 1
  BY <1>1, <1>2, <1>4
<1>6. Entries(cluster)[index] = disk.dirs[dir][skip + index]
  BY <1>1, <1>5
<1>7. Entries(cluster)[index] \in LiveIn(disk, dir)
  BY <1>2, <1>3, <1>5, <1>6 DEF LiveIn, ToSet
<1> QED BY <1>5, <1>6, <1>7 DEF w, m

(* In a directory that hides nothing, no live entry is where a walk of a   *)
(* cluster ends or behind it.                                              *)
LEMMA SkippedNotLive ==
    ASSUME WellFormed(disk), NEW dir \in DOMAIN disk.dirs, NEW skip,
           Stands(disk, cluster, dir, skip), index \in 1 .. Width(disk, cluster) + 1,
           ~InUse, CompactIn(disk, dir)
    PROVE  \A j \in skip + index .. skip + Width(disk, cluster) : ~Live(disk.dirs[dir][j])
<1> DEFINE w == Width(disk, cluster)
           m == Len(disk.dirs[dir])
<1>1. /\ skip \in Nat /\ w \in Nat /\ m \in Nat /\ skip + w <= m
      /\ Len(Entries(cluster)) = w
      /\ \A i \in 1 .. w : Entries(cluster)[i] = disk.dirs[dir][skip + i]
  BY EntriesAre
<1>2. DOMAIN disk.dirs[dir] = 1 .. m
  BY DirectoryTyped
<1>3. index \in 1 .. w + 1
  OBVIOUS
<1>4. index > w \/ ~Live(Entries(cluster)[index])
  BY <1>1, <1>3 DEF InUse
<1> HIDE DEF w, m
<1>5. ASSUME NEW j \in skip + index .. skip + w PROVE ~Live(disk.dirs[dir][j])
  <2>1. index \in 1 .. w /\ skip + index \in 1 .. m /\ j \in 1 .. m
    BY <1>1, <1>3
  <2>2. ~Live(disk.dirs[dir][skip + index])
    BY <1>1, <1>4, <2>1
  <2>3. CASE skip + index < j
    <3>1. disk.dirs[dir][j].kind = "free"
      BY <1>2, <2>1, <2>2, <2>3 DEF CompactIn
    <3> QED BY <3>1 DEF Live
  <2>4. CASE j = skip + index
    BY <2>2, <2>4
  <2> QED BY <1>1, <1>3, <2>3, <2>4
<1> QED BY <1>5 DEF w

(* A live entry that is visited has nothing but live entries before it. *)
LEMMA LiveBefore ==
    ASSUME WellFormed(disk), NEW dir \in DOMAIN disk.dirs, CompactIn(disk, dir),
           NEW k \in 1 .. Len(disk.dirs[dir]), Live(disk.dirs[dir][k]),
           NEW j \in 1 .. k - 1
    PROVE  Live(disk.dirs[dir][j])
<1>1. Len(disk.dirs[dir]) \in Nat /\ DOMAIN disk.dirs[dir] = 1 .. Len(disk.dirs[dir])
  BY DirectoryTyped
<1>2. j \in DOMAIN disk.dirs[dir] /\ k \in DOMAIN disk.dirs[dir] /\ j < k
  BY <1>1
<1>3. disk.dirs[dir][k].kind # "free"
  BY DEF Live
<1> QED BY <1>2, <1>3 DEF CompactIn

(* No other live entry has the name of a file or a directory. *)
LEMMA OneOfAName ==
    ASSUME WellFormed(disk), NEW dir \in DOMAIN disk.dirs,
           NEW i \in 1 .. Len(disk.dirs[dir]), NEW j \in 1 .. Len(disk.dirs[dir]),
           disk.dirs[dir][i].kind \in {"file", "dir"}, Live(disk.dirs[dir][j]),
           disk.dirs[dir][i].name = disk.dirs[dir][j].name
    PROVE  i = j
<1>1. i \in DOMAIN disk.dirs[dir] /\ j \in DOMAIN disk.dirs[dir]
  BY DirectoryTyped
<1> QED BY <1>1 DEF WellFormed

LEMMA FindVisitStep ==
    ASSUME FatInv, VisitEntry, phase = "find"
    PROVE  FatInv'
<1> DEFINE e == Entries(cluster)[index]
           n == Looked
<1>1. /\ WellFormed(disk) /\ Words \in Seq(Seq(STRING)) /\ n \in 0 .. Len(Words)
  BY GivenFacts
<1>2. /\ disk' = disk /\ command' = command /\ path' = path /\ Words' = Words
      /\ tokens' = tokens
      /\ phase' = "find" /\ cluster' = cluster /\ index' = index + 1
      /\ printed' = printed /\ InUse
      /\ \/ e.name = entry.name /\ entry' = e /\ found' = TRUE
         \/ e.name # entry.name /\ entry' = entry /\ found' = found
  BY DEF VisitEntry, Words
<1>3. AtFind
  BY DEF FatInv
<1>4. PICK dir \in DOMAIN disk.dirs : \E skip \in 0 .. Len(disk.dirs[dir]) :
          Finding(disk, Words, n, dir, skip, cluster, index, found, entry)
  BY <1>3 DEF AtFind
<1>5. PICK skip \in 0 .. Len(disk.dirs[dir]) :
          Finding(disk, Words, n, dir, skip, cluster, index, found, entry)
  BY <1>4
<1> DEFINE D == disk.dirs[dir]
           k == skip + index
<1>6. /\ Stands(disk, cluster, dir, skip) /\ index \in 1 .. Width(disk, cluster) + 1
      /\ entry.name = fat_set_entry_name(Words[n]) /\ found \in BOOLEAN
      /\ (found => entry \in LiveIn(disk, dir))
      /\ \A dirs \in Ways(disk, Words) : dirs[n] = dir
      /\ CompactIn(disk, dir) => \A j \in 1 .. skip + index - 1 :
            (Live(D[j]) /\ Sought(D[j], Words, n)) => found /\ entry = D[j]
  BY <1>5 DEF Finding
<1>7. /\ index \in 1 .. Width(disk, cluster)
      /\ index + 1 \in 1 .. Width(disk, cluster) + 1
      /\ k \in 1 .. Len(D) /\ e = D[k] /\ e \in LiveIn(disk, dir)
  BY <1>1, <1>2, <1>6, VisitedIs
<1>8. e \in DirectoryEntry /\ "name" \in DOMAIN e /\ Live(e)
  BY <1>1, <1>7, LiveTyped
<1>9. Len(D) \in Nat /\ skip \in Nat /\ index \in Nat
  BY <1>1, <1>6, <1>7, EntriesAre, DirectoryTyped
<1> HIDE DEF e, n
<1>10. "name" \in DOMAIN entry'
  BY <1>2, <1>8 DEF FatInv, CommandGiven
<1>11. CommandGiven' /\ Looked' = n
  BY <1>2, <1>10, GivenStays DEF n
<1>12. entry'.name = fat_set_entry_name(Words[n]) /\ found' \in BOOLEAN
       /\ (found' => entry' \in LiveIn(disk, dir))
  <2>1. CASE e.name = entry.name /\ entry' = e /\ found' = TRUE
    BY <1>6, <1>7, <2>1
  <2>2. CASE entry' = entry /\ found' = found
    BY <1>6, <2>2
  <2> QED BY <1>2, <2>1, <2>2
<1>13. ASSUME CompactIn(disk, dir), NEW j \in 1 .. skip + (index + 1) - 1,
              Live(D[j]), Sought(D[j], Words, n)
       PROVE  found' /\ entry' = D[j]
  <2>1. D[j].name = entry.name /\ D[j].kind \in {"file", "dir"}
    BY <1>6, <1>13 DEF Sought
  <2>2. j \in 1 .. k /\ j \in 1 .. Len(D)
    BY <1>7, <1>9
  <2>3. CASE e.name = entry.name
    <3>1. j = k
      BY <1>1, <1>7, <1>8, <2>1, <2>2, <2>3, OneOfAName
    <3> QED BY <1>2, <1>7, <2>3, <3>1
  <2>4. CASE e.name # entry.name
    <3>1. j # k
      BY <1>7, <2>1, <2>4
    <3>2. j \in 1 .. skip + index - 1
      BY <1>9, <2>2, <3>1
    <3>3. found /\ entry = D[j]
      BY <1>6, <1>13, <3>2
    <3> QED BY <1>2, <2>4, <3>3
  <2> QED BY <2>3, <2>4
<1>14. Finding(disk, Words, n, dir, skip, cluster, index + 1, found', entry')
  BY <1>6, <1>7, <1>12, <1>13 DEF Finding
<1>15. \E d \in DOMAIN disk.dirs : \E s \in 0 .. Len(disk.dirs[d]) :
          Finding(disk, Words, n, d, s, cluster, index + 1, found', entry')
  BY <1>14
<1>16. printed' = <<>> /\ Looked' > 0
  BY <1>2, <1>3, <1>11 DEF AtFind, n
<1>17. AtFind'
  BY <1>2, <1>11, <1>15, <1>16, Zenon DEF AtFind
<1> QED BY <1>2, <1>11, <1>17 DEF FatInv

LEMMA ListVisitStep ==
    ASSUME FatInv, VisitEntry, phase = "list"
    PROVE  FatInv'
<1> DEFINE e == Entries(cluster)[index]
<1>1. WellFormed(disk)
  BY GivenFacts
<1>2. /\ disk' = disk /\ command' = command /\ path' = path /\ Words' = Words
      /\ tokens' = tokens
      /\ phase' = "list" /\ cluster' = cluster /\ index' = index + 1
      /\ printed' = Append(printed, e) /\ InUse /\ entry' = entry
  BY DEF VisitEntry, Words
<1>3. AtList
  BY DEF FatInv
<1>4. PICK dir \in DOMAIN disk.dirs : \E skip \in 0 .. Len(disk.dirs[dir]) :
          /\ Listing(disk, dir, skip, cluster, index, printed)
          /\ \A d \in DOMAIN disk.dirs : ListsIn(disk, path, d) => d = dir
  BY <1>3 DEF AtList
<1>5. PICK skip \in 0 .. Len(disk.dirs[dir]) :
          /\ Listing(disk, dir, skip, cluster, index, printed)
          /\ \A d \in DOMAIN disk.dirs : ListsIn(disk, path, d) => d = dir
  BY <1>4
<1> DEFINE D == disk.dirs[dir]
           k == skip + index
           p == Append(printed, e)
<1>6. /\ Stands(disk, cluster, dir, skip) /\ index \in 1 .. Width(disk, cluster) + 1
      /\ printed \in Seq(LiveIn(disk, dir))
      /\ CompactIn(disk, dir) => Shown(disk, dir, skip + index - 1, printed)
  BY <1>5 DEF Listing
<1>7. /\ index \in 1 .. Width(disk, cluster)
      /\ index + 1 \in 1 .. Width(disk, cluster) + 1
      /\ k \in 1 .. Len(D) /\ e = D[k] /\ e \in LiveIn(disk, dir)
  BY <1>1, <1>2, <1>6, VisitedIs
<1>8. Live(e)
  BY <1>1, <1>7, LiveTyped
<1>9. Len(D) \in Nat /\ skip \in Nat /\ index \in Nat
  BY <1>1, <1>6, <1>7, EntriesAre, DirectoryTyped
<1> HIDE DEF e
<1>10. /\ p \in Seq(LiveIn(disk, dir)) /\ Len(p) = Len(printed) + 1
       /\ Len(printed) \in Nat
       /\ \A i \in 1 .. Len(printed) : p[i] = printed[i]
       /\ p[Len(printed) + 1] = e
  BY <1>6, <1>7
<1> HIDE DEF p
<1>11. ASSUME CompactIn(disk, dir)
       PROVE  Shown(disk, dir, skip + (index + 1) - 1, p)
  <2>1. /\ Len(printed) <= k - 1
        /\ \A i \in 1 .. Len(printed) : printed[i] = D[i]
        /\ \A i \in Len(printed) + 1 .. k - 1 : ~Live(D[i])
    BY <1>6, <1>9, <1>11 DEF Shown
  <2>2. ASSUME Len(printed) < k - 1 PROVE FALSE
    <3>1. k - 1 \in Len(printed) + 1 .. k - 1 /\ k - 1 \in 1 .. k - 1
      BY <1>9, <1>10, <2>2
    <3>2. ~Live(D[k - 1])
      BY <2>1, <3>1
    <3>3. Live(D[k - 1])
      BY <1>1, <1>7, <1>8, <1>11, <3>1, LiveBefore
    <3> QED BY <3>2, <3>3
  <2>3. Len(printed) = k - 1 /\ Len(p) = k /\ k = skip + (index + 1) - 1
    BY <1>9, <1>10, <2>1, <2>2
  <2>4. \A i \in 1 .. Len(p) : p[i] = D[i]
    BY <1>7, <1>10, <2>1, <2>3
  <2> QED BY <1>9, <2>3, <2>4 DEF Shown
<1>12. Listing(disk, dir, skip, cluster, index + 1, p)
  BY <1>6, <1>7, <1>10, <1>11 DEF Listing
<1>13. "name" \in DOMAIN entry'
  BY <1>2 DEF FatInv, CommandGiven
<1>14. CommandGiven'
  BY <1>2, <1>13, GivenStays
<1>15. \E d \in DOMAIN disk.dirs : \E s \in 0 .. Len(disk.dirs[d]) :
          /\ Listing(disk, d, s, cluster, index + 1, p)
          /\ \A x \in DOMAIN disk.dirs : ListsIn(disk, path, x) => x = d
  BY <1>5, <1>12
<1>16. AtList'
  BY <1>2, <1>3, <1>15, Zenon DEF AtList, p
<1> QED BY <1>2, <1>14, <1>16 DEF FatInv

LEMMA NextClusterStep == ASSUME FatInv, NextCluster PROVE FatInv'
<1> DEFINE n == Looked
           next == fat_get_fat(cluster)
<1>1. WellFormed(disk)
  BY GivenFacts
<1>2. /\ disk' = disk /\ command' = command /\ path' = path /\ Words' = Words
      /\ tokens' = tokens
      /\ phase' = phase /\ cluster' = next /\ index' = 1 /\ printed' = printed
      /\ entry' = entry /\ found' = found /\ phase \in {"find", "list"}
      /\ ~InUse /\ cluster # EMPTY /\ next < LAST
  BY DEF NextCluster, Words
<1>3. "name" \in DOMAIN entry'
  BY <1>2 DEF FatInv, CommandGiven
<1>4. CommandGiven' /\ Looked' = n
  BY <1>2, <1>3, GivenStays
<1> HIDE DEF n
<1>5. ASSUME NEW dir \in DOMAIN disk.dirs, NEW skip, Stands(disk, cluster, dir, skip)
      PROVE  /\ Stands(disk, next, dir, skip + DIR_ENTRIES)
             /\ Width(disk, cluster) = DIR_ENTRIES
             /\ 1 \in 1 .. Width(disk, next) + 1
             /\ skip + DIR_ENTRIES \in 0 .. Len(disk.dirs[dir])
             /\ skip \in Nat /\ DIR_ENTRIES \in Nat
  <2>1. Stands(disk, next, dir, skip + DIR_ENTRIES) /\ Width(disk, cluster) = DIR_ENTRIES
    BY <1>1, <1>2, <1>5, NextStands
  <2> HIDE DEF next
  <2>2. /\ Width(disk, next) \in Nat /\ Len(disk.dirs[dir]) \in Nat
        /\ skip + DIR_ENTRIES + Width(disk, next) <= Len(disk.dirs[dir])
    BY <1>1, <2>1, EntriesAre
  <2>3. skip \in Nat
    BY <1>1, <1>5, EntriesAre
  <2> QED BY <2>1, <2>2, <2>3, SizesOfClusters
<1> HIDE DEF next
<1>6. CASE phase = "find"
  <2>1. AtFind
    BY <1>6 DEF FatInv
  <2>2. PICK dir \in DOMAIN disk.dirs : \E s \in 0 .. Len(disk.dirs[dir]) :
            Finding(disk, Words, n, dir, s, cluster, index, found, entry)
    BY <2>1 DEF AtFind, n
  <2>3. PICK skip \in 0 .. Len(disk.dirs[dir]) :
            Finding(disk, Words, n, dir, skip, cluster, index, found, entry)
    BY <2>2
  <2> DEFINE D == disk.dirs[dir]
             to == skip + DIR_ENTRIES
  <2>4. /\ Stands(disk, cluster, dir, skip) /\ index \in 1 .. Width(disk, cluster) + 1
        /\ entry.name = fat_set_entry_name(Words[n]) /\ found \in BOOLEAN
        /\ (found => entry \in LiveIn(disk, dir))
        /\ \A dirs \in Ways(disk, Words) : dirs[n] = dir
        /\ CompactIn(disk, dir) => \A j \in 1 .. skip + index - 1 :
              (Live(D[j]) /\ Sought(D[j], Words, n)) => found /\ entry = D[j]
    BY <2>3 DEF Finding
  <2>5. /\ Stands(disk, next, dir, to) /\ Width(disk, cluster) = DIR_ENTRIES
        /\ 1 \in 1 .. Width(disk, next) + 1 /\ to \in 0 .. Len(D)
        /\ skip \in Nat /\ DIR_ENTRIES \in Nat
    BY <1>5, <2>4
  <2>6. ASSUME CompactIn(disk, dir), NEW j \in 1 .. to + 1 - 1,
               Live(D[j]), Sought(D[j], Words, n)
        PROVE  found /\ entry = D[j]
    <3>1. \A i \in skip + index .. skip + Width(disk, cluster) : ~Live(D[i])
      BY <1>1, <1>2, <2>4, <2>6, SkippedNotLive
    <3>2. /\ index \in 1 .. DIR_ENTRIES + 1 /\ Width(disk, cluster) = DIR_ENTRIES
          /\ skip \in Nat /\ DIR_ENTRIES \in Nat /\ j \in 1 .. to
      BY <2>4, <2>5, <2>6
    <3>3. j \in 1 .. skip + index - 1 \/ j \in skip + index .. skip + Width(disk, cluster)
      BY <3>2
    <3>4. Live(D[j])
      BY <2>6
    <3>5. j \in 1 .. skip + index - 1
      BY <3>1, <3>3, <3>4
    <3> QED BY <2>4, <2>6, <3>5
  <2> HIDE DEF to
  <2>7. Finding(disk, Words, n, dir, to, next, 1, found, entry)
    BY <2>4, <2>5, <2>6 DEF Finding
  <2>8. \E d \in DOMAIN disk.dirs : \E s \in 0 .. Len(disk.dirs[d]) :
            Finding(disk, Words, n, d, s, next, 1, found, entry)
    BY <2>5, <2>7
  <2>9. printed' = <<>> /\ Looked' > 0
    BY <1>2, <1>4, <2>1 DEF AtFind, n
  <2>10. AtFind'
    BY <1>2, <1>4, <2>8, <2>9, Zenon DEF AtFind
  <2> QED BY <1>2, <1>4, <1>6, <2>10 DEF FatInv
<1>7. CASE phase = "list"
  <2>1. AtList
    BY <1>7 DEF FatInv
  <2>2. PICK dir \in DOMAIN disk.dirs : \E s \in 0 .. Len(disk.dirs[dir]) :
            /\ Listing(disk, dir, s, cluster, index, printed)
            /\ \A d \in DOMAIN disk.dirs : ListsIn(disk, path, d) => d = dir
    BY <2>1 DEF AtList
  <2>3. PICK skip \in 0 .. Len(disk.dirs[dir]) :
            /\ Listing(disk, dir, skip, cluster, index, printed)
            /\ \A d \in DOMAIN disk.dirs : ListsIn(disk, path, d) => d = dir
    BY <2>2
  <2> DEFINE D == disk.dirs[dir]
             to == skip + DIR_ENTRIES
  <2>4. /\ Stands(disk, cluster, dir, skip) /\ index \in 1 .. Width(disk, cluster) + 1
        /\ printed \in Seq(LiveIn(disk, dir))
        /\ CompactIn(disk, dir) => Shown(disk, dir, skip + index - 1, printed)
    BY <2>3 DEF Listing
  <2>5. /\ Stands(disk, next, dir, to) /\ Width(disk, cluster) = DIR_ENTRIES
        /\ 1 \in 1 .. Width(disk, next) + 1 /\ to \in 0 .. Len(D)
        /\ skip \in Nat /\ DIR_ENTRIES \in Nat
    BY <1>5, <2>4
  <2>6. ASSUME CompactIn(disk, dir)
        PROVE  Shown(disk, dir, to + 1 - 1, printed)
    <3>1. \A i \in skip + index .. skip + Width(disk, cluster) : ~Live(D[i])
      BY <1>1, <1>2, <2>4, <2>6, SkippedNotLive
    <3>2. /\ Len(printed) <= skip + index - 1 /\ Len(printed) \in Nat
          /\ \A i \in 1 .. Len(printed) : printed[i] = D[i]
          /\ \A i \in Len(printed) + 1 .. skip + index - 1 : ~Live(D[i])
      BY <2>4, <2>6 DEF Shown
    <3>3. ASSUME NEW i \in Len(printed) + 1 .. to + 1 - 1 PROVE ~Live(D[i])
      <4>1. i \in Len(printed) + 1 .. skip + index - 1
            \/ i \in skip + index .. skip + Width(disk, cluster)
        BY <2>4, <2>5, <3>2
      <4> QED BY <3>1, <3>2, <4>1
    <3>4. Len(printed) <= to + 1 - 1
      BY <2>4, <2>5, <3>2
    <3> QED BY <3>2, <3>3, <3>4 DEF Shown
  <2> HIDE DEF to
  <2>7. Listing(disk, dir, to, next, 1, printed)
    BY <2>4, <2>5, <2>6 DEF Listing
  <2>8. \E d \in DOMAIN disk.dirs : \E s \in 0 .. Len(disk.dirs[d]) :
            /\ Listing(disk, d, s, next, 1, printed)
            /\ \A x \in DOMAIN disk.dirs : ListsIn(disk, path, x) => x = d
    BY <2>3, <2>5, <2>7
  <2>9. AtList'
    BY <1>2, <2>1, <2>8, Zenon DEF AtList
  <2> QED BY <1>2, <1>4, <1>7, <2>9 DEF FatInv
<1> QED BY <1>2, <1>6, <1>7

LEMMA FindEndsStep ==
    ASSUME FatInv, WalkEnds, phase = "find"
    PROVE  FatInv'
<1> DEFINE n == Looked
<1>1. /\ WellFormed(disk) /\ EMPTY \in DOMAIN disk.dirs
      /\ Words \in Seq(Seq(STRING)) /\ Len(Words) \in Nat
      /\ n \in 0 .. Len(Words) /\ tokens = Rest(Words, n)
  BY GivenFacts
<1>2. /\ disk' = disk /\ command' = command /\ path' = path /\ Words' = Words
      /\ tokens' = tokens
      /\ phase' = "path" /\ printed' = printed /\ entry' = entry
      /\ cluster' = (IF found THEN entry.cluster ELSE EMPTY)
      /\ ~InUse /\ (cluster # EMPTY => fat_get_fat(cluster) >= LAST)
  BY DEF WalkEnds, Words
<1>3. "name" \in DOMAIN entry'
  BY <1>2 DEF FatInv, CommandGiven
<1>4. CommandGiven' /\ Looked' = n
  BY <1>2, <1>3, GivenStays
<1>5. /\ disk \in Disks /\ command \in {"ls", "cat"}
      /\ (command = "ls" => path \in LsPaths) /\ (command = "cat" => path \in CatPaths)
  BY DEF FatInv, CommandGiven
<1>6. AtFind
  BY DEF FatInv
<1>7. PICK dir \in DOMAIN disk.dirs : \E s \in 0 .. Len(disk.dirs[dir]) :
          Finding(disk, Words, n, dir, s, cluster, index, found, entry)
  BY <1>6 DEF AtFind
<1>8. PICK skip \in 0 .. Len(disk.dirs[dir]) :
          Finding(disk, Words, n, dir, skip, cluster, index, found, entry)
  BY <1>7
<1>9. n > 0 /\ printed = <<>>
  BY <1>6 DEF AtFind
<1> HIDE DEF n
<1> DEFINE D == disk.dirs[dir]
<1>10. /\ Stands(disk, cluster, dir, skip) /\ index \in 1 .. Width(disk, cluster) + 1
       /\ entry.name = fat_set_entry_name(Words[n])
       /\ (found => entry \in LiveIn(disk, dir))
       /\ \A dirs \in Ways(disk, Words) : dirs[n] = dir
       /\ CompactIn(disk, dir) => \A j \in 1 .. skip + index - 1 :
             (Live(D[j]) /\ Sought(D[j], Words, n)) => found /\ entry = D[j]
  BY <1>8 DEF Finding
<1>11. skip + Width(disk, cluster) = Len(D)
  BY <1>1, <1>2, <1>10, LastStands
<1>12. skip \in Nat /\ Width(disk, cluster) \in Nat
  BY <1>1, <1>10, EntriesAre
<1>13. ASSUME NEW dirs \in Ways(disk, Words), NEW x \in LiveIn(disk, dirs[n]),
              Sought(x, Words, n)
       PROVE  entry = x /\ cluster' = x.cluster
  <2>1. dirs[n] = dir
    BY <1>10
  <2>2. CompactIn(disk, dir)
    BY <1>1, <1>9, <2>1, WayTyped
  <2>3. PICK j \in 1 .. Len(D) : x = D[j]
    BY <1>1, <2>1, LiveTyped
  <2>4. Live(x)
    BY <1>1, <2>1, LiveTyped
  <2>5. \A i \in skip + index .. skip + Width(disk, cluster) : ~Live(D[i])
    BY <1>1, <1>2, <1>10, <2>2, SkippedNotLive
  <2>6. j \in 1 .. skip + index - 1
    BY <1>10, <1>11, <1>12, <2>3, <2>4, <2>5
  <2>7. found /\ entry = x
    BY <1>10, <1>13, <2>2, <2>3, <2>4, <2>6
  <2> QED BY <1>2, <2>7
<1>14. Answers(disk, Words, n, entry, cluster')
  BY <1>9, <1>13 DEF Answers
<1>15. ASSUME tokens # <<>> \/ command = "ls"
       PROVE  cluster' \in DOMAIN disk.dirs
  <2>1. CASE ~found
    BY <1>1, <1>2, <2>1
  <2>2. CASE found
    <3>1. entry \in ToSet(disk.dirs[dir]) /\ Live(entry)
      BY <1>10, <2>2 DEF LiveIn
    <3>2. n \in 1 .. Len(Words) /\ DOMAIN Words = 1 .. Len(Words)
      BY <1>1, <1>9
    <3>3. CASE command = "ls"
      <4>1. path \in LsPaths \ {NoArgument} /\ Words = path
        BY <1>5, <3>2, <3>3 DEF Words
      <4> QED BY <1>2, <1>5, <1>10, <2>2, <3>1, <3>2, <4>1, PathAssumption
    <3>4. CASE command = "cat" /\ tokens # <<>>
      <4>1. n \in 1 .. Len(Words) - 1
        BY <1>1, <1>9, <3>4, RestIs
      <4>2. n \in DOMAIN Front(Words) /\ Front(Words)[n] = Words[n]
        BY <1>1, <4>1 DEF Front
      <4>3. path \in CatPaths \ {<<>>} /\ Words = path
        BY <1>5, <3>2, <3>4 DEF Words
      <4> QED BY <1>2, <1>5, <1>10, <2>2, <3>1, <3>4, <4>2, <4>3, PathAssumption
    <3> QED BY <1>5, <1>15, <3>3, <3>4
  <2> QED BY <2>1, <2>2
<1>16. AtPath'
  BY <1>2, <1>4, <1>9, <1>14, <1>15 DEF AtPath
<1> QED BY <1>2, <1>4, <1>16 DEF FatInv

LEMMA ListEndsStep ==
    ASSUME FatInv, WalkEnds, phase = "list"
    PROVE  FatInv'
<1>1. WellFormed(disk)
  BY GivenFacts
<1>2. /\ disk' = disk /\ command' = command /\ path' = path /\ Words' = Words
      /\ tokens' = tokens
      /\ phase' = "prompt" /\ printed' = printed /\ entry' = entry
      /\ ~InUse /\ (cluster # EMPTY => fat_get_fat(cluster) >= LAST)
  BY DEF WalkEnds, Words
<1>3. "name" \in DOMAIN entry'
  BY <1>2 DEF FatInv, CommandGiven
<1>4. CommandGiven'
  BY <1>2, <1>3, GivenStays
<1>5. AtList
  BY DEF FatInv
<1>6. PICK dir \in DOMAIN disk.dirs : \E s \in 0 .. Len(disk.dirs[dir]) :
          /\ Listing(disk, dir, s, cluster, index, printed)
          /\ \A d \in DOMAIN disk.dirs : ListsIn(disk, path, d) => d = dir
  BY <1>5 DEF AtList
<1>7. PICK skip \in 0 .. Len(disk.dirs[dir]) :
          /\ Listing(disk, dir, skip, cluster, index, printed)
          /\ \A d \in DOMAIN disk.dirs : ListsIn(disk, path, d) => d = dir
  BY <1>6
<1> DEFINE D == disk.dirs[dir]
<1>8. /\ Stands(disk, cluster, dir, skip) /\ index \in 1 .. Width(disk, cluster) + 1
      /\ printed \in Seq(LiveIn(disk, dir))
      /\ CompactIn(disk, dir) => Shown(disk, dir, skip + index - 1, printed)
  BY <1>7 DEF Listing
<1>9. skip + Width(disk, cluster) = Len(D)
  BY <1>1, <1>2, <1>8, LastStands
<1>10. skip \in Nat /\ Width(disk, cluster) \in Nat
  BY <1>1, <1>8, EntriesAre
<1>11. ASSUME CompactIn(disk, dir) PROVE Shown(disk, dir, Len(D), printed)
  <2>1. \A i \in skip + index .. skip + Width(disk, cluster) : ~Live(D[i])
    BY <1>1, <1>2, <1>8, <1>11, SkippedNotLive
  <2>2. /\ Len(printed) <= skip + index - 1 /\ Len(printed) \in Nat
        /\ \A i \in 1 .. Len(printed) : printed[i] = D[i]
        /\ \A i \in Len(printed) + 1 .. skip + index - 1 : ~Live(D[i])
    BY <1>8, <1>11 DEF Shown
  <2>3. ASSUME NEW i \in Len(printed) + 1 .. Len(D) PROVE ~Live(D[i])
    <3>1. i \in Len(printed) + 1 .. skip + index - 1
          \/ i \in skip + index .. skip + Width(disk, cluster)
      BY <1>8, <1>9, <1>10, <2>2
    <3> QED BY <2>1, <2>2, <3>1
  <2>4. Len(printed) <= Len(D)
    BY <1>8, <1>9, <1>10, <2>2
  <2> QED BY <2>2, <2>3, <2>4 DEF Shown
<1>12. Listed(disk, path, dir, printed)
  BY <1>7, <1>8, <1>11 DEF Listed
<1>13. command = "ls"
  BY <1>5 DEF AtList
<1>14. AtPrompt'
  BY <1>2, <1>12, <1>13 DEF AtPrompt
<1> QED BY <1>2, <1>4, <1>14 DEF FatInv

(* A file with contents has a chain that is just long enough. *)
LEMMA FileFills ==
    ASSUME WellFormed(disk), NEW dir \in DOMAIN disk.dirs, NEW e \in LiveIn(disk, dir),
           e.kind = "file", e.size > 0
    PROVE  /\ e.size \in Nat /\ e.cluster # EMPTY
           /\ \A chain \in disk.chains : chain[1] = e.cluster =>
                 e.size \in (Len(chain) - 1) * CLUSTER_SIZE + 1 .. Len(chain) * CLUSTER_SIZE
<1>1. e \in ToSet(disk.dirs[dir])
  BY DEF LiveIn
<1>2. PICK c \in disk.chains :
         /\ c[1] = e.cluster
         /\ e.size \in (Len(c) - 1) * CLUSTER_SIZE + 1 .. Len(c) * CLUSTER_SIZE
  BY <1>1 DEF WellFormed
<1>3. e.cluster # EMPTY
  BY <1>2, ChainBegins, ChainIs, ClusterIsNat
<1>4. ASSUME NEW chain \in disk.chains, chain[1] = e.cluster PROVE chain = c
  BY <1>2, <1>4, ChainBegins, ChainIs
<1>5. e \in DirectoryEntry
  BY LiveTyped
<1>6. e.size \in Nat
  BY <1>5 DEF DirectoryEntry
<1> QED BY <1>2, <1>3, <1>4, <1>6

LEMMA PathEndsStep == ASSUME FatInv, PathEnds PROVE FatInv'
<1>1. /\ WellFormed(disk) /\ EMPTY \in DOMAIN disk.dirs
      /\ Words \in Seq(Seq(STRING)) /\ Len(Words) \in Nat
      /\ Looked \in 0 .. Len(Words) /\ tokens = Rest(Words, Looked)
  BY GivenFacts
<1>2. /\ disk' = disk /\ command' = command /\ path' = path /\ Words' = Words
      /\ tokens' = tokens
      /\ printed' = printed /\ entry' = entry /\ cluster' = cluster
      /\ phase = "path" /\ tokens = <<>>
  BY DEF PathEnds, Words
<1>3. \/ path # NoArgument /\ cluster = EMPTY /\ phase' = "prompt"
      \/ /\ path = NoArgument \/ cluster # EMPTY
         /\ phase' = (IF command = "ls" THEN "list" ELSE "read")
         /\ index' = 1 /\ left' = entry.size
  BY DEF PathEnds
<1>4. AtPath
  BY <1>2 DEF FatInv
<1>5. command \in {"ls", "cat"} /\ (command = "cat" => path \in CatPaths)
  BY <1>2 DEF FatInv, CommandGiven
<1>6. Looked = Len(Words)
  BY <1>1, <1>2, RestIs
<1>7. printed = <<>> /\ Answers(disk, Words, Len(Words), entry, cluster)
  BY <1>4, <1>6 DEF AtPath
<1>8. "name" \in DOMAIN entry'
  BY <1>2 DEF FatInv, CommandGiven
<1>9. phase' \in {"prompt", "list", "read"} => CommandGiven'
  BY <1>2, <1>8, GivenStays
<1>10. ASSUME NEW dir \in DOMAIN disk.dirs, ListsIn(disk, path, dir)
       PROVE  cluster = dir /\ (path # NoArgument => dir # EMPTY)
  <2>1. CASE path = NoArgument
    <3>1. dir = EMPTY
      BY <1>10, <2>1 DEF ListsIn
    <3>2. Len(Words) = 0
      BY <2>1 DEF Words
    <3>3. cluster = EMPTY
      BY <1>7, <3>2 DEF Answers
    <3> QED BY <2>1, <3>1, <3>3
  <2>2. CASE path # NoArgument
    <3>1. PICK parent \in DOMAIN disk.dirs : \E e \in LiveIn(disk, parent) :
              e.kind = "dir" /\ e.cluster = dir /\ dir # EMPTY /\ DenotesIn(disk, path, e)
      BY <1>10, <2>2 DEF ListsIn
    <3>2. PICK e \in LiveIn(disk, parent) :
              e.kind = "dir" /\ e.cluster = dir /\ dir # EMPTY /\ DenotesIn(disk, path, e)
      BY <3>1
    <3>3. Words = path /\ Words # <<>>
      BY <2>2, <3>2 DEF Words, DenotesIn
    <3>4. cluster = e.cluster
      BY <1>1, <1>7, <3>2, <3>3, DenotedFound
    <3> QED BY <3>2, <3>4
  <2> QED BY <2>1, <2>2
<1>11. ASSUME command = "cat", NEW dir \in DOMAIN disk.dirs,
              NEW e \in LiveIn(disk, dir), FileAt(disk, path, dir, e)
       PROVE  /\ entry = e /\ cluster = e.cluster /\ e.cluster # EMPTY
              /\ e.size \in Nat
  <2>1. e.kind = "file" /\ e.size > 0 /\ DenotesIn(disk, path, e)
    BY <1>11 DEF FileAt
  <2>2. Words = path /\ Words # <<>>
    <3>1. path # NoArgument
      BY <1>5, <1>11, FatAssumption
    <3> QED BY <2>1, <3>1 DEF Words, DenotesIn
  <2>3. entry = e /\ cluster = e.cluster
    BY <1>1, <1>7, <2>1, <2>2, DenotedFound
  <2>4. e.cluster # EMPTY /\ e.size \in Nat
    BY <1>1, <2>1, FileFills
  <2> QED BY <2>3, <2>4
<1>12. CASE path # NoArgument /\ cluster = EMPTY /\ phase' = "prompt"
  <2>1. Listed(disk, path, EMPTY, <<>>)
    BY <1>10, <1>12 DEF Listed
  <2>2. \A dir \in DOMAIN disk.dirs : \A e \in LiveIn(disk, dir) :
            command = "cat" => ~FileAt(disk, path, dir, e)
    BY <1>11, <1>12
  <2>3. AtPrompt'
    BY <1>1, <1>2, <1>7, <2>1, <2>2 DEF AtPrompt
  <2> QED BY <1>9, <1>12, <2>3 DEF FatInv
<1>13. CASE command = "ls" /\ phase' = "list" /\ index' = 1
  <2>1. cluster \in DOMAIN disk.dirs
    BY <1>4, <1>13 DEF AtPath
  <2>2. Stands(disk, cluster, cluster, 0)
    BY <1>1, <2>1, StandsAtBeginning
  <2>3. Width(disk, cluster) \in Nat /\ Len(disk.dirs[cluster]) \in Nat
    BY <1>1, <2>2, EntriesAre
  <2>4. Shown(disk, cluster, 0 + 1 - 1, <<>>)
    BY DEF Shown
  <2>5. Listing(disk, cluster, 0, cluster, 1, <<>>)
    BY <2>2, <2>3, <2>4 DEF Listing
  <2>6. \E dir \in DOMAIN disk.dirs : \E skip \in 0 .. Len(disk.dirs[dir]) :
            /\ Listing(disk, dir, skip, cluster, 1, <<>>)
            /\ \A d \in DOMAIN disk.dirs : ListsIn(disk, path, d) => d = dir
    <3>1. 0 \in 0 .. Len(disk.dirs[cluster])
      BY <2>3
    <3>2. \A d \in DOMAIN disk.dirs : ListsIn(disk, path, d) => d = cluster
      BY <1>10
    <3> QED BY <2>1, <2>5, <3>1, <3>2, Zenon
  <2>7. AtList'
    BY <1>2, <1>7, <1>13, <2>6, Zenon DEF AtList
  <2> QED BY <1>9, <1>13, <2>7 DEF FatInv
<1>14. CASE command = "cat" /\ phase' = "read" /\ left' = entry.size
  <2>1. ASSUME NEW dir \in DOMAIN disk.dirs, NEW e \in LiveIn(disk, dir),
               FileAt(disk, path, dir, e), NEW chain \in disk.chains,
               chain[1] = e.cluster
        PROVE  Reading(chain, e.size, cluster, entry.size, <<>>)
    <3>1. entry = e /\ cluster = e.cluster /\ e.size \in Nat
      BY <1>11, <1>14, <2>1
    <3>2. Len(chain) \in Nat
      BY <1>1, ChainBegins
    <3>3. 0 * CLUSTER_SIZE = 0
      BY SizesOfClusters
    <3>4. entry.size = IF 0 * CLUSTER_SIZE <= e.size
                       THEN e.size - 0 * CLUSTER_SIZE ELSE 0
      BY <3>1, <3>3
    <3>5. <<>> \in Seq(Nat \X Nat) /\ Len(<<>>) = 0 /\ 1 .. 0 = {} /\ 0 + 1 = 1
      OBVIOUS
    <3> QED BY <2>1, <3>1, <3>2, <3>4, <3>5 DEF Reading
  <2>2. AtRead'
    BY <1>2, <1>7, <1>14, <2>1 DEF AtRead
  <2> QED BY <1>9, <1>14, <2>2 DEF FatInv
<1> QED BY <1>3, <1>5, <1>12, <1>13, <1>14

(* The pieces of a file: a whole cluster as long as there is one left. *)
LEMMA ReadingStep ==
    ASSUME WellFormed(disk), NEW chain \in disk.chains, NEW size \in Nat,
           size \in (Len(chain) - 1) * CLUSTER_SIZE + 1 .. Len(chain) * CLUSTER_SIZE,
           NEW c, NEW l, NEW p, Reading(chain, size, c, l, p), l > 0
    PROVE  /\ l >= CLUSTER_SIZE =>
                 Reading(chain, size, fat_get_fat(c), l - CLUSTER_SIZE,
                         Append(p, <<c, CLUSTER_SIZE>>))
           /\ l < CLUSTER_SIZE => Reading(chain, size, c, 0, Append(p, <<c, l>>))
<1> DEFINE w == CLUSTER_SIZE
           m == Len(chain)
           n == Len(p)
<1>1. /\ p \in Seq(Nat \X Nat) /\ n \in Nat /\ n <= m
      /\ \A k \in 1 .. n : p[k] = Piece(chain, k, size)
      /\ n < m => c = chain[n + 1]
      /\ l = IF n * w <= size THEN size - n * w ELSE 0
  BY DEF Reading
<1>2. m \in Nat /\ DOMAIN chain = 1 .. m /\ w \in Nat \ {0} /\ size <= m * w
      /\ size \in Nat
  BY ChainBegins, SizesOfClusters
<1> HIDE DEF w, m, n
<1>3. n * w \in Nat /\ m * w \in Nat /\ (n + 1) * w = n * w + w
      /\ (n + 1) * w \in Nat /\ (m <= n => m * w <= n * w)
  <2>1. n * w = w * n /\ m * w = w * m /\ (n + 1) * w = w * (n + 1)
        /\ w * (n + 1) = w * n + w /\ w * n \in Nat /\ w * m \in Nat
        /\ (m <= n => w * m <= w * n)
    BY <1>1, <1>2, Multiples
  <2> QED BY <1>2, <2>1
<1>4. n * w < size /\ l = size - n * w
  BY <1>1, <1>2, <1>3
<1>5. n < m
  BY <1>1, <1>2, <1>3, <1>4
<1>6. n + 1 \in 1 .. m /\ c = chain[n + 1] /\ c \in Nat
  <2>1. n + 1 \in 1 .. m /\ c = chain[n + 1]
    BY <1>1, <1>2, <1>5
  <2>2. chain[n + 1] \in 2 .. LAST - 1
    BY <1>2, <2>1, ChainIs
  <2> QED BY <2>1, <2>2, ClusterIsNat
<1>7. n + 1 < m => fat_get_fat(c) = chain[(n + 1) + 1]
  <2>1. fat_get_fat(c) = Table(c)
    BY <1>6, Unpacked
  <2>2. n + 1 \in DOMAIN chain
    BY <1>2, <1>6
  <2>3. Table(chain[n + 1]) = IF n + 1 = Len(chain) THEN END_OF_CHAIN
                              ELSE chain[(n + 1) + 1]
    BY <2>2, TableOfChain
  <2>4. Table(c) = IF n + 1 = m THEN END_OF_CHAIN ELSE chain[(n + 1) + 1]
    BY <1>6, <2>3 DEF m
  <2>5. n + 1 < m => n + 1 # m
    BY <1>1, <1>2
  <2> QED BY <2>1, <2>4, <2>5
<1>8. ASSUME NEW bytes \in Nat, NEW c2, NEW l2,
             <<c, bytes>> = Piece(chain, n + 1, size),
             n + 1 < m => c2 = chain[(n + 1) + 1],
             l2 = IF (n + 1) * w <= size THEN size - (n + 1) * w ELSE 0
      PROVE  Reading(chain, size, c2, l2, Append(p, <<c, bytes>>))
  <2> DEFINE q == Append(p, <<c, bytes>>)
  <2>1. <<c, bytes>> \in Nat \X Nat
    BY <1>6
  <2>2. /\ q \in Seq(Nat \X Nat) /\ Len(q) = n + 1
        /\ \A k \in 1 .. n : q[k] = p[k]
        /\ q[n + 1] = <<c, bytes>>
    <3> HIDE <1>8
    <3> QED BY <1>1, <2>1 DEF n
  <2> HIDE DEF q
  <2>3. \A k \in 1 .. Len(q) : q[k] = Piece(chain, k, size)
    <3>1. ASSUME NEW k \in 1 .. n PROVE q[k] = Piece(chain, k, size)
      BY <1>1, <2>2, <3>1
    <3>2. q[n + 1] = Piece(chain, n + 1, size)
      BY <1>8, <2>2
    <3>3. \A k \in 1 .. Len(q) : k \in 1 .. n \/ k = n + 1
      BY <1>1, <2>2
    <3> QED BY <3>1, <3>2, <3>3
  <2>4. Len(q) <= Len(chain) /\ (Len(q) < Len(chain) => c2 = chain[Len(q) + 1])
    BY <1>2, <1>5, <1>8, <2>2, <1>1 DEF m
  <2>5. l2 = IF Len(q) * CLUSTER_SIZE <= size THEN size - Len(q) * CLUSTER_SIZE ELSE 0
    BY <1>8, <2>2 DEF w
  <2>6. Reading(chain, size, c2, l2, q)
    BY <2>2, <2>3, <2>4, <2>5 DEF Reading
  <2> QED BY <2>6 DEF q
<1>9. Piece(chain, n + 1, size)
        = <<c, IF (n + 1) * w <= size THEN w ELSE size - ((n + 1) - 1) * w>>
  BY <1>6 DEF Piece, BytesIn, w
<1>10. (n + 1) - 1 = n
  BY <1>1
<1>11. ASSUME l >= w
       PROVE  Reading(chain, size, fat_get_fat(c), l - w, Append(p, <<c, w>>))
  <2>1. (n + 1) * w <= size /\ l - w = size - (n + 1) * w
    BY <1>2, <1>3, <1>4, <1>11
  <2>2. <<c, w>> = Piece(chain, n + 1, size)
    BY <1>9, <2>1
  <2>3. l - w = IF (n + 1) * w <= size THEN size - (n + 1) * w ELSE 0
    BY <2>1
  <2> QED BY <1>2, <1>7, <1>8, <2>2, <2>3
<1>12. ASSUME l < w
       PROVE  Reading(chain, size, c, 0, Append(p, <<c, l>>))
  <2>1. ~((n + 1) * w <= size) /\ l = size - n * w /\ l \in Nat
    BY <1>2, <1>3, <1>4, <1>12
  <2>2. <<c, l>> = Piece(chain, n + 1, size)
    BY <1>9, <1>10, <2>1
  <2>3. ~(n + 1 < m)
    <3>1. size > (m - 1) * w
      BY <1>2, <1>3 DEF w, m
    <3>2. ASSUME n + 1 < m PROVE FALSE
      <4>1. n + 1 \in Nat /\ m - 1 \in Nat /\ n + 1 <= m - 1
        BY <1>1, <1>2, <3>2
      <4>2. w * (n + 1) <= w * (m - 1) /\ (n + 1) * w = w * (n + 1)
            /\ (m - 1) * w = w * (m - 1)
            /\ w * (n + 1) \in Nat /\ w * (m - 1) \in Nat
        BY <1>2, <4>1, Multiples
      <4> QED BY <1>2, <2>1, <3>1, <4>2
    <3> QED BY <3>2
  <2>4. 0 = IF (n + 1) * w <= size THEN size - (n + 1) * w ELSE 0
    BY <2>1
  <2> QED BY <1>8, <2>1, <2>2, <2>3, <2>4
<1> QED BY <1>11, <1>12 DEF w

(* "%s" shows the whole of a piece of a text file. *)
LEMMA TextShown ==
    ASSUME WellFormed(disk), NEW chain \in disk.chains, NEW size \in Nat,
           size <= Len(chain) * CLUSTER_SIZE, TextIn(disk, chain, size),
           NEW c, NEW l, NEW p, Reading(chain, size, c, l, p), l > 0,
           NEW n \in Nat, n <= CLUSTER_SIZE, n <= l
    PROVE  BeforeZero(c, n) = n
<1> DEFINE w == CLUSTER_SIZE
           m == Len(chain)
           k == Len(p)
<1>1. /\ k \in Nat /\ k <= m /\ (k < m => c = chain[k + 1])
      /\ l = IF k * w <= size THEN size - k * w ELSE 0
  BY DEF Reading
<1>2. m \in Nat /\ DOMAIN chain = 1 .. m /\ w \in Nat \ {0}
  BY ChainBegins, SizesOfClusters
<1>3. size <= m * w
  OBVIOUS
<1>4. BytesIn(k + 1, size) = IF (k + 1) * w <= size THEN w ELSE size - ((k + 1) - 1) * w
  BY DEF BytesIn
<1> HIDE DEF w, m, k
<1>5. k * w \in Nat /\ m * w \in Nat /\ (k + 1) * w = k * w + w
      /\ (m <= k => m * w <= k * w)
  <2>1. k * w = w * k /\ m * w = w * m /\ (k + 1) * w = w * (k + 1)
        /\ w * (k + 1) = w * k + w /\ w * k \in Nat /\ w * m \in Nat
        /\ (m <= k => w * m <= w * k)
    BY <1>1, <1>2, Multiples
  <2> QED BY <1>2, <2>1
<1>6. l = size - k * w /\ k < m
  BY <1>1, <1>2, <1>3, <1>5
<1>7. k + 1 \in DOMAIN chain /\ c = chain[k + 1] /\ (k + 1) - 1 = k
  BY <1>1, <1>2, <1>6
<1>8. n <= BytesIn(k + 1, size) /\ BytesIn(k + 1, size) \in Nat
  <2>1. n <= w
    BY DEF w
  <2> QED BY <1>2, <1>4, <1>5, <1>6, <1>7, <2>1
<1>9. ASSUME NEW i \in 0 .. n - 1 PROVE (c - 2) * CLUSTER_SIZE + i \notin disk.zeros
  <2>1. i \in 0 .. BytesIn(k + 1, size) - 1
    BY <1>8
  <2> QED BY <1>7, <2>1 DEF TextIn
<1>10. {i \in 0 .. n - 1 : (c - 2) * CLUSTER_SIZE + i \in disk.zeros} = {}
  BY <1>9
<1> QED BY <1>10 DEF BeforeZero

LEMMA ReadStep == ASSUME FatInv, ReadCluster PROVE FatInv'
<1>1. WellFormed(disk)
  BY GivenFacts
<1>2. /\ disk' = disk /\ command' = command /\ path' = path /\ Words' = Words
      /\ tokens' = tokens
      /\ phase' = "read" /\ entry' = entry /\ phase = "read" /\ left > 0
  BY DEF ReadCluster, Words
<1>3. \/ /\ left >= BUFFER_SIZE
         /\ printed' = Append(printed, <<cluster, BeforeZero(cluster, BUFFER_SIZE)>>)
         /\ left' = left - BUFFER_SIZE /\ cluster' = fat_get_fat(cluster)
      \/ /\ left < BUFFER_SIZE
         /\ printed' = Append(printed, <<cluster, BeforeZero(cluster, left)>>)
         /\ left' = 0 /\ cluster' = cluster
  BY DEF ReadCluster
<1>4. AtRead
  BY <1>2 DEF FatInv
<1>5. "name" \in DOMAIN entry'
  BY <1>2 DEF FatInv, CommandGiven
<1>6. CommandGiven'
  BY <1>2, <1>5, GivenStays
<1>7. ASSUME NEW dir \in DOMAIN disk.dirs, NEW e \in LiveIn(disk, dir),
             FileAt(disk, path, dir, e), NEW chain \in disk.chains,
             chain[1] = e.cluster
      PROVE  Reading(chain, e.size, cluster', left', printed')
  <2>1. e.kind = "file" /\ e.size > 0
    BY <1>7 DEF FileAt
  <2>2. e.size \in Nat
        /\ e.size \in (Len(chain) - 1) * CLUSTER_SIZE + 1 .. Len(chain) * CLUSTER_SIZE
    BY <1>1, <1>7, <2>1, FileFills
  <2>3. Reading(chain, e.size, cluster, left, printed)
    BY <1>4, <1>7 DEF AtRead
  <2>4. /\ left >= CLUSTER_SIZE =>
               Reading(chain, e.size, fat_get_fat(cluster), left - CLUSTER_SIZE,
                       Append(printed, <<cluster, CLUSTER_SIZE>>))
        /\ left < CLUSTER_SIZE =>
               Reading(chain, e.size, cluster, 0, Append(printed, <<cluster, left>>))
    BY <1>1, <1>2, <2>2, <2>3, ReadingStep
  <2>5. BUFFER_SIZE = CLUSTER_SIZE /\ CLUSTER_SIZE \in Nat
        /\ TextIn(disk, chain, e.size)
    BY <1>7, SizesOfClusters DEF FileAt, WholePieces
  <2>6. left \in Nat /\ e.size <= Len(chain) * CLUSTER_SIZE
    <3>1. left = IF Len(printed) * CLUSTER_SIZE <= e.size
                 THEN e.size - Len(printed) * CLUSTER_SIZE ELSE 0
      BY <2>3 DEF Reading
    <3>2. Len(printed) * CLUSTER_SIZE \in Nat /\ Len(chain) * CLUSTER_SIZE \in Nat
      <4>1. Len(printed) \in Nat /\ Len(chain) \in Nat
        BY <1>1, <2>3, ChainBegins DEF Reading
      <4> QED BY <2>5, <4>1, Multiples
    <3> QED BY <2>2, <3>1, <3>2
  <2>7. CASE left >= BUFFER_SIZE
    <3>1. BeforeZero(cluster, CLUSTER_SIZE) = CLUSTER_SIZE
      BY <1>1, <1>2, <2>2, <2>3, <2>5, <2>6, <2>7, TextShown
    <3>2. /\ printed' = Append(printed, <<cluster, CLUSTER_SIZE>>)
          /\ left' = left - CLUSTER_SIZE /\ cluster' = fat_get_fat(cluster)
          /\ left >= CLUSTER_SIZE
      BY <1>3, <2>5, <2>6, <2>7, <3>1
    <3> QED BY <2>4, <3>2
  <2>8. CASE left < BUFFER_SIZE
    <3>1. BeforeZero(cluster, left) = left
      BY <1>1, <1>2, <2>2, <2>3, <2>5, <2>6, <2>8, TextShown
    <3>2. /\ printed' = Append(printed, <<cluster, left>>)
          /\ left' = 0 /\ cluster' = cluster /\ left < CLUSTER_SIZE
      BY <1>3, <2>5, <2>6, <2>8, <3>1
    <3> QED BY <2>4, <3>2
  <2> QED BY <1>3, <2>7, <2>8
<1>8. AtRead'
  BY <1>2, <1>4, <1>7 DEF AtRead
<1> QED BY <1>2, <1>6, <1>8 DEF FatInv

LEMMA ReadEndsStep == ASSUME FatInv, ReadEnds PROVE FatInv'
<1>1. WellFormed(disk)
  BY GivenFacts
<1>2. /\ disk' = disk /\ command' = command /\ path' = path /\ Words' = Words
      /\ tokens' = tokens
      /\ phase' = "prompt" /\ entry' = entry /\ phase = "read" /\ left = 0
      /\ printed' = printed
  BY DEF ReadEnds, Words
<1>3. AtRead
  BY <1>2 DEF FatInv
<1>4. "name" \in DOMAIN entry'
  BY <1>2 DEF FatInv, CommandGiven
<1>5. CommandGiven'
  BY <1>2, <1>4, GivenStays
<1>6. ASSUME NEW dir \in DOMAIN disk.dirs, NEW e \in LiveIn(disk, dir),
             FileAt(disk, path, dir, e), NEW chain \in disk.chains,
             chain[1] = e.cluster
      PROVE  printed = [k \in DOMAIN chain |-> Piece(chain, k, e.size)]
  <2> DEFINE w == CLUSTER_SIZE
             m == Len(chain)
             n == Len(printed)
             size == e.size
  <2>1. e.kind = "file" /\ e.size > 0
    BY <1>6 DEF FileAt
  <2>2. size \in Nat /\ size \in (m - 1) * w + 1 .. m * w
    BY <1>1, <1>6, <2>1, FileFills
  <2>3. Reading(chain, size, cluster, 0, printed)
    BY <1>2, <1>3, <1>6 DEF AtRead
  <2>4. /\ printed \in Seq(Nat \X Nat) /\ n \in Nat /\ n <= m
        /\ \A k \in 1 .. n : printed[k] = Piece(chain, k, size)
        /\ 0 = IF n * w <= size THEN size - n * w ELSE 0
    BY <2>3 DEF Reading
  <2>5. m \in Nat /\ DOMAIN chain = 1 .. m /\ w \in Nat \ {0}
    BY <1>1, ChainBegins, SizesOfClusters
  <2> HIDE DEF w, m, n, size
  <2>6. ASSUME n < m PROVE FALSE
    <3>1. n \in Nat /\ m - 1 \in Nat /\ n <= m - 1
      BY <2>4, <2>5, <2>6
    <3>2. w * n <= w * (m - 1) /\ n * w = w * n /\ (m - 1) * w = w * (m - 1)
          /\ w * n \in Nat /\ w * (m - 1) \in Nat
      BY <2>5, <3>1, Multiples
    <3>3. size >= (m - 1) * w + 1
      BY <2>2, <2>5, <3>2
    <3> QED BY <2>2, <2>4, <3>2, <3>3
  <2>7. n = m
    BY <2>4, <2>5, <2>6
  <2>8. printed = [k \in 1 .. n |-> printed[k]]
    BY <2>4 DEF n
  <2> QED BY <2>4, <2>5, <2>7, <2>8 DEF size
<1>7. AtPrompt'
  BY <1>2, <1>3, <1>6 DEF AtRead, AtPrompt
<1> QED BY <1>2, <1>5, <1>7 DEF FatInv

LEMMA FatStep == FatInv /\ [Next]_vars => FatInv'
<1> SUFFICES ASSUME FatInv, [Next]_vars PROVE FatInv'
  OBVIOUS
<1>1. ASSUME NEW arg \in LsPaths, process_command("ls", arg) PROVE FatInv'
  BY <1>1, CommandStep
<1>2. ASSUME NEW arg \in CatPaths, process_command("cat", arg) PROVE FatInv'
  BY <1>2, CommandStep
<1>3. ASSUME VisitEntry PROVE FatInv'
  <2>1. phase \in {"find", "list"}
    BY <1>3 DEF VisitEntry
  <2> QED BY <1>3, <2>1, FindVisitStep, ListVisitStep
<1>4. ASSUME WalkEnds PROVE FatInv'
  <2>1. phase \in {"find", "list"}
    BY <1>4 DEF WalkEnds
  <2> QED BY <1>4, <2>1, FindEndsStep, ListEndsStep
<1>5. CASE UNCHANGED vars
  <2>1. Words' = Words /\ Looked' = Looked
    BY <1>5 DEF vars, Words, Looked
  <2> QED BY <1>5, <2>1 DEF vars, FatInv, CommandGiven, AtPath, AtFind, AtList,
                            AtRead, AtPrompt
<1> QED BY <1>1, <1>2, <1>3, <1>4, <1>5, TokenStep, NextClusterStep, PathEndsStep,
           ReadStep, ReadEndsStep DEF Next, Step

-----------------------------------------------------------------------------
(* What the invariant says of the commands that have ended. *)

LEMMA SameWords ==
    /\ \A dir : Names(dir) = LiveIn(disk, dir)
    /\ \A dir : Compact(dir) <=> CompactIn(disk, dir)
    /\ \A arg, e : Denotes(arg, e) <=> DenotesIn(disk, arg, e)
    /\ \A arg, dir : Lists(arg, dir) <=> ListsIn(disk, arg, dir)
<1>1. ASSUME NEW dir PROVE Names(dir) = LiveIn(disk, dir)
  BY DEF Names, LiveIn
<1>2. ASSUME NEW dir PROVE Compact(dir) <=> CompactIn(disk, dir)
  BY DEF Compact, CompactIn
<1>3. ASSUME NEW arg, NEW e PROVE Denotes(arg, e) <=> DenotesIn(disk, arg, e)
  BY <1>1, <1>2 DEF Denotes, DenotesIn, Ways
<1>4. ASSUME NEW arg, NEW dir PROVE Lists(arg, dir) <=> ListsIn(disk, arg, dir)
  BY <1>1, <1>3 DEF Lists, ListsIn
<1> QED BY <1>1, <1>2, <1>3, <1>4

LEMMA ListedShows == FatInv => LsListsDirectory
<1> SUFFICES ASSUME FatInv, NEW dir \in DOMAIN disk.dirs, Done("ls"), Lists(path, dir)
             PROVE  /\ ToSet(printed) \subseteq Names(dir)
                    /\ Compact(dir) =>
                          /\ IsPrefix(printed, disk.dirs[dir])
                          /\ \A i \in DOMAIN disk.dirs[dir] :
                                Live(disk.dirs[dir][i]) => i <= Len(printed)
  BY DEF LsListsDirectory
<1> DEFINE D == disk.dirs[dir]
<1>1. AtPrompt /\ command = "ls"
  BY DEF FatInv, Done
<1>2. PICK d \in DOMAIN disk.dirs : Listed(disk, path, d, printed)
  BY <1>1 DEF AtPrompt
<1>3. /\ printed \in Seq(LiveIn(disk, dir))
      /\ CompactIn(disk, dir) => Shown(disk, dir, Len(D), printed)
  BY <1>2, SameWords DEF Listed
<1>4. ToSet(printed) \subseteq Names(dir)
  <2>1. \A k \in DOMAIN printed : printed[k] \in LiveIn(disk, dir)
    BY <1>3
  <2> QED BY <2>1, SameWords DEF ToSet
<1>5. D \in Seq(DirectoryEntry) /\ Len(D) \in Nat /\ DOMAIN D = 1 .. Len(D)
  BY GivenFacts, DirectoryTyped
<1>6. ASSUME CompactIn(disk, dir)
      PROVE  /\ IsPrefix(printed, D)
             /\ \A i \in DOMAIN D : Live(D[i]) => i <= Len(printed)
  <2>1. /\ Len(printed) <= Len(D) /\ Len(printed) \in Nat
        /\ \A k \in 1 .. Len(printed) : printed[k] = D[k]
        /\ \A k \in Len(printed) + 1 .. Len(D) : ~Live(D[k])
    BY <1>3, <1>6 DEF Shown
  <2> HIDE DEF D
  <2>2. SubSeq(printed, 1, Len(printed)) = SubSeq(D, 1, Len(printed))
    BY <1>3, <1>5, <2>1
  <2>3. \A i \in DOMAIN D : Live(D[i]) => i <= Len(printed)
    BY <1>5, <2>1
  <2> QED BY <2>1, <2>2, <2>3 DEF IsPrefix
<1> QED BY <1>4, <1>6, SameWords

LEMMA ReadPrints == FatInv /\ WholePieces => CatPrintsFile
<1> SUFFICES ASSUME FatInv, WholePieces, Done("cat"), NEW dir \in DOMAIN disk.dirs,
                    NEW e \in Names(dir), e.kind = "file", e.size > 0,
                    Denotes(path, e), IsText(e)
             PROVE  printed = [k \in DOMAIN ChainOf(e.cluster) |->
                        <<ChainOf(e.cluster)[k], BytesIn(k, e.size)>>]
  BY DEF CatPrintsFile
<1>1. WellFormed(disk)
  BY GivenFacts
<1>2. AtPrompt /\ command = "cat"
  BY DEF FatInv, Done
<1>3. e \in LiveIn(disk, dir)
  BY SameWords
<1>4. \A chain \in disk.chains : chain[1] = e.cluster => ChainOf(e.cluster) = chain
  BY <1>1, ChainBegins, ChainIs
<1>5. PICK chain \in disk.chains : chain[1] = e.cluster
  <2>1. e \in ToSet(disk.dirs[dir])
    BY <1>3 DEF LiveIn
  <2> QED BY <1>1, <2>1 DEF WellFormed
<1>6. FileAt(disk, path, dir, e)
  <2>1. \A c \in disk.chains : c[1] = e.cluster => TextIn(disk, c, e.size)
    BY <1>4 DEF IsText, TextIn
  <2> QED BY <1>3, <2>1, SameWords DEF FileAt
<1>7. printed = [k \in DOMAIN chain |-> Piece(chain, k, e.size)]
  BY <1>2, <1>3, <1>5, <1>6 DEF AtPrompt
<1> QED BY <1>4, <1>5, <1>7 DEF Piece

LEMMA ShownFound == FatInv => ShownNameIsFound
<1> SUFFICES ASSUME FatInv, Done("ls"), NEW e \in ToSet(printed), ShownWhole(e)
             PROVE  fat_set_entry_name(fat_get_entry_name(e)) = e.name
  BY DEF ShownNameIsFound
<1>1. WellFormed(disk)
  BY GivenFacts
<1>2. AtPrompt /\ command = "ls"
  BY DEF FatInv, Done
<1>3. PICK d \in DOMAIN disk.dirs : Listed(disk, path, d, printed)
  BY <1>2 DEF AtPrompt
<1>4. e \in LiveIn(disk, d)
  BY <1>3 DEF Listed, ToSet
<1>5. e.kind \in {"file", "dir"}
  BY DEF ShownWhole
<1> QED BY <1>1, <1>4, <1>5, LiveTyped, NameAgain

(* For every image without damage and every path: ls shows the directory   *)
(* that the path names, all of it and in order, over all its clusters, and *)
(* only a deleted entry may hide others.                                   *)
THEOREM LsLists == Spec => []LsListsDirectory
<1> QED BY InitFatInv, FatStep, ListedShows, PTL DEF Spec

(* For every image without damage whose clusters are as large as the       *)
(* buffer of the shell, and every path: cat prints the bytes of the text   *)
(* file that the path names, all of them, once and in the order of its     *)
(* chain, wherever the clusters are and whatever the size of the last.     *)
THEOREM CatPrints ==
    ASSUME WholePieces
    PROVE  Spec => []CatPrintsFile
<1>1. FatInv => CatPrintsFile
  BY ReadPrints
<1> QED BY <1>1, InitFatInv, FatStep, PTL DEF Spec

(* For every image without damage: a name that ls shows whole is turned    *)
(* into the name on the disk again, so that it can be typed.               *)
THEOREM ShownNamesWork == Spec => []ShownNameIsFound
<1> QED BY InitFatInv, FatStep, ShownFound, PTL DEF Spec
=============================================================================
