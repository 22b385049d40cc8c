------------------------------- MODULE MCFat -------------------------------
(* Images with a directory of one or two clusters and a file of up to two, *)
(* in the root directory or in the other one, alone, with a file before    *)
(* it, or after a deleted one; the clusters are four, in any order.  The   *)
(* second byte of cluster 3 may be zero.                                   *)
EXTENDS Fat

Letters == [l \in {"d", "f", "g", "t"} |->
              CASE l = "d" -> "D" [] l = "f" -> "F" [] l = "g" -> "G" [] l = "t" -> "T"]

Entry(name, kind, c, size) ==
    [name |-> name, kind |-> kind, cluster |-> c, size |-> size]
Label == Entry(<<"F", "S", "T">>, "volume", EMPTY, 0)
Dot(c) == Entry(<<".", " ", " ">>, "dir", c, 0)
DotDot == Entry(<<".", ".", " ">>, "dir", EMPTY, 0)

Others == {<<>>, <<Entry(<<"F", "G", "T">>, "file", EMPTY, 0)>>,
           <<Entry(<<"F", "G", "T">>, "deleted", EMPTY, 0)>>}

Filled(entries, n) ==
    [i \in 1 .. n |-> IF i <= Len(entries) THEN entries[i] ELSE NoEntry]

Chains(n) == {c \in SeqOf(2 .. 5, n) : IsInjective(c)}

Image(dir, file, size, other, inRoot, zeros) ==
    LET f == <<Entry(<<"F", " ", "T">>, "file", IF file = <<>> THEN EMPTY ELSE file[1], size)>>
        d == <<Entry(<<"D", " ", " ">>, "dir", dir[1], 0)>>
        dots == <<Dot(dir[1]), DotDot>>
    IN  [chains |-> {dir, file} \ {<<>>},
         dirs |-> (EMPTY :> Filled(IF inRoot THEN <<Label>> \o other \o f \o d
                                   ELSE <<Label>> \o d \o other, 5))
                  @@ (dir[1] :> Filled(IF inRoot THEN dots ELSE dots \o f \o other,
                                       2 * Len(dir))),
         zeros |-> zeros]

SmallDisks ==
    {Image(dir, file, size, other, inRoot, zeros) :
        <<dir, file, size, other, inRoot, zeros>> \in
            {x \in (Chains(2) \ {<<>>}) \X Chains(2) \X (0 .. 4) \X Others \X BOOLEAN
                     \X {{}, {3}} :
                /\ ToSet(x[1]) \cap ToSet(x[2]) = {}
                /\ Len(x[2]) = (x[3] + 1) \div 2
                /\ ~x[5] => Len(x[1]) = 2
                /\ x[6] # {} => 3 \in ToSet(x[2]) /\ x[4] = <<>>}}

Floppy == [bytesPerSector |-> 512, sectorsPerCluster |-> 2,
           reservedSectorCount |-> 1, tableSize16 |-> 3, tableCount |-> 2,
           rootEntryCount |-> 112]
Layouts == {Floppy, [Floppy EXCEPT !.rootEntryCount = 20]}

d == <<"d">>
f == <<"f", ".", "t">>
fg == <<"f", "g", ".", "t">>
Folders == {NoArgument, <<>>, <<d>>, <<d, <<".">>>>}
Files == {<<>>, <<f>>, <<fg>>, <<d, f>>, <<d, fg>>, <<fg, f>>}
=============================================================================
