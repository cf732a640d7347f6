---------------------------- MODULE MCDebugPrint ----------------------------
(***************************************************************************)
(* Instances of DebugPrint: formats with every conversion, alone and next  *)
(* to others, calls that lack the number of a conversion of base 2, the    *)
(* second number of two, or a string, and a format that ends with a %.     *)
(***************************************************************************)
EXTENDS DebugPrint

D == <<Percent, 100>>  X == <<Percent, 120>>  B == <<Percent, 98>>
S == <<Percent, Str>>  C == <<Percent, Chr>>  P == <<Percent, Percent>>
Z == <<Percent, 122>>
Hash == <<35>>  Plus == <<43>>  End == <<33>>

SmallFormats == << <<D, Hash, X>>, <<B, End>>, <<S, P, C>>, <<End, Z, Hash>>, <<End, <<Percent>> >>, <<D, Plus, D>> >>

Of(format, arguments) == [format |-> format, args |-> arguments]

SmallCalls ==
  {Of(1, <<n, n>>) : n \in {0, 9, 10, 31}} \cup {Of(2, <<n>>) : n \in {1, 15, 16, 31}} \cup {Of(2, <<>>)}
    \cup {Of(3, << <<72, 105>>, 321 >>), Of(3, << <<>>, 33 >>), Of(3, <<>>)}
    \cup {Of(4, <<>>), Of(5, <<>>)} \cup {Of(6, <<10>>)}

SomeTexts == {<<>>, <<63>>}

==============================================================================
