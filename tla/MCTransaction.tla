---------------------------- MODULE MCTransaction ----------------------------
(* Signatures of the interfaces the runs of Transaction use.               *)
EXTENDS TransactionProperties, TLC

CONSTANTS Get, Swap, Post

Arg(dir, array) == [dir |-> dir, array |-> array]

\* int Get(in a, out int[] b, in c); void Swap(inout a, out b); oneway Post(in a)
MCMethod == {Get, Swap, Post, GetInterfaceVersion}
MCArgs == [m \in MCMethod |->
  CASE m = Get -> <<Arg("in", FALSE), Arg("out", TRUE), Arg("in", FALSE)>>
    [] m = Swap -> <<Arg("inout", FALSE), Arg("out", FALSE)>>
    [] m = Post -> <<Arg("in", FALSE)>>
    [] OTHER -> <<>>]
MCNonVoid == {Get, GetInterfaceVersion}
MCOneway == {Post}

\* int Get(), for the runs about what concurrent calls share
MCPlainMethod == {Get, GetInterfaceVersion}
MCPlainArgs == [m \in MCPlainMethod |-> <<>>]
MCNoOneway == {}

\* int Get(), oneway Post()
MCSmallMethod == {Get, Post, GetInterfaceVersion}
MCSmallArgs == [m \in MCSmallMethod |-> <<>>]
MCSymmetry == Permutations(Call) \cup Permutations(Setter)
==============================================================================
