----------------------------- MODULE MCParcelable -----------------------------
(* Types and versions for the runs of Parcelable.                          *)
EXTENDS Parcelable

CONSTANTS Outer, Inner, Leaf, Shell

\* Leaf and Shell have no field at first, and Shell begins with a parcelable
\* in version 3; Inner and Outer get one more field in each version; the call
\* sends (Outer, int, Leaf, Shell, Inner, int).
MCType == {Root, Outer, Inner, Leaf, Shell}
MCFields == [t \in MCType |->
  CASE t = Outer -> <<<<Inner, Leaf>>, <<Inner, Leaf, "int">>, <<Inner, Leaf, "int", Inner>>>>
    [] t = Inner -> <<<<"int">>, <<"int", "int">>, <<"int", "int", "int">>>>
    [] t = Leaf  -> <<<<>>, <<"int">>, <<"int", Inner>>>>
    [] t = Shell -> <<<<>>, <<>>, <<Inner>>>>
    [] OTHER     -> [v \in 1 .. 3 |-> <<Outer, "int", Leaf, Shell, Inner, "int">>]]
==============================================================================
