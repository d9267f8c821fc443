------------------------------ MODULE MCCompiler ------------------------------
(* Documents and command lines for the run of Compiler.                      *)
EXTENDS Compiler

MCNames == STRING
TypeOf(name, base, kind, stable, faults) ==
  [name |-> name, base |-> base, kind |-> kind, stable |-> stable,
   faults |-> faults]
Doc(types, faults) == [types |-> types, faults |-> faults]

IFoo == TypeOf("IFoo", "Foo", "interface", FALSE, {})
Foo  == TypeOf("Foo", "Foo", "structured", FALSE, {})
Bar  == TypeOf("Bar", "Bar", "parcelable", FALSE, {})
Baz  == TypeOf("Baz", "Baz", "parcelable", TRUE, {})
Far  == TypeOf("Far", "Far", "structured", FALSE, {"package"})

A(name) == <<name, "aidl">>
MCSources ==
  A("IFoo") :> Doc(<<IFoo>>, {}) @@
  A("Foo") :> Doc(<<Foo>>, {}) @@
  A("Bar") :> Doc(<<Bar>>, {}) @@
  A("Baz") :> Doc(<<Baz>>, {}) @@
  A("Two") :> Doc(<<Bar, Far>>, {}) @@
  A("Far") :> Doc(<<Far>>, {}) @@
  A("Ids") :> Doc(<<Bar, [IFoo EXCEPT !.faults = {"ids"}]>>, {}) @@
  A("Bad") :> Doc(<<[Foo EXCEPT !.faults = {"invalid"}]>>, {}) @@
  A("Syntax") :> Doc(<<>>, {"syntax"}) @@
  A("Import") :> Doc(<<IFoo>>, {"import"}) @@
  A("Loose") :> Doc(<<IFoo>>, {"unstructured import"})
MCMalformed == {<<"bad">>}
MCAidlFiles == DOMAIN MCSources
MCPositive == {<<"1">>}

Opt(name, arg) == [opt |-> name, arg |-> arg]
Switch(name) == Opt(name, <<>>)
Out == Opt("out", <<"out">>)
HeaderOut == Opt("header_out", <<"inc">>)
MCBeginnings ==
  { <<>>, <<Out>>, <<Opt("lang", <<"JAVA">>)>>, <<Opt("lang", <<"JAVA">>), Out>>,
    <<Opt("lang", <<"CPP">>), Out, HeaderOut>>,
    <<HeaderOut, Opt("lang", <<"NDK">>), Out>> }
MCOptionSet ==
  { Opt("lang", <<"CPP">>), Switch("preprocess"), Switch("dumpapi"), Switch("checkapi"),
    Opt("apimapping", <<"map">>), Opt("preprocessed", <<"bad">>),
    Opt("import", <<"bad">>), Opt("dep", <<"d">>), Switch("ninja"),
    Switch("structured"), Switch("a"), Switch("b"), Opt("version", <<"1">>),
    Opt("version", <<"0">>), Switch("log"), Switch("t") }
MCArguments ==
  {<<path>> : path \in MCAidlFiles} \cup
  {<<A("IFoo"), other>> : other \in {A("IFoo"), A("Foo"), A("Bad"), <<"src">>}} \cup
  { <<>>, <<A("Baz"), A("IFoo")>>, <<A("IFoo"), <<"inc">>, <<"src">>>>,
    <<A("Two"), <<"inc">>, <<"src">>>>, <<<<"list">>, A("Foo")>>,
    <<<<"list">>, A("Foo"), A("Syntax")>> }
==============================================================================
