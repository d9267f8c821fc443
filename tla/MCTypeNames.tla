------------------------------ MODULE MCTypeNames ------------------------------
(* Documents for the run of TypeNames: types of one short name in two packages *)
(* or none, wherever they can come from; and names that the backends have      *)
(* built in, for both or one of them. The names are numbered in the order of   *)
(* the strings (a_T is a.T): the Default, Stub and Stub.Proxy of an interface  *)
(* follow it.                                                                  *)
EXTENDS TypeNames

CharSequence == 1
Context == 2
FileDescriptor == 3
IMain == 4
IMain_Stub == 6
ParcelFileDescriptor == 8
String == 9
Stub == 10
T == 11
T_Stub == 13
U == 15
Y_Z == 19
Z == 20
a_Context == 29
a_IMain == 30
a_IMain_Stub == 32
a_String == 34
a_T == 35
a_T_Stub == 37
a_U == 39
a_while == 43
android_content_Context == 44
android_os_ParcelFileDescriptor == 45
b_T == 46
java_io_FileDescriptor == 50
java_lang_CharSequence == 51
java_lang_String == 52
while == 53
z_Y_Z == 54

Class(name, short, kind) ==
  [name |-> name, short |-> short, kind |-> kind, header |-> FALSE]
MCBuiltIns ==
  [CPP |-> << Class(java_lang_String, String, "built_in"),
              Class(FileDescriptor, FileDescriptor, "built_in"),
              Class(android_os_ParcelFileDescriptor, ParcelFileDescriptor, "built_in") >>,
   JAVA |-> << Class(java_lang_String, String, "built_in"),
               Class(java_io_FileDescriptor, FileDescriptor, "built_in"),
               Class(android_os_ParcelFileDescriptor, ParcelFileDescriptor, "built_in"),
               Class(java_lang_CharSequence, CharSequence, "built_in"),
               Class(android_content_Context, Context, "helper") >>]
MCAidlName ==
  [name \in {CharSequence, FileDescriptor, ParcelFileDescriptor, String,
             android_os_ParcelFileDescriptor} |->
     IF name = android_os_ParcelFileDescriptor THEN ParcelFileDescriptor ELSE name]
MCInvalid == {a_while, while}
MCStubs ==
  [name \in {T, a_T, b_T, a_U, a_IMain, z_Y_Z} |->
     LET short == CASE name = a_U -> U [] name = a_IMain -> IMain
                  [] name = z_Y_Z -> Z [] OTHER -> T
         class(k) == Class(name + k, short + k, "generated")
     IN  << class(2), class(3), class(1) >>]

Interface(name, short) == Class(name, short, "interface")
Parcelable(name, short) == Class(name, short, "parcelable")
Structured(name, short) == Class(name, short, "structured")
WithHeader(t) == [t EXCEPT !.header = TRUE]
Main == Interface(a_IMain, IMain)
T0 == Interface(T, T)
TA == Interface(a_T, T)
TB == Interface(b_T, T)
PA == Parcelable(a_T, T)
Lines == {TA, TB, T0, PA, Structured(a_T, T)}

\* Below -I: one document, the same in two places, or one that does not define
\* what its path says.
Below(path, type, places) ==
  {[path |-> path, place |-> place, types |-> <<type>>] : place \in places}

Loading ==
  [types : {<<Main>>, <<Main, T0>>},
   imports : {{}, {T}, {a_T}, {b_T}},
   specs : {<<T>>, <<T, a_T>>, <<T, b_T>>},
   preprocessed : {<<>>} \cup {<<p>> : p \in Lines}
                  \cup {<<TB, p>> : p \in Lines \ {TB, PA}}
                  \cup {<<PA, TA>>, <<TA, Structured(T, T)>>},
   files : {f \cup g : f \in {{}, Below(a_T, TA, {1}), Below(a_T, Interface(a_U, U), {1})},
                       g \in {{}, Below(b_T, TB, {1}), Below(b_T, TB, {1, 2})}},
   inputs : {<<>>, <<[paths |-> {T, b_T}, types |-> <<TB>>]>>},
   m : {<<>>, <<<<TA>>, <<TB, T0>>>>, <<<<WithHeader(Parcelable(b_T, T))>>>>}]

\* Main documents that fail: a type twice, no header, two kinds of one name, a
\* name that Java generates, or a name with a keyword in it.
Failing ==
  [types : {<<Main, Main>>, <<PA>>, <<TA, WithHeader(Parcelable(T, T))>>,
            <<Main, Structured(a_IMain_Stub, IMain_Stub)>>,
            <<Structured(a_T_Stub, T_Stub), T0>>, <<TA, Structured(a_while, while)>>},
   imports : {{}}, specs : {<<>>, <<T>>}, preprocessed : {<<>>}, files : {{}},
   inputs : {<<>>}, m : {<<>>}]

\* Names that a backend has built in or generates: imported, written, declared in
\* a preprocessed file or in a document.
ContextType == WithHeader(Parcelable(android_content_Context, Context))
OwnContext == Structured(a_Context, Context)
OwnString == Structured(a_String, String)
Contested ==
  [types : {<<Main>>, <<Main, Structured(a_IMain_Stub, IMain_Stub)>>,
            <<Main, ContextType>>},
   imports : {{}, {android_content_Context}, {a_IMain_Stub}, {java_lang_CharSequence},
              {a_String}, {a_while}},
   specs : {<<Context>>, <<String>>, <<CharSequence>>, <<java_lang_CharSequence>>,
            <<android_os_ParcelFileDescriptor>>,
            <<FileDescriptor, a_String>>, <<IMain_Stub>>},
   preprocessed : {<<>>, <<Malformed>>, <<Parcelable(a_String, String)>>,
                   <<Parcelable(a_IMain_Stub, Stub)>>,
                   <<Structured(a_while, while), OwnContext>>,
                   <<Structured(android_content_Context, Context)>>,
                   <<OwnContext>>, <<OwnString>>, <<Structured(String, String)>>,
                   <<Structured(CharSequence, CharSequence)>>,
                   <<Structured(java_lang_CharSequence, CharSequence)>>},
   files : {{}, Below(android_content_Context, ContextType, {1}),
            Below(a_String, OwnString, {1})},
   inputs : {<<[paths |-> {a_String, String}, types |-> <<OwnString>>]>>},
   m : {<<>>, <<<<Structured(a_while, while)>>>>}]
\* A document and a preprocessed file split one name in two ways.
Split ==
  [types : {<<Main, Structured(z_Y_Z, Y_Z)>>, <<Main>>}, imports : {{}, {z_Y_Z}},
   specs : {<<Z>>, <<Y_Z>>, <<z_Y_Z>>},
   preprocessed : {<<Interface(z_Y_Z, Z)>>, <<Structured(z_Y_Z, Z)>>}, files : {{}},
   inputs : {<<>>}, m : {<<>>, <<<<Structured(z_Y_Z, Y_Z)>>>>}]
MCWorlds == Loading \cup Failing \cup Contested \cup Split
==============================================================================
