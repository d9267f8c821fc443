------------------------------ MODULE Marshalling ------------------------------
(***************************************************************************)
(* How one argument, or the result, of a call crosses from a client to a   *)
(* server built from the same AIDL method by any two backends: which types *)
(* each backend accepts, in which wire form it writes and reads them, and  *)
(* what becomes of nulls and of the caller's own object when an out value  *)
(* comes back.                                                             *)
(*                                                                         *)
(* A parcel is a sequence of entries, one for each value written; a value  *)
(* is Null, an opaque element, or a sequence of elements and nulls.        *)
(***************************************************************************)
EXTENDS Integers, Sequences

CONSTANTS
  Null,
  Element,   \* opaque values: numbers, strings, binders, parcelables
  Blank,     \* the element a freshly made object or array cell holds
  Lengths,   \* lengths of the arrays and lists that are sent
  Types,     \* the types to try, a subset of AidlType
  Backends   \* a subset of {"CPP", "NDK", "JAVA"}

Primitive == {"boolean", "byte", "char", "int", "long", "float", "double"}
BuiltIn == Primitive \cup
  {"String", "CharSequence", "IBinder", "FileDescriptor",
   "ParcelFileDescriptor", "Map", "List"}
Name == BuiltIn \cup {"interface", "parcelable"}

\* T, T[] or List<T>; "List" alone is the untyped list.
AidlType == [name : Name, form : {"one", "array", "List"}, nullable : BOOLEAN]

ASSUME MarshallingAssumption ==
  /\ Null \notin Element /\ Blank \in Element
  /\ Lengths \subseteq Nat
  /\ Types \subseteq AidlType
  /\ Backends \subseteq {"CPP", "NDK", "JAVA"}
  /\ \A e \in Element : e \notin Seq(Element \cup {Null})
  /\ Null \notin Seq(Element \cup {Null})

VARIABLES
  type, dir,        \* "in", "out", "inout" or "return"
  context,          \* the interface itself is annotated @nullable
  client, server,   \* the backends
  phase,
  sent,             \* the caller's value before the call
  seen,             \* what the implementation is called with
  made,             \* what it leaves in the argument, or returns
  view,             \* the caller's value after the call
  parcel

config == <<type, dir, context, client, server>>
vars == <<config, phase, sent, seen, made, view, parcel>>

IsArray(t) == t.form = "array"
IsList(t) == t.form = "List"
IsSequence(t) == t.form # "one" \/ t.name = "List"

-----------------------------------------------------------------------------
(* What the compiler accepts.                                              *)

\* AidlTypeSpecifier::CheckValid.
CheckValid(t) ==
  /\ IsArray(t) => t.name # "interface"
  /\ t.nullable => ~(t.name \in Primitive /\ t.form = "one")

CanBeOutParameter(t) ==
  \/ t.form # "one"
  \/ t.name \in {"List", "Map", "ParcelFileDescriptor", "parcelable"}

\* The name space of the C++ backend, which also checks for the NDK.
CppArrays == Primitive \cup
  {"String", "FileDescriptor", "ParcelFileDescriptor", "parcelable"}
CppKnows(t) ==
  CASE IsArray(t) -> t.name \in CppArrays
    [] IsList(t)  -> t.name \in {"String", "IBinder"}
    [] OTHER      -> t.name \notin {"CharSequence", "List"}
CppHasNullable(t) ==
  \/ t.form # "one"
  \/ t.name \in {"String", "IBinder", "Map", "ParcelFileDescriptor",
                 "interface", "parcelable"}

\* The name space of the Java backend: a list of anything that has a name.
JavaArrays == CppArrays \cup {"IBinder"}
JavaKnows(t) == IsArray(t) => t.name \in JavaArrays
JavaHasNullable(t) ==
  \/ t.form # "one"
  \/ t.name \notin Primitive \cup {"FileDescriptor", "CharSequence"}

\* GetValidatableType, GetArgType and GetReturnType.
Accepts(lang, t, d) ==
  /\ CheckValid(t)
  /\ d \in {"out", "inout"} => CanBeOutParameter(t)
  /\ IF lang = "JAVA"
     THEN JavaKnows(t) /\ (t.nullable => JavaHasNullable(t))
     ELSE CppKnows(t) /\ (t.nullable => CppHasNullable(t))

\* GetTypeAspect of the NDK backend has no such type: the compiler aborts.
NdkHas(t) ==
  CASE IsList(t) -> FALSE
    [] IsArray(t) -> \/ t.name \in Primitive \cup {"String"}
                     \/ t.name = "parcelable" /\ ~t.nullable
    [] OTHER ->
         \/ t.name \in {"String", "IBinder", "ParcelFileDescriptor", "interface"}
         \/ t.name \in Primitive \cup {"parcelable"} /\ ~t.nullable

-----------------------------------------------------------------------------
(* Wire forms.                                                             *)

\* The form of one value, by the method of Parcel that each backend calls.
CppForm == [n \in Name \ {"CharSequence", "List"} |->
  CASE n \in {"boolean", "byte", "char", "int"} -> "word"
    [] n \in {"long", "float", "double"} -> n
    [] n = "String" -> "string"
    [] n \in {"IBinder", "interface"} -> "binder"
    [] n = "FileDescriptor" -> "fd"
    [] n = "Map" -> "map"
    [] OTHER -> "flagged"]
NdkForm == [n \in Name \ {"CharSequence", "FileDescriptor", "Map", "List"} |->
  CASE n \in {"boolean", "byte", "char", "int"} -> "word"
    [] n \in {"long", "float", "double"} -> n
    [] n = "String" -> "string"
    [] n \in {"IBinder", "interface"} -> "binder"
    [] OTHER -> "flagged"]
JavaFormOneByte == [n \in Name |->  \* a mutant: writes one byte for a byte
  CASE n \in {"boolean", "char", "int"} -> "word"
    [] n \in {"long", "float", "double", "byte"} -> n
    [] n = "String" -> "string"
    [] n \in {"IBinder", "interface"} -> "binder"
    [] n = "FileDescriptor" -> "fd"
    [] n = "Map" -> "map"
    [] n = "List" -> "list"
    [] OTHER -> "flagged"]

JavaForm == [n \in Name |->
  CASE n \in {"boolean", "char", "int", "byte"} -> "word"
    [] n \in {"long", "float", "double"} -> n
    [] n = "String" -> "string"
    [] n \in {"IBinder", "interface"} -> "binder"
    [] n = "FileDescriptor" -> "fd"
    [] n = "Map" -> "map"
    [] n = "List" -> "list"
    [] OTHER -> "flagged"]

\* Arrays and lists are a count and their items; byte[] packs them.
WireOf(t, form) ==
  [many |-> t.form # "one",
   of   |-> IF t.form # "one" /\ t.name = "byte" THEN "packed" ELSE form[t.name]]
CppWire(t) == WireOf(t, CppForm)
NdkWire(t) == WireOf(t, NdkForm)
JavaWire(t) == WireOf(t, JavaForm)
Wire(lang, t) == CASE lang = "CPP" -> CppWire(t)
                   [] lang = "NDK" -> NdkWire(t)
                   [] OTHER -> JavaWire(t)

\* The methods that write, create and read for Java report an unsupported
\* type, which no caller looks at, and emit nothing for it; nor do they emit
\* anything for List<ParcelFileDescriptor>.
IsMarshallingUnsupportedFor(t) ==
  \/ IsList(t) /\ t.name \notin
       {"String", "IBinder", "ParcelFileDescriptor", "parcelable"}
  \/ IsArray(t) /\ t.name \in {"List", "Map", "CharSequence", "interface"}
JavaEmits(t) ==
  /\ ~IsMarshallingUnsupportedFor(t)
  /\ ~(IsList(t) /\ t.name = "ParcelFileDescriptor")

\* javac wants every variable of a stub or proxy assigned, and the objects
\* that a stub makes for out arguments to have such a constructor.
JavaStubBuilds(t, d) ==
  /\ d \in {"in", "inout"} => JavaEmits(t)
  /\ d = "out" => IsSequence(t) \/ t.name = "parcelable"
JavaProxyBuilds(t, d) == d = "return" => JavaEmits(t)

-----------------------------------------------------------------------------
(* What a variable of the type can hold, and which nulls are written and   *)
(* read; c says whether the interface is @nullable.                        *)

Nullable(lang, t, c) ==
  t.nullable \/ (lang = "CPP" /\ c /\ CppHasNullable(t))

HoldsNull(lang, t, c) ==
  CASE lang = "JAVA" -> t.form # "one" \/ t.name \notin Primitive
    [] lang = "CPP"  -> \/ Nullable(lang, t, c)
                        \/ t.form = "one" /\ t.name \in {"IBinder", "interface"}
    [] OTHER -> \/ t.nullable
                \/ /\ t.form = "one"
                   /\ t.name \in {"IBinder", "interface", "ParcelFileDescriptor"}
HoldsNullItem(lang, t, c) ==
  CASE lang = "JAVA" -> t.name \notin Primitive
    [] lang = "CPP"  -> \/ t.name = "IBinder"
                        \/ t.name = "String" /\ Nullable(lang, t, c)
    [] OTHER -> t.name = "String" /\ t.nullable

WritesNull(lang, t) ==
  CASE lang = "JAVA" -> t.form # "one" \/ t.name # "FileDescriptor"
    [] lang = "CPP"  -> TRUE
    [] OTHER -> t.nullable \/ t.name = "interface"
WritesNullItem(lang, t) == lang = "JAVA" => t.name # "FileDescriptor"

ReadsNullBinder(lang, t, c) ==  \* a mutant: readNullableStrongBinder
  CASE lang = "JAVA" -> TRUE
    [] lang = "CPP"  -> Nullable(lang, t, c)
    [] OTHER -> t.nullable \/ t.name \in {"interface", "IBinder"}

ReadsNull(lang, t, c) ==
  CASE lang = "JAVA" -> TRUE
    [] lang = "CPP"  -> Nullable(lang, t, c)
    [] OTHER -> t.nullable \/ t.name = "interface"
ReadsAnyNullItem(lang, t, c) ==  \* a mutant: any @nullable array has null items
  lang = "JAVA" \/ Nullable(lang, t, c)

ReadsNullItem(lang, t, c) ==
  CASE lang = "JAVA" -> TRUE
    [] lang = "CPP"  -> Nullable(lang, t, c) /\ t.name \in {"String", "IBinder"}
    [] OTHER -> t.nullable /\ t.name = "String"

Item(lang, t, c) == Element \cup {e \in {Null} : HoldsNullItem(lang, t, c)}
Holds(lang, t, c) ==
  {v \in {Null} : HoldsNull(lang, t, c)} \cup
  (IF IsSequence(t) THEN Seq(Item(lang, t, c)) ELSE Element)
\* The values to try.
Values(lang, t, c) ==
  {v \in {Null} : HoldsNull(lang, t, c)} \cup
  (IF IsSequence(t) THEN UNION {[1 .. n -> Item(lang, t, c)] : n \in Lengths}
                    ELSE Element)

HasNullItem(t, v) ==
  IsSequence(t) /\ v # Null /\ \E i \in DOMAIN v : v[i] = Null
Writable(lang, t, v) ==
  /\ v = Null => WritesNull(lang, t)
  /\ HasNullItem(t, v) => WritesNullItem(lang, t)
Readable(lang, t, c, v) ==
  /\ v = Null => ReadsNull(lang, t, c)
  /\ HasNullItem(t, v) => ReadsNullItem(lang, t, c)

-----------------------------------------------------------------------------
(* Entries of a parcel.                                                    *)

Word == [many |-> FALSE, of |-> "word"]
\* The argument that follows: read in its place only if all before it were.
Trailer == [wire |-> Word, value |-> Blank]
EmitsFor(lang, t) == lang = "JAVA" => JavaEmits(t)
Written(lang, t, v) ==
  (IF EmitsFor(lang, t) THEN <<[wire |-> Wire(lang, t), value |-> v]>> ELSE <<>>)
  \o <<Trailer>>
LengthWritten(v) ==
  <<[wire |-> Word, value |-> IF v = Null THEN -1 ELSE Len(v)], Trailer>>

\* The reader finds what it reads, and then the argument that follows.
InPlace(lang, t) ==
  parcel = IF EmitsFor(lang, t) THEN Written(lang, t, Head(parcel).value)
                                ELSE <<Trailer>>

-----------------------------------------------------------------------------
Init ==
  /\ type \in Types
  /\ dir \in {"in", "out", "inout", "return"}
  /\ context \in BOOLEAN
  /\ client \in Backends /\ server \in Backends
  /\ phase = "compile"
  /\ sent = Null /\ seen = Null /\ made = Null /\ view = Null
  /\ parcel = <<>>

Compiled(p) ==
  /\ phase = "compile"
  /\ phase' = p
  /\ UNCHANGED <<config, sent, seen, made, view, parcel>>

BothAccept == Accepts(client, type, dir) /\ Accepts(server, type, dir)
NdkAborts == "NDK" \in {client, server} /\ ~NdkHas(type)
JavacAccepts ==
  /\ server = "JAVA" => JavaStubBuilds(type, dir)
  /\ client = "JAVA" => JavaProxyBuilds(type, dir)

Refuse == ~BothAccept /\ Compiled("refused")
Abort == BothAccept /\ NdkAborts /\ Compiled("aborted")
JavacFails == BothAccept /\ ~NdkAborts /\ ~JavacAccepts /\ Compiled("javac")
Build == BothAccept /\ ~NdkAborts /\ JavacAccepts /\ Compiled("call")

-----------------------------------------------------------------------------
(* The call.                                                               *)

\* The proxy writes its argument; of an out array only the length.
WriteRequest ==
  /\ phase = "call"
  /\ \E v \in IF dir = "return" THEN {Null} ELSE Values(client, type, context) :
       /\ sent' = v /\ view' = v
       /\ parcel' = CASE dir \in {"in", "inout"} -> Written(client, type, v)
                      [] dir = "out" /\ IsArray(type) -> LengthWritten(v)
                      [] OTHER -> <<Trailer>>
       /\ phase' = IF dir \in {"in", "inout"} /\ ~Writable(client, type, v)
                   THEN "request failed" ELSE "request"
  /\ UNCHANGED <<config, seen, made>>

Received(v) ==
  /\ seen' = v
  /\ phase' = "serve"
  /\ UNCHANGED <<config, sent, made, view, parcel>>
Stop(p) ==
  /\ phase' = p
  /\ UNCHANGED <<config, sent, seen, made, view, parcel>>

\* The stub reads an in or inout argument.
ReadRequest ==
  /\ phase = "request" /\ dir \in {"in", "inout"}
  /\ IF ~InPlace(server, type) THEN Stop("misread")
     ELSE LET v == Head(parcel).value
          IN  IF Readable(server, type, context, v) THEN Received(v)
              ELSE Stop("request failed")

\* The stub makes an array of the length that the client sent.
FreshItem(lang, t, c) ==
  IF \/ lang = "JAVA" /\ t.name \notin Primitive
     \/ lang # "JAVA" /\ t.name = "String" /\ Nullable(lang, t, c)
  THEN Null ELSE Blank
FreshArray(lang, t, c, n) == [i \in 1 .. n |-> FreshItem(lang, t, c)]
ReadLength ==
  /\ phase = "request" /\ dir = "out" /\ IsArray(type)
  /\ LET n == Head(parcel).value
     IN  CASE n >= 0 -> Received(FreshArray(server, type, context, n))
           [] n < 0 /\ (server = "JAVA" \/ Nullable(server, type, context)) ->
                Received(Null)
           \* AParcel_resizeVector fails, but its status is not looked at.
           [] n < 0 /\ server = "NDK" /\ ~type.nullable -> Received(<<>>)
           [] OTHER -> Stop("request failed")

\* Other out arguments, and the result, start as a new object.
FreshObject(lang, t, c) ==
  IF lang # "JAVA" /\ Nullable(lang, t, c) THEN Null
  ELSE IF IsSequence(t) THEN <<>> ELSE Blank
NewInoutObject ==  \* a mutant: an inout argument starts as a new object
  /\ phase = "request" /\ dir \in {"out", "inout"} /\ ~IsArray(type)
  /\ Received(FreshObject(server, type, context))

NewObject ==
  /\ phase = "request" /\ dir = "out" /\ ~IsArray(type)
  /\ Received(FreshObject(server, type, context))
NoArgument ==
  /\ phase = "request" /\ dir = "return"
  /\ Received(Null)

\* The implementation returns. In Java it cannot replace the object it was
\* given nor resize an array.
CanLeave(v) ==
  server = "JAVA" /\ dir # "return" =>
    /\ v = Null <=> seen = Null
    /\ IsArray(type) /\ v # Null => Len(v) = Len(seen)
WriteReply ==
  /\ phase = "serve" /\ dir # "in"
  /\ \E v \in Values(server, type, context) :
       /\ CanLeave(v)
       /\ made' = v
       /\ parcel' = Written(server, type, v)
       /\ phase' = IF Writable(server, type, v) THEN "reply" ELSE "reply failed"
  /\ UNCHANGED <<config, sent, seen, view>>
NothingToWrite ==
  /\ phase = "serve" /\ dir = "in"
  /\ Stop("done")

Delivered(v) ==
  /\ view' = v
  /\ phase' = "done"
  /\ UNCHANGED <<config, sent, seen, made, parcel>>

\* The C++ and NDK proxies read into the caller's variable; every proxy
\* creates the result.
ReadReply ==
  /\ phase = "reply" /\ (client # "JAVA" \/ dir = "return")
  /\ IF ~InPlace(client, type) THEN Stop("misread")
     ELSE LET v == Head(parcel).value
          IN  IF Readable(client, type, context, v) THEN Delivered(v)
              ELSE Stop("reply failed")

JavaAssignsStrings(t) ==  \* a mutant: createStringArray for an out argument
  \/ t.form = "one" /\ t.name \in {"Map", "ParcelFileDescriptor"}
  \/ t.form = "array" /\ t.name \in {"IBinder", "FileDescriptor", "String"}
\* ReadFromParcelFor of the Java backend assigns these to the parameter of the
\* proxy, or emits nothing: the caller keeps what it passed.
JavaAssigns(t) ==
  \/ t.form = "one" /\ t.name \in {"Map", "ParcelFileDescriptor"}
  \/ t.form = "array" /\ t.name \in {"IBinder", "FileDescriptor"}
JavaFillsLists(old, v) ==  \* a mutant: lists are filled as arrays are
  CASE type.name = "List" -> v = Null \/ v = <<>> \/ old # Null
    [] type.form # "one" -> v # Null /\ old # Null /\ Len(v) = Len(old)
    [] OTHER -> v = Null \/ old # Null
\* It fills others in place. readList appends; the typed lists and the arrays
\* are overwritten, and an array must have the length that is read.
JavaFills(old, v) ==
  CASE type.name = "List" -> v = Null \/ v = <<>> \/ old # Null
    [] IsArray(type) -> v # Null /\ old # Null /\ Len(v) = Len(old)
    [] IsList(type)  -> old # Null /\ (v = Null => old = <<>>)
    [] OTHER -> v = Null \/ old # Null
JavaFilled(old, v) ==
  CASE v = Null -> old
    [] v # Null /\ type.name = "List" -> IF v = <<>> THEN old ELSE old \o v
    [] OTHER -> v
JavaReadReply ==
  /\ phase = "reply" /\ client = "JAVA" /\ dir # "return"
  /\ LET v == Head(parcel).value
     IN  CASE ~InPlace(client, type) -> Stop("misread")
           [] InPlace(client, type) /\ (JavaAssigns(type) \/ ~JavaEmits(type)) ->
                Delivered(view)
           [] InPlace(client, type) /\ ~JavaAssigns(type) /\ JavaEmits(type)
                /\ JavaFills(view, v) -> Delivered(JavaFilled(view, v))
           [] OTHER -> Stop("reply failed")

Next ==
  \/ Refuse \/ Abort \/ JavacFails \/ Build
  \/ WriteRequest \/ ReadRequest \/ ReadLength \/ NewObject \/ NoArgument
  \/ WriteReply \/ NothingToWrite \/ ReadReply \/ JavaReadReply

Spec == Init /\ [][Next]_vars

-----------------------------------------------------------------------------
Phase == {"compile", "call", "request", "serve", "reply"}
Final == {"refused", "aborted", "javac", "request failed", "reply failed",
          "misread", "done"}

\* Each side only ever holds values that its declaration of the type can
\* hold: no null reaches a C++ or NDK implementation, or comes back to a C++
\* or NDK caller, through a type without room for it.
TypeOK ==
  /\ type \in Types /\ dir \in {"in", "out", "inout", "return"}
  /\ context \in BOOLEAN /\ client \in Backends /\ server \in Backends
  /\ phase \in Phase \cup Final
  /\ sent = Null \/ sent \in Holds(client, type, context)
  /\ phase \in {"serve", "reply", "done"} /\ dir # "return" =>
       seen \in Holds(server, type, context)
  /\ phase = "reply" => made \in Holds(server, type, context)
  /\ phase = "done" /\ dir # "in" => view \in Holds(client, type, context)

\* An implementation that runs was given exactly what the caller passed,
\* whatever the two backends: no accepted type is written in one form and
\* read in another, or lost on the way in.
InArrives ==
  phase \in {"serve", "reply", "done"} /\ dir \in {"in", "inout"} => seen = sent

\* The types whose out values do not reach a Java caller: reassigned
\* parameters, types for which nothing is emitted, and the untyped list, to
\* which readList appends.
LostInJava(t) ==
  CASE IsArray(t) -> t.name \in {"IBinder", "FileDescriptor"}
    [] IsList(t)  -> t.name \notin {"String", "IBinder", "parcelable"}
    [] OTHER      -> t.name \in {"Map", "ParcelFileDescriptor", "List"}
\* A call that succeeds leaves the caller with what the implementation left;
\* in Java except for those types, and a null leaves the caller's own object.
OutArrives ==
  phase = "done" /\ dir # "in" =>
    \/ view = made
    \/ /\ client = "JAVA" /\ dir # "return"
       /\ LostInJava(type) \/ (made = Null /\ view = sent)

\* The two sides never disagree on where a value lies in the parcel.
NoMisread == phase # "misread"

\* A call of types both sides accepted fails only over a null that was sent or
\* left, or because a Java caller passed no object to fill, or because a native
\* implementation resized an array that a Java caller owns.
FailsForCause ==
  /\ phase = "request failed" => sent = Null \/ HasNullItem(type, sent)
  /\ phase = "reply failed" =>
       \/ made = Null \/ HasNullItem(type, made)
       \/ client = "JAVA" /\ dir # "return" /\ sent = Null
       \/ /\ client = "JAVA" /\ server # "JAVA" /\ IsArray(type)
          /\ Len(sent) # Len(made)

\* A null that reaches a native implementation was declared: by @nullable on
\* the type, on the interface in C++, or by any interface type in the NDK.
NullIsDeclared ==
  phase \in {"serve", "reply", "done"} /\ dir # "return" /\ server # "JAVA"
  /\ seen = Null =>
    \/ type.nullable
    \/ server = "CPP" /\ context
    \/ server = "NDK" /\ type.name = "interface"

\* "Writes code fragment that reads data from the parcel into an existing
\* array or a List" (aidl_to_java.h): after a call the caller's array holds
\* what the implementation left in it.
JavaReadsIntoExisting ==
  phase = "done" /\ client = "JAVA" /\ dir \in {"out", "inout"}
  /\ IsArray(type) /\ made # Null => view = made
==============================================================================
