--------------------------- MODULE MarshallingProofs ---------------------------
(***************************************************************************)
(* Theorems of Marshalling for any types, values and lengths.              *)
(***************************************************************************)
EXTENDS Marshalling, SequenceTheorems, TLAPS

Lang == {"CPP", "NDK", "JAVA"}
Dir == {"in", "out", "inout", "return"}

\* What Accepts and NdkHas say of one end.
Usable(lang, t, d) == Accepts(lang, t, d) /\ (lang = "NDK" => NdkHas(t))

-----------------------------------------------------------------------------
(* The tables of the three backends.                                       *)

\* The tables of the backends give one form to every name two of them have.
LEMMA FormsAgree ==
  /\ \A n \in Name \ {"CharSequence", "List"} : CppForm[n] = JavaForm[n]
  /\ \A n \in Name \ {"CharSequence", "FileDescriptor", "Map", "List"} :
       NdkForm[n] = CppForm[n]
  BY DEF CppForm, NdkForm, JavaForm, Name, BuiltIn, Primitive

\* What the C++ name space accepts has a form there.
LEMMA CppNames ==
  ASSUME NEW t \in AidlType, CppKnows(t)
  PROVE  t.name \in Name \ {"CharSequence", "List"}
  BY DEF AidlType, CppKnows, CppArrays, IsArray, IsList, Name, BuiltIn, Primitive

\* What the NDK has a type for, has a form.
LEMMA NdkNames ==
  ASSUME NEW t \in AidlType, NdkHas(t)
  PROVE  t.name \in Name \ {"CharSequence", "FileDescriptor", "Map", "List"}
  BY DEF AidlType, NdkHas, IsArray, IsList, Name, BuiltIn, Primitive

\* A type that two backends can use is written in the same form by both.
LEMMA WiresAgree ==
  ASSUME NEW t \in AidlType, NEW d \in Dir, NEW l \in Lang, NEW k \in Lang,
         Usable(l, t, d), Usable(k, t, d)
  PROVE  Wire(l, t) = Wire(k, t)
<1>1. l # "JAVA" => Wire(l, t) = CppWire(t)
  <2>1. CASE l = "CPP"
    BY <2>1 DEF Wire
  <2>2. CASE l = "NDK"
    <3>1. NdkForm[t.name] = CppForm[t.name]
      BY <2>2, NdkNames, FormsAgree DEF Usable
    <3> QED BY <2>2, <3>1 DEF Wire, NdkWire, CppWire, WireOf
  <2> QED BY <2>1, <2>2 DEF Lang
<1>2. k # "JAVA" => Wire(k, t) = CppWire(t)
  <2>1. CASE k = "CPP"
    BY <2>1 DEF Wire
  <2>2. CASE k = "NDK"
    <3>1. NdkForm[t.name] = CppForm[t.name]
      BY <2>2, NdkNames, FormsAgree DEF Usable
    <3> QED BY <2>2, <3>1 DEF Wire, NdkWire, CppWire, WireOf
  <2> QED BY <2>1, <2>2 DEF Lang
<1>3. CppKnows(t) => JavaWire(t) = CppWire(t)
  BY CppNames, FormsAgree DEF CppWire, JavaWire, WireOf
<1>4. /\ Wire("JAVA", t) = JavaWire(t)
      /\ l # "JAVA" \/ k # "JAVA" => CppKnows(t)
  BY DEF Wire, Usable, Accepts
<1> QED BY <1>1, <1>2, <1>3, <1>4

\* The methods for Java emit code for every type that C++ knows too.
LEMMA CppKnowsWhatJavaEmits ==
  ASSUME NEW t \in AidlType, CppKnows(t)
  PROVE  JavaEmits(t)
  BY DEF AidlType, CppKnows, CppArrays, JavaEmits, IsMarshallingUnsupportedFor,
         IsArray, IsList, Name, BuiltIn, Primitive

\* Code for the value is emitted at both ends or at neither.
LEMMA EmitsAgree ==
  ASSUME NEW t \in AidlType, NEW d \in Dir, NEW l \in Lang, NEW k \in Lang,
         Usable(l, t, d), Usable(k, t, d)
  PROVE  /\ EmitsFor(l, t) = EmitsFor(k, t)
         /\ k # "JAVA" => EmitsFor(l, t)
  BY CppKnowsWhatJavaEmits DEF EmitsFor, Usable, Accepts

-----------------------------------------------------------------------------
(* Nulls.                                                                  *)

\* A null that one end has and the other reads is one the other can hold.
LEMMA NullsFit ==
  ASSUME NEW t \in AidlType, NEW d \in Dir, NEW c \in BOOLEAN,
         NEW l \in Lang, NEW k \in Lang,
         Usable(l, t, d), Usable(k, t, d),
         HoldsNull(l, t, c), ReadsNull(k, t, c)
  PROVE  HoldsNull(k, t, c)
<1>1. CASE k = "JAVA"
  <2>1. CASE t.form # "one"
    BY <1>1, <2>1 DEF HoldsNull
  <2>2. CASE t.form = "one"
    <3>1. t.name \notin Primitive
      BY <2>2 DEF HoldsNull, Usable, Accepts, CheckValid, IsArray, Nullable,
                  CppHasNullable, Primitive, Lang
    <3> QED BY <1>1, <3>1 DEF HoldsNull
  <2> QED BY <2>1, <2>2
<1>2. CASE k = "CPP"
  BY <1>2 DEF HoldsNull, ReadsNull
<1>3. CASE k = "NDK"
  BY <1>3 DEF HoldsNull, ReadsNull, Usable, NdkHas, IsArray, IsList, AidlType,
              Primitive
<1> QED BY <1>1, <1>2, <1>3 DEF Lang

\* The same of a null among the items.
LEMMA NullItemsFit ==
  ASSUME NEW t \in AidlType, NEW c \in BOOLEAN, NEW l \in Lang, NEW k \in Lang,
         HoldsNullItem(l, t, c), ReadsNullItem(k, t, c)
  PROVE  HoldsNullItem(k, t, c)
  BY DEF HoldsNullItem, ReadsNullItem, Nullable, Primitive, Lang

\* A sequence whose items are all in a set is a sequence over the set.
LEMMA SeqOver ==
  ASSUME NEW S, NEW T, NEW s \in Seq(S), \A i \in DOMAIN s : s[i] \in T
  PROVE  s \in Seq(T)
  BY ElementOfSeq, LenProperties DEF Seq

\* No sequence of items is a null or an element.
LEMMA NullIsNoSequence ==
  ASSUME NEW l, NEW t, NEW c, NEW v \in Seq(Item(l, t, c))
  PROVE  v # Null /\ v \notin Element
<1>1. \A i \in DOMAIN v : v[i] \in Element \cup {Null}
  BY ElementOfSeq, LenProperties DEF Item
<1>2. v \in Seq(Element \cup {Null})
  BY <1>1, SeqOver
<1> QED BY <1>2, MarshallingAssumption

\* The values that user code passes are values that its variables hold.
LEMMA ValuesAreHeld ==
  ASSUME NEW l, NEW t, NEW c, NEW v \in Values(l, t, c)
  PROVE  v \in Holds(l, t, c)
<1>1. CASE v = Null /\ HoldsNull(l, t, c)
  BY <1>1 DEF Holds
<1>2. CASE ~IsSequence(t) /\ v \in Element
  BY <1>2 DEF Holds
<1>3. CASE /\ IsSequence(t)
           /\ v \in UNION {[1 .. n -> Item(l, t, c)] : n \in Lengths}
  <2>1. PICK n \in Lengths : v \in [1 .. n -> Item(l, t, c)]
    BY <1>3
  <2>2. n \in Nat
    BY MarshallingAssumption
  <2>3. v \in Seq(Item(l, t, c))
    BY <2>1, <2>2 DEF Seq
  <2> QED BY <1>3, <2>3 DEF Holds
<1> QED BY <1>1, <1>2, <1>3 DEF Values

\* What one end holds and the other can read, the other can hold.
LEMMA WhatIsReadIsHeld ==
  ASSUME NEW t \in AidlType, NEW d \in Dir, NEW c \in BOOLEAN,
         NEW l \in Lang, NEW k \in Lang,
         Usable(l, t, d), Usable(k, t, d),
         NEW v \in Holds(l, t, c), Readable(k, t, c, v)
  PROVE  v \in Holds(k, t, c)
<1>1. CASE v = Null /\ HoldsNull(l, t, c)
  BY <1>1, NullsFit DEF Holds, Readable
<1>2. CASE ~IsSequence(t) /\ v \in Element
  BY <1>2 DEF Holds
<1>3. CASE IsSequence(t) /\ v \in Seq(Item(l, t, c))
  <2>1. v # Null
    BY <1>3, MarshallingAssumption, NullIsNoSequence
  <2>2. \A i \in DOMAIN v : v[i] \in Item(k, t, c)
    <3> SUFFICES ASSUME NEW i \in DOMAIN v
                 PROVE  v[i] \in Item(k, t, c)
      OBVIOUS
    <3>1. v[i] \in Item(l, t, c)
      BY <1>3, ElementOfSeq, LenProperties
    <3>2. CASE v[i] # Null
      BY <3>1, <3>2 DEF Item
    <3>3. CASE v[i] = Null
      <4>1. HoldsNullItem(l, t, c)
        BY <3>1, <3>3, MarshallingAssumption DEF Item
      <4>2. ReadsNullItem(k, t, c)
        BY <1>3, <2>1, <3>3 DEF Readable, HasNullItem
      <4> QED BY <3>3, <4>1, <4>2, NullItemsFit DEF Item
    <3> QED BY <3>2, <3>3
  <2>3. v \in Seq(Item(k, t, c))
    BY <1>3, <2>2, SeqOver
  <2> QED BY <1>3, <2>3 DEF Holds
<1> QED BY <1>1, <1>2, <1>3 DEF Holds

-----------------------------------------------------------------------------
(* Parcels.                                                                *)

\* What one end wrote of a value, the other finds in its place.
LEMMA WrittenIsInPlace ==
  ASSUME NEW t \in AidlType, NEW d \in Dir, NEW l \in Lang, NEW k \in Lang,
         Usable(l, t, d), Usable(k, t, d), NEW v, parcel = Written(l, t, v)
  PROVE  /\ InPlace(k, t)
         /\ EmitsFor(k, t) => Head(parcel).value = v
<1>1. EmitsFor(l, t) = EmitsFor(k, t) /\ Wire(l, t) = Wire(k, t)
  BY EmitsAgree, WiresAgree
<1>2. CASE EmitsFor(k, t)
  <2>1. parcel = <<[wire |-> Wire(k, t), value |-> v]>> \o <<Trailer>>
    BY <1>1, <1>2 DEF Written
  <2>2. Head(parcel) = [wire |-> Wire(k, t), value |-> v]
    BY <2>1
  <2> QED BY <1>2, <2>1, <2>2 DEF InPlace, Written
<1>3. CASE ~EmitsFor(k, t)
  <2>1. parcel = <<>> \o <<Trailer>>
    BY <1>1, <1>3 DEF Written
  <2>2. parcel = <<Trailer>>
    BY <2>1
  <2> QED BY <1>3, <2>2 DEF InPlace
<1> QED BY <1>2, <1>3

\* An array made from the length that was sent fits its type.
LEMMA FreshArrayIsHeld ==
  ASSUME NEW t \in AidlType, NEW c \in BOOLEAN, NEW l \in Lang, NEW n \in Nat,
         IsArray(t)
  PROVE  /\ FreshArray(l, t, c, n) \in Holds(l, t, c)
         /\ FreshArray(l, t, c, n) # Null
         /\ Len(FreshArray(l, t, c, n)) = n
<1>1. FreshItem(l, t, c) \in Item(l, t, c)
  BY MarshallingAssumption
     DEF FreshItem, Item, HoldsNullItem, Nullable, Primitive, Lang
<1>2. /\ FreshArray(l, t, c, n) \in Seq(Item(l, t, c))
      /\ Len(FreshArray(l, t, c, n)) = n
  BY <1>1 DEF FreshArray
<1>3. IsSequence(t)
  BY DEF IsSequence, IsArray
<1> QED BY <1>2, <1>3, NullIsNoSequence DEF Holds

\* So does a new object.
LEMMA FreshObjectIsHeld ==
  ASSUME NEW t \in AidlType, NEW c \in BOOLEAN, NEW l \in Lang
  PROVE  /\ FreshObject(l, t, c) \in Holds(l, t, c)
         /\ FreshObject(l, t, c) = Null => l # "JAVA" /\ Nullable(l, t, c)
<1>1. <<>> \in Seq(Item(l, t, c)) /\ <<>> # Null
  <2>1. <<>> \in Seq(Item(l, t, c))
    OBVIOUS
  <2> QED BY <2>1, NullIsNoSequence
<1>2. Blank \in Element /\ Blank # Null
  BY MarshallingAssumption
<1>3. l # "JAVA" /\ Nullable(l, t, c) => HoldsNull(l, t, c)
  BY DEF Lang, Nullable, HoldsNull
<1> QED BY <1>1, <1>2, <1>3 DEF FreshObject, Holds

-----------------------------------------------------------------------------
(* The inductive invariant.                                                *)

Built == phase \in {"call", "request", "serve", "reply", "done"}
\* A call is made only of code that compiled.
BuiltInv == Built => BothAccept /\ ~NdkAborts /\ JavacAccepts
\* The caller's variable, and the request.
RequestInv ==
  /\ phase \in {"request", "serve", "reply"} =>
       /\ view = sent
       /\ dir # "return" => sent \in Holds(client, type, context)
  /\ phase = "request" =>
       /\ dir \in {"in", "inout"} => parcel = Written(client, type, sent)
       /\ dir = "out" /\ IsArray(type) => parcel = LengthWritten(sent)
\* A Java implementation has an array of the caller's length.
SizeInv ==
  phase = "serve" /\ server = "JAVA" /\ dir \in {"out", "inout"} /\ IsArray(type) =>
    /\ sent = Null <=> seen = Null
    /\ sent # Null => Len(seen) = Len(sent)
\* The reply.
ReplyInv ==
  phase = "reply" =>
    /\ dir # "in"
    /\ parcel = Written(server, type, made)
    /\ server = "JAVA" /\ dir # "return" /\ IsArray(type)
       /\ sent # Null /\ made # Null => Len(made) = Len(sent)

IInv ==
  /\ TypeOK /\ NoMisread
  /\ BuiltInv /\ RequestInv /\ SizeInv /\ ReplyInv
  /\ InArrives /\ OutArrives /\ FailsForCause /\ NullIsDeclared

\* The two ends of a call can use its type.
LEMMA EndsAreUsable ==
  ASSUME IInv, Built
  PROVE  /\ type \in AidlType /\ dir \in Dir
         /\ client \in Lang /\ server \in Lang
         /\ Usable(client, type, dir) /\ Usable(server, type, dir)
  BY MarshallingAssumption DEF IInv, TypeOK, BuiltInv, BothAccept, NdkAborts,
     Usable, Lang, Dir

\* Nothing is claimed of what is still to be compiled.
LEMMA InitEstablishesIInv == Init => IInv
  BY DEF Init, IInv, TypeOK, NoMisread, BuiltInv, Built, RequestInv, SizeInv,
     ReplyInv, InArrives, OutArrives, FailsForCause, NullIsDeclared, Phase, Final

\* Only the verdict of the compilers leads to a call.
LEMMA CompiledStep ==
  ASSUME IInv, Refuse \/ Abort \/ JavacFails \/ Build
  PROVE  IInv'
  BY DEF Refuse, Abort, JavacFails, Build, Compiled, config,
     IInv, TypeOK, NoMisread, BuiltInv, Built, BothAccept, NdkAborts,
     JavacAccepts, RequestInv, SizeInv, ReplyInv, InArrives, OutArrives,
     FailsForCause, NullIsDeclared, Phase, Final

-----------------------------------------------------------------------------
(* One lemma for each step of a call.                                      *)

\* The request holds what the caller passes, or a null stopped it.
LEMMA WriteRequestStep ==
  ASSUME IInv, WriteRequest
  PROVE  IInv'
<1> USE DEF WriteRequest, config
<1>1. PICK v \in IF dir = "return" THEN {Null} ELSE Values(client, type, context) :
        /\ sent' = v /\ view' = v
        /\ parcel' = CASE dir \in {"in", "inout"} -> Written(client, type, v)
                       [] dir = "out" /\ IsArray(type) -> LengthWritten(v)
                       [] OTHER -> <<Trailer>>
        /\ phase' = IF dir \in {"in", "inout"} /\ ~Writable(client, type, v)
                    THEN "request failed" ELSE "request"
  OBVIOUS
<1>2. /\ dir = "return" => v = Null
      /\ dir # "return" => v \in Holds(client, type, context)
  BY <1>1, ValuesAreHeld
<1>3. TypeOK' /\ NoMisread'
  BY <1>1, <1>2 DEF IInv, TypeOK, NoMisread, Phase, Final
<1>4. BuiltInv' /\ SizeInv' /\ ReplyInv'
  BY <1>1 DEF IInv, BuiltInv, Built, BothAccept, NdkAborts, JavacAccepts,
              SizeInv, ReplyInv
<1>5. RequestInv'
  <2>1. dir \in {"in", "inout"} => parcel' = Written(client, type, v)
    BY <1>1
  <2>2. dir = "out" /\ IsArray(type) => parcel' = LengthWritten(v)
    BY <1>1
  <2> QED BY <1>1, <1>2, <2>1, <2>2 DEF RequestInv
<1>6. InArrives' /\ OutArrives' /\ NullIsDeclared'
  BY <1>1 DEF InArrives, OutArrives, NullIsDeclared
<1>7. FailsForCause'
  BY <1>1 DEF FailsForCause, Writable
<1> QED BY <1>3, <1>4, <1>5, <1>6, <1>7 DEF IInv


\* What has to be known of the value an implementation is called with.
LEMMA ReceivedStep ==
  ASSUME IInv, phase = "request", NEW v, Received(v),
         dir # "return" => v \in Holds(server, type, context),
         dir \in {"in", "inout"} => v = sent,
         dir # "return" /\ server # "JAVA" /\ v = Null =>
           \/ type.nullable
           \/ server = "CPP" /\ context
           \/ server = "NDK" /\ type.name = "interface",
         server = "JAVA" /\ dir = "out" /\ IsArray(type) =>
           /\ sent = Null <=> v = Null
           /\ sent # Null => Len(v) = Len(sent)
  PROVE  IInv'
<1> USE DEF Received, config
<1>1. TypeOK' /\ NoMisread'
  BY DEF IInv, TypeOK, NoMisread, Phase, Final
<1>2. BuiltInv' /\ SizeInv' /\ ReplyInv'
  <2>1. SizeInv'
    BY DEF IInv, SizeInv
  <2> QED BY <2>1 DEF IInv, BuiltInv, Built, BothAccept, NdkAborts, JavacAccepts,
                      ReplyInv
<1>3. RequestInv'
  BY DEF IInv, RequestInv
<1>4. InArrives' /\ OutArrives' /\ FailsForCause' /\ NullIsDeclared'
  BY DEF InArrives, OutArrives, FailsForCause, NullIsDeclared
<1> QED BY <1>1, <1>2, <1>3, <1>4 DEF IInv

\* What has to be known of a call that fails.
LEMMA FailedStep ==
  ASSUME IInv, NEW p \in {"request failed", "reply failed"}, Stop(p),
         p = "request failed" => sent = Null \/ HasNullItem(type, sent),
         p = "reply failed" =>
           \/ made = Null \/ HasNullItem(type, made)
           \/ client = "JAVA" /\ dir # "return" /\ sent = Null
           \/ /\ client = "JAVA" /\ server # "JAVA" /\ IsArray(type)
              /\ Len(sent) # Len(made)
  PROVE  IInv'
<1> USE DEF Stop, config
<1>1. TypeOK' /\ NoMisread'
  BY DEF IInv, TypeOK, NoMisread, Phase, Final
<1>2. BuiltInv' /\ RequestInv' /\ SizeInv' /\ ReplyInv'
  BY DEF BuiltInv, Built, RequestInv, SizeInv, ReplyInv
<1>3. InArrives' /\ OutArrives' /\ NullIsDeclared'
  BY DEF InArrives, OutArrives, NullIsDeclared
<1>4. FailsForCause'
  BY DEF FailsForCause, HasNullItem
<1> QED BY <1>1, <1>2, <1>3, <1>4 DEF IInv

\* The server finds the argument in its place and reads what was sent, or
\* stops at a null that it has no room for.
LEMMA ReadRequestStep ==
  ASSUME IInv, ReadRequest
  PROVE  IInv'
<1>1. /\ phase = "request" /\ dir \in {"in", "inout"}
      /\ parcel = Written(client, type, sent)
      /\ sent \in Holds(client, type, context)
  BY DEF ReadRequest, IInv, RequestInv
<1>2. /\ type \in AidlType /\ dir \in Dir /\ context \in BOOLEAN
      /\ client \in Lang /\ server \in Lang
      /\ Usable(client, type, dir) /\ Usable(server, type, dir)
  BY <1>1, EndsAreUsable DEF Built, IInv, TypeOK
<1>3. EmitsFor(server, type)
  BY <1>1, <1>2, EmitsAgree
     DEF IInv, BuiltInv, Built, JavacAccepts, JavaStubBuilds, EmitsFor
<1>4. InPlace(server, type) /\ Head(parcel).value = sent
  BY <1>1, <1>2, <1>3, WrittenIsInPlace
<1>5. CASE Readable(server, type, context, sent)
  <2>1. Received(sent)
    BY <1>4, <1>5 DEF ReadRequest
  <2>2. sent \in Holds(server, type, context)
    BY <1>1, <1>2, <1>5, WhatIsReadIsHeld
  <2>3. server # "JAVA" /\ sent = Null =>
          \/ type.nullable
          \/ server = "CPP" /\ context
          \/ server = "NDK" /\ type.name = "interface"
    BY <1>2, <1>5 DEF Readable, ReadsNull, Nullable, Lang
  <2> QED BY <1>1, <2>1, <2>2, <2>3, ReceivedStep
<1>6. CASE ~Readable(server, type, context, sent)
  <2>1. Stop("request failed")
    BY <1>4, <1>6 DEF ReadRequest
  <2>2. sent = Null \/ HasNullItem(type, sent)
    BY <1>6 DEF Readable
  <2> QED BY <2>1, <2>2, FailedStep
<1> QED BY <1>5, <1>6

\* A new array has the length that was sent.
LEMMA ReadLengthStep ==
  ASSUME IInv, ReadLength
  PROVE  IInv'
<1>1. /\ phase = "request" /\ dir = "out" /\ IsArray(type)
      /\ parcel = LengthWritten(sent)
      /\ sent \in Holds(client, type, context)
  BY DEF ReadLength, IInv, RequestInv
<1>2. /\ type \in AidlType /\ context \in BOOLEAN /\ server \in Lang
      /\ Usable(server, type, dir) /\ Usable(client, type, dir)
      /\ client \in Lang
  BY <1>1, EndsAreUsable DEF Built, IInv, TypeOK
<1> DEFINE n == Head(parcel).value
<1>3. n = IF sent = Null THEN -1 ELSE Len(sent)
  BY <1>1 DEF LengthWritten
<1>4. sent # Null => sent \in Seq(Item(client, type, context))
  BY <1>1 DEF Holds, IsSequence, IsArray
<1>5. /\ sent = Null => n = -1
      /\ sent # Null => n = Len(sent) /\ n \in Nat
  BY <1>3, <1>4, LenProperties
<1> HIDE DEF n
<1>6. CASE sent # Null
  <2>1. Received(FreshArray(server, type, context, n))
    <3>1. n >= 0 /\ ~(n < 0)
      BY <1>5, <1>6
    <3> QED BY <3>1 DEF ReadLength, n
  <2> QED BY <1>1, <1>2, <1>5, <1>6, <2>1, FreshArrayIsHeld, ReceivedStep
<1>7. CASE sent = Null /\ (server = "JAVA" \/ Nullable(server, type, context))
  <2>1. Received(Null)
    <3>1. n = -1 /\ ~(n >= 0) /\ n < 0
      BY <1>5, <1>7
    <3> QED BY <1>7, <3>1 DEF ReadLength, n, Nullable
  <2>2. Null \in Holds(server, type, context)
    <3>1. HoldsNull(server, type, context)
      BY <1>1, <1>2, <1>7 DEF HoldsNull, Nullable, IsArray, Lang
    <3> QED BY <3>1 DEF Holds
  <2>3. server # "JAVA" => type.nullable \/ (server = "CPP" /\ context)
    BY <1>7 DEF Nullable
  <2> QED BY <1>1, <1>7, <2>1, <2>2, <2>3, ReceivedStep
<1>8. CASE sent = Null /\ server = "NDK" /\ ~type.nullable
  <2>1. n = -1 /\ ~(n >= 0) /\ n < 0
    BY <1>5, <1>8
  <2>2. ~Nullable(server, type, context) /\ server # "JAVA"
    BY <1>8 DEF Nullable
  <2>3. Received(<<>>)
    BY <1>8, <2>1, <2>2 DEF ReadLength, n
  <2>4. <<>> \in Seq(Item(server, type, context))
    OBVIOUS
  <2>5. <<>> \in Holds(server, type, context) /\ <<>> # Null
    BY <1>1, <2>4, NullIsNoSequence DEF Holds, IsSequence, IsArray
  <2> QED BY <1>1, <1>8, <2>3, <2>5, ReceivedStep
<1>9. CASE sent = Null /\ server # "JAVA" /\ ~Nullable(server, type, context)
           /\ ~(server = "NDK" /\ ~type.nullable)
  <2>1. Stop("request failed")
    <3>1. n = -1 /\ ~(n >= 0) /\ n < 0
      BY <1>5, <1>9
    <3> QED BY <1>9, <3>1 DEF ReadLength, n
  <2> QED BY <1>9, <2>1, FailedStep
<1> QED BY <1>6, <1>7, <1>8, <1>9

\* A new object, or no argument at all.
LEMMA NewObjectStep ==
  ASSUME IInv, NewObject \/ NoArgument
  PROVE  IInv'
<1>1. CASE NewObject
  <2>1. phase = "request" /\ dir = "out" /\ ~IsArray(type)
    BY <1>1 DEF NewObject
  <2>2. type \in AidlType /\ context \in BOOLEAN /\ server \in Lang
    BY <2>1, EndsAreUsable DEF Built, IInv, TypeOK
  <2> DEFINE v == FreshObject(server, type, context)
  <2>3. Received(v)
    BY <1>1 DEF NewObject
  <2>4. v \in Holds(server, type, context)
    BY <2>2, FreshObjectIsHeld
  <2>5. v = Null => type.nullable \/ (server = "CPP" /\ context)
    BY <2>2, FreshObjectIsHeld DEF Nullable
  <2> HIDE DEF v
  <2> QED BY <2>1, <2>3, <2>4, <2>5, ReceivedStep
<1>2. CASE NoArgument
  BY <1>2, ReceivedStep DEF NoArgument
<1> QED BY <1>1, <1>2


\* The reply holds what the implementation leaves, an array of the caller's
\* length where the implementation is in Java.
LEMMA WriteReplyStep ==
  ASSUME IInv, WriteReply
  PROVE  IInv'
<1> USE DEF WriteReply, config
<1>1. PICK v \in Values(server, type, context) :
        /\ CanLeave(v)
        /\ made' = v
        /\ parcel' = Written(server, type, v)
        /\ phase' = IF Writable(server, type, v) THEN "reply" ELSE "reply failed"
  OBVIOUS
<1>2. v \in Holds(server, type, context)
  BY ValuesAreHeld
<1>3. TypeOK' /\ NoMisread'
  BY <1>1, <1>2 DEF IInv, TypeOK, NoMisread, Phase, Final
<1>4. BuiltInv' /\ RequestInv' /\ SizeInv'
  BY <1>1 DEF IInv, BuiltInv, Built, BothAccept, NdkAborts, JavacAccepts,
              RequestInv, SizeInv
<1>5. ReplyInv'
  <2>1. server = "JAVA" /\ dir # "return" /\ IsArray(type)
        /\ sent # Null /\ v # Null => Len(v) = Len(sent)
    <3>1. dir \in {"in", "out", "inout", "return"}
      BY DEF IInv, TypeOK
    <3> QED BY <1>1, <3>1 DEF IInv, SizeInv, CanLeave
  <2> QED BY <1>1, <2>1 DEF ReplyInv
<1>6. InArrives' /\ OutArrives' /\ NullIsDeclared'
  BY <1>1 DEF IInv, InArrives, OutArrives, NullIsDeclared
<1>7. FailsForCause'
  BY <1>1 DEF FailsForCause, Writable, HasNullItem
<1> QED BY <1>3, <1>4, <1>5, <1>6, <1>7 DEF IInv

\* Nothing comes back of an in argument.
LEMMA NothingToWriteStep ==
  ASSUME IInv, NothingToWrite
  PROVE  IInv'
<1> USE DEF NothingToWrite, Stop, config
<1>1. TypeOK' /\ NoMisread'
  BY DEF IInv, TypeOK, NoMisread, Phase, Final
<1>2. BuiltInv' /\ RequestInv' /\ SizeInv' /\ ReplyInv'
  BY DEF IInv, BuiltInv, Built, BothAccept, NdkAborts, JavacAccepts, RequestInv,
         SizeInv, ReplyInv
<1>3. InArrives' /\ OutArrives' /\ FailsForCause' /\ NullIsDeclared'
  BY DEF IInv, InArrives, OutArrives, FailsForCause, NullIsDeclared
<1> QED BY <1>1, <1>2, <1>3 DEF IInv

\* What has to be known of the value the caller is left with.
LEMMA DeliveredStep ==
  ASSUME IInv, phase = "reply", NEW v, Delivered(v),
         v \in Holds(client, type, context),
         \/ v = made
         \/ /\ client = "JAVA" /\ dir # "return"
            /\ LostInJava(type) \/ (made = Null /\ v = sent)
  PROVE  IInv'
<1> USE DEF Delivered, config
<1>1. TypeOK' /\ NoMisread'
  BY DEF IInv, TypeOK, NoMisread, Phase, Final
<1>2. BuiltInv' /\ RequestInv' /\ SizeInv' /\ ReplyInv'
  BY DEF IInv, BuiltInv, Built, BothAccept, NdkAborts, JavacAccepts, RequestInv,
         SizeInv, ReplyInv
<1>3. InArrives' /\ OutArrives' /\ FailsForCause' /\ NullIsDeclared'
  BY DEF IInv, InArrives, OutArrives, FailsForCause, NullIsDeclared
<1> QED BY <1>1, <1>2, <1>3 DEF IInv

\* A proxy that creates the value, or reads into the caller's variable.
LEMMA ReadReplyStep ==
  ASSUME IInv, ReadReply
  PROVE  IInv'
<1>1. /\ phase = "reply" /\ (client # "JAVA" \/ dir = "return")
      /\ parcel = Written(server, type, made)
      /\ made \in Holds(server, type, context)
  BY DEF ReadReply, IInv, TypeOK, ReplyInv
<1>2. /\ type \in AidlType /\ dir \in Dir /\ context \in BOOLEAN
      /\ client \in Lang /\ server \in Lang
      /\ Usable(client, type, dir) /\ Usable(server, type, dir)
  BY <1>1, EndsAreUsable DEF Built, IInv, TypeOK
<1>3. EmitsFor(client, type)
  <2>1. CASE client # "JAVA"
    BY <2>1 DEF EmitsFor
  <2>2. CASE client = "JAVA" /\ dir = "return"
    BY <1>1, <2>2
       DEF IInv, BuiltInv, Built, JavacAccepts, JavaProxyBuilds, EmitsFor
  <2> QED BY <1>1, <2>1, <2>2
<1>4. InPlace(client, type) /\ Head(parcel).value = made
  BY <1>1, <1>2, <1>3, WrittenIsInPlace
<1>5. CASE Readable(client, type, context, made)
  <2>1. Delivered(made)
    BY <1>4, <1>5 DEF ReadReply
  <2>2. made \in Holds(client, type, context)
    BY <1>1, <1>2, <1>5, WhatIsReadIsHeld
  <2> QED BY <1>1, <2>1, <2>2, DeliveredStep
<1>6. CASE ~Readable(client, type, context, made)
  <2>1. Stop("reply failed")
    BY <1>4, <1>6 DEF ReadReply
  <2>2. made = Null \/ HasNullItem(type, made)
    BY <1>6 DEF Readable
  <2> QED BY <2>1, <2>2, FailedStep
<1> QED BY <1>5, <1>6

\* What Java does not emit, or assigns to the parameter, is lost.
LEMMA WhatJavaLoses ==
  ASSUME NEW t \in AidlType, JavaKnows(t), JavaAssigns(t) \/ ~JavaEmits(t)
  PROVE  LostInJava(t)
  BY DEF AidlType, JavaKnows, JavaArrays, CppArrays, JavaAssigns, JavaEmits,
         IsMarshallingUnsupportedFor, LostInJava, IsArray, IsList, Primitive

\* A Java proxy fills the caller's object, or leaves it as it was.
LEMMA JavaReadReplyStep ==
  ASSUME IInv, JavaReadReply
  PROVE  IInv'
<1>1. /\ phase = "reply" /\ client = "JAVA" /\ dir # "return" /\ dir # "in"
      /\ parcel = Written(server, type, made)
      /\ made \in Holds(server, type, context)
      /\ view = sent /\ sent \in Holds(client, type, context)
  BY DEF JavaReadReply, IInv, TypeOK, ReplyInv, RequestInv
<1>2. /\ type \in AidlType /\ dir \in Dir /\ context \in BOOLEAN
      /\ client \in Lang /\ server \in Lang
      /\ Usable(client, type, dir) /\ Usable(server, type, dir)
  BY <1>1, EndsAreUsable DEF Built, IInv, TypeOK
<1>3. /\ InPlace(client, type)
      /\ JavaEmits(type) => Head(parcel).value = made
  BY <1>1, <1>2, WrittenIsInPlace DEF EmitsFor
<1>4. CASE JavaAssigns(type) \/ ~JavaEmits(type)
  <2>1. Delivered(view)
    BY <1>3, <1>4 DEF JavaReadReply
  <2>2. LostInJava(type)
    BY <1>1, <1>2, <1>4, WhatJavaLoses DEF Usable, Accepts
  <2> QED BY <1>1, <2>1, <2>2, DeliveredStep
<1>5. CASE ~JavaAssigns(type) /\ JavaEmits(type) /\ JavaFills(sent, made)
  <2> DEFINE v == JavaFilled(sent, made)
  <2>1. Delivered(v)
    BY <1>1, <1>3, <1>5 DEF JavaReadReply
  <2>2. made \in Holds(client, type, context)
    BY <1>1, <1>2, WhatIsReadIsHeld DEF Readable, ReadsNull, ReadsNullItem
  <2>3. CASE made # Null /\ type.name = "List" /\ made # <<>>
    <3>1. LostInJava(type)
      BY <1>1, <1>2, <2>3 DEF Usable, Accepts, JavaKnows, JavaArrays, CppArrays,
         LostInJava, AidlType, IsArray, IsList, Primitive
    <3>2. IsSequence(type) /\ sent # Null
      BY <1>2, <1>5, <2>3 DEF JavaFills, IsSequence, AidlType
    <3>3. /\ sent \in Seq(Item(client, type, context))
          /\ made \in Seq(Item(client, type, context))
      BY <1>1, <2>2, <2>3, <3>2 DEF Holds
    <3>4. v = sent \o made
      BY <2>3 DEF JavaFilled
    <3>5. v \in Seq(Item(client, type, context))
      BY <3>3, <3>4
    <3>6. v \in Holds(client, type, context)
      BY <3>2, <3>5 DEF Holds
    <3> QED BY <1>1, <2>1, <3>1, <3>6, DeliveredStep
  <2>4. CASE made = Null
    <3>1. v = sent
      BY <2>4 DEF JavaFilled
    <3> QED BY <1>1, <2>1, <2>4, <3>1, DeliveredStep
  <2>5. CASE made # Null /\ type.name # "List"
    <3>1. v = made
      BY <2>5 DEF JavaFilled
    <3> QED BY <1>1, <2>1, <2>2, <3>1, DeliveredStep
  <2>6. CASE made # Null /\ type.name = "List" /\ made = <<>>
    <3>1. v = sent
      <4>1. v = IF made = <<>> THEN sent ELSE sent \o made
        BY <2>6 DEF JavaFilled
      <4> HIDE DEF v
      <4> QED BY <2>6, <4>1
    <3>2. LostInJava(type)
      BY <1>1, <1>2, <2>6 DEF Usable, Accepts, JavaKnows, JavaArrays, CppArrays,
         LostInJava, AidlType, IsArray, IsList, Primitive
    <3> QED BY <1>1, <2>1, <3>1, <3>2, DeliveredStep
  <2> QED BY <2>3, <2>4, <2>5, <2>6
<1>6. CASE ~JavaAssigns(type) /\ JavaEmits(type) /\ ~JavaFills(sent, made)
  <2>1. Stop("reply failed")
    BY <1>1, <1>3, <1>6 DEF JavaReadReply
  <2>2. \/ made = Null \/ sent = Null
        \/ server # "JAVA" /\ IsArray(type) /\ Len(sent) # Len(made)
    <3>1. server = "JAVA" /\ IsArray(type) /\ sent # Null /\ made # Null =>
            Len(made) = Len(sent)
      BY <1>1 DEF IInv, ReplyInv
    <3> QED BY <1>6, <3>1 DEF JavaFills
  <2> QED BY <1>1, <2>1, <2>2, FailedStep
<1> QED BY <1>4, <1>5, <1>6

-----------------------------------------------------------------------------
(* The theorems.                                                           *)

\* IInv holds of every call, for any types, values and backends.
THEOREM Invariance == Spec => []IInv
<1>1. Init => IInv
  BY InitEstablishesIInv
<1>2. IInv /\ [Next]_vars => IInv'
  <2> SUFFICES ASSUME IInv, [Next]_vars
               PROVE  IInv'
    OBVIOUS
  <2>1. CASE Refuse \/ Abort \/ JavacFails \/ Build
    BY <2>1, CompiledStep
  <2>2. CASE WriteRequest
    BY <2>2, WriteRequestStep
  <2>3. CASE ReadRequest
    BY <2>3, ReadRequestStep
  <2>4. CASE ReadLength
    BY <2>4, ReadLengthStep
  <2>5. CASE NewObject \/ NoArgument
    BY <2>5, NewObjectStep
  <2>6. CASE WriteReply
    BY <2>6, WriteReplyStep
  <2>7. CASE NothingToWrite
    BY <2>7, NothingToWriteStep
  <2>8. CASE ReadReply
    BY <2>8, ReadReplyStep
  <2>9. CASE JavaReadReply
    BY <2>9, JavaReadReplyStep
  <2>10. CASE UNCHANGED vars
    <3> USE <2>10 DEF vars, config
    <3>1. TypeOK' /\ NoMisread'
      BY DEF IInv, TypeOK, NoMisread
    <3>2. BuiltInv' /\ RequestInv' /\ SizeInv' /\ ReplyInv'
      BY DEF IInv, BuiltInv, Built, BothAccept, NdkAborts, JavacAccepts,
             RequestInv, SizeInv, ReplyInv
    <3>3. InArrives' /\ OutArrives' /\ NullIsDeclared'
      BY DEF IInv, InArrives, OutArrives, NullIsDeclared
    <3>4. FailsForCause'
      BY DEF IInv, FailsForCause, HasNullItem
    <3> QED BY <3>1, <3>2, <3>3, <3>4 DEF IInv
  <2> QED BY <2>1, <2>2, <2>3, <2>4, <2>5, <2>6, <2>7, <2>8, <2>9, <2>10 DEF Next
<1> QED BY <1>1, <1>2, PTL DEF Spec

\* Each side of a call only holds values that its declaration can hold.
THEOREM EachSideHoldsItsType == Spec => []TypeOK
  BY Invariance, PTL DEF IInv

\* Two backends that accept a type, and build, agree on where it lies.
THEOREM BackendsAgreeOnTheParcel == Spec => []NoMisread
  BY Invariance, PTL DEF IInv

\* What an implementation is called with is what the caller passed.
THEOREM ArgumentsArrive == Spec => []InArrives
  BY Invariance, PTL DEF IInv

\* What the implementation leaves is what the caller ends up with, but for
\* the types that a Java proxy loses.
THEOREM ResultsArrive == Spec => []OutArrives
  BY Invariance, PTL DEF IInv

\* A call fails only over a null, or over the size of a Java caller's array.
THEOREM FailuresHaveACause == Spec => []FailsForCause
  BY Invariance, PTL DEF IInv

\* No native implementation is handed a null that was not declared.
THEOREM NullsAreDeclared == Spec => []NullIsDeclared
  BY Invariance, PTL DEF IInv
==============================================================================
