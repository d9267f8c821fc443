---------------------------- MODULE TypeNamesProofs ----------------------------
(***************************************************************************)
(* That AidlTypenames and the name space of a backend take a name for the  *)
(* same type, for any documents and any command line (Invariance); and     *)
(* that the runs for the two backends load by the same steps, so that they *)
(* accept the same documents (TwinInvariance).                             *)
(***************************************************************************)
EXTENDS TypeNames, FiniteSetTheorems, SequenceTheorems, WellFoundedInduction, TLAPS

-----------------------------------------------------------------------------
(* Looking up.                                                             *)

\* A set of numbers that is closed under adding one.
LEMMA EveryNumber ==
  ASSUME NEW S, 0 \in S, \A n \in Nat : n \in S => n + 1 \in S
  PROVE  \A n \in Nat : n \in S
<1> DEFINE Missing == Nat \ S
<1>1. SUFFICES ASSUME Missing # {} PROVE FALSE
  OBVIOUS
<1>2. Missing \subseteq Nat
  OBVIOUS
<1> HIDE DEF Missing
<1>3. PICK m \in Missing : \A k \in Missing : ~(<<k, m>> \in OpToRel(<, Nat))
  BY <1>1, <1>2, WFMin, NatLessThanWellFounded
<1>4. \A k \in Missing : ~(k < m)
  BY <1>2, <1>3 DEF OpToRel
<1>5. m \in Nat /\ m \notin S /\ m # 0
  BY <1>3 DEF Missing
<1>6. m - 1 \in Nat /\ m - 1 < m /\ (m - 1) + 1 = m
  BY <1>5
<1>7. m - 1 \in S
  BY <1>4, <1>6 DEF Missing
<1> QED BY <1>5, <1>6, <1>7

LEMMA HasLeast ==
  ASSUME NEW S \in SUBSET Nat, S # {}
  PROVE  \E m \in S : \A k \in S : m <= k
<1>1. PICK m \in S : \A k \in S : ~(<<k, m>> \in OpToRel(<, Nat))
  BY WFMin, NatLessThanWellFounded
<1>2. \A k \in S : ~(k < m) /\ k \in Nat /\ m \in Nat
  BY <1>1 DEF OpToRel
<1> QED BY <1>2

LEMMA HasGreatest ==
  ASSUME NEW n \in Nat, NEW S \in SUBSET (1 .. n), S # {}
  PROVE  \E m \in S : \A k \in S : k <= m
<1> DEFINE above == {n - k : k \in S}
<1>1. above \in SUBSET Nat /\ above # {}
  <2>1. \A k \in S : k \in 1 .. n /\ n - k \in Nat
    OBVIOUS
  <2> QED BY <2>1
<1>2. PICK d \in above : \A e \in above : d <= e
  <2> HIDE DEF above
  <2> QED BY <1>1, HasLeast
<1>3. PICK m \in S : d = n - m
  OBVIOUS
<1>4. ASSUME NEW k \in S PROVE k <= m
  <2>1. n - k \in above
    OBVIOUS
  <2>2. n - m <= n - k /\ k \in 1 .. n /\ m \in 1 .. n
    BY <1>2, <1>3, <2>1
  <2> QED BY <2>2
<1> QED BY <1>4

LEMMA EntryParts ==
  ASSUME NEW t \in Entry
  PROVE  t.name \in Name /\ t.short \in Name /\ t # NoType
<1>1. NoType.name = 0
  BY DEF NoType
<1> QED BY <1>1 DEF Entry, Type, BuiltIn, Classes, Name

\* What is declared is neither built in nor generated.
LEMMA KindsDiffer ==
  /\ Type \subseteq Entry /\ BuiltIn \subseteq Entry /\ Type \cap BuiltIn = {}
  /\ \A t \in Entry : t \notin Type => KindOf(t) \in {"built_in", "generated"}
  /\ \A t \in Entry : t \notin Type => t.kind # "interface"
  /\ \A t \in Type : KindOf(t) \in {"interface", "parcelable"} /\ CanWriteToParcel(t)
  /\ \A t \in BuiltIn : KindOf(t) = "built_in"
  /\ \A t \in Classes({"generated"}) : t \notin Type /\ t \in Entry
                                      /\ KindOf(t) = "generated"
<1> DEFINE Declared == Classes({"interface", "structured", "parcelable"})
<1>1. /\ \A t \in Declared : t.kind \in {"interface", "structured", "parcelable"}
      /\ \A t \in BuiltIn : t.kind \in {"built_in", "helper"}
      /\ \A t \in Classes({"generated"}) : t.kind = "generated"
      /\ Type \subseteq Declared /\ Entry = Type \cup BuiltIn \cup Classes({"generated"})
  BY DEF Classes, BuiltIn, Type, Entry
<1> HIDE DEF Declared
<1>2. ASSUME NEW t \in Type
      PROVE  /\ KindOf(t) \in {"interface", "parcelable"} /\ CanWriteToParcel(t)
             /\ t \notin BuiltIn /\ t \notin Classes({"generated"})
  BY <1>1 DEF KindOf, CanWriteToParcel
<1>3. ASSUME NEW t \in BuiltIn PROVE KindOf(t) = "built_in" /\ t.kind # "interface"
  BY <1>1 DEF KindOf
<1>4. ASSUME NEW t \in Classes({"generated"})
      PROVE  KindOf(t) = "generated" /\ t.kind # "interface"
  BY <1>1 DEF KindOf
<1> QED BY <1>1, <1>2, <1>3, <1>4

LEMMA TypeParts ==
  ASSUME NEW t \in Type
  PROVE  t.name \in Name /\ t.name \in Nat /\ t.short \in Name /\ t # NoType
BY EntryParts, KindsDiffer DEF Name

\* In a set of types there is a first one.
LEMMA FirstIsIn ==
  ASSUME NEW types \in SUBSET Type, types # {}
  PROVE  /\ FirstOf(types) \in types
         /\ \A u \in types : FirstOf(types).name <= u.name
<1> DEFINE numbers == {t.name : t \in types}
<1>1. numbers \in SUBSET Nat /\ numbers # {}
  BY TypeParts
<1>2. PICK p \in numbers : \A q \in numbers : p <= q
  <2> HIDE DEF numbers
  <2> QED BY <1>1, HasLeast
<1>3. PICK t \in types : t.name = p
  OBVIOUS
<1>4. \A u \in types : t.name <= u.name
  BY <1>2, <1>3
<1> QED BY <1>4 DEF FirstOf

\* What is found in AidlTypenames is one of its types: the one of that full
\* name, or the first with that short name.
LEMMA DefinedTypeFound ==
  ASSUME NEW name \in Name, defined \subseteq Type, preprocessed \subseteq Type,
         TryGetDefinedType(name) # NoType
  PROVE  LET t == TryGetDefinedType(name)
         IN  \/ t \in defined
             \/ /\ t \in preprocessed /\ t.name = name
                /\ name \notin CanonicalNames(defined)
             \/ /\ t \in preprocessed /\ IsShortFor(name, t)
                /\ \A u \in defined : ~IsShortFor(name, u)
                /\ \A u \in preprocessed : IsShortFor(name, u) => t.name <= u.name
<1> DEFINE exact(types) == {t \in types : t.name = name}
           short(types) == {t \in types : IsShortFor(name, t)}
           choices == << exact(defined), exact(preprocessed),
                         short(defined), short(preprocessed) >>
           found == {i \in 1 .. 4 : choices[i] # {}}
           c == CHOOSE i \in found : \A j \in found : i <= j
           t == TryGetDefinedType(name)
<1>1. TryGetDefinedType(name) = IF found = {} THEN NoType ELSE FirstOf(choices[c])
  BY Zenon DEF TryGetDefinedType
<1>2. found # {} /\ t = FirstOf(choices[c])
  BY <1>1
<1>3. c \in found /\ \A j \in found : c <= j
  <2>1. found \in SUBSET Nat
    OBVIOUS
  <2>2. \E i \in found : \A j \in found : i <= j
    <3> HIDE DEF found
    <3> QED BY <1>2, <2>1, HasLeast
  <2> QED BY <2>2
<1>4. /\ choices[1] = exact(defined) /\ choices[2] = exact(preprocessed)
      /\ choices[3] = short(defined) /\ choices[4] = short(preprocessed)
  OBVIOUS
<1>5. c \in 1 .. 4 /\ choices[c] # {}
  BY <1>3
<1>6. \A j \in 1 .. 4 : j < c => choices[j] = {}
  <2>1. ASSUME NEW j \in 1 .. 4, j < c PROVE choices[j] = {}
    <3>1. j \notin found
      <4> HIDE DEF found, c
      <4> QED BY <1>3, <1>5, <2>1
    <3> QED BY <3>1
  <2> QED BY <2>1
<1>7. exact(defined) \subseteq Type /\ exact(preprocessed) \subseteq Type
      /\ short(defined) \subseteq Type /\ short(preprocessed) \subseteq Type
  OBVIOUS
<1> HIDE DEF choices, found, c, t
<1>8. c = 1 \/ c = 2 \/ c = 3 \/ c = 4
  BY <1>5
<1>9. choices[c] \in SUBSET Type
  BY <1>4, <1>7, <1>8
<1>10. t \in choices[c] /\ \A u \in choices[c] : t.name <= u.name
  BY <1>2, <1>5, <1>9, FirstIsIn
<1>11. CASE c = 1 \/ c = 3
  BY <1>4, <1>10, <1>11 DEF t
<1>12. CASE c = 2
  <2>1. choices[1] = {}
    BY <1>6, <1>12
  <2>2. t \in preprocessed /\ t.name = name
    BY <1>4, <1>10, <1>12
  <2>3. name \notin CanonicalNames(defined)
    BY <1>4, <2>1 DEF CanonicalNames
  <2> QED BY <2>2, <2>3 DEF t
<1>13. CASE c = 4
  <2>1. choices[3] = {}
    BY <1>6, <1>13
  <2>2. t \in preprocessed /\ IsShortFor(name, t)
    BY <1>4, <1>10, <1>13
  <2>3. \A u \in defined : ~IsShortFor(name, u)
    BY <1>4, <2>1
  <2>4. \A u \in preprocessed : IsShortFor(name, u) => t.name <= u.name
    BY <1>4, <1>10, <1>13
  <2> QED BY <2>2, <2>3, <2>4 DEF t
<1> QED BY <1>8, <1>11, <1>12, <1>13

\* What is found in a name space is one of its types: the one of that full
\* name, or one of that short name.
LEMMA TypeFound ==
  ASSUME NEW types \in Seq(Entry), NEW name,
         \E i \in DOMAIN types : types[i].name = name \/ IsShortFor(name, types[i])
  PROVE  LET t == FindTypeByCanonicalName(types, name)
         IN  \E i \in DOMAIN types :
               /\ t = types[i]
               /\ \/ t.name = name
                  \/ /\ IsShortFor(name, t)
                     /\ \A j \in DOMAIN types : types[j].name # name
<1> DEFINE exact == {i \in DOMAIN types : types[i].name = name}
           short == {i \in DOMAIN types : IsShortFor(name, types[i])}
           t == FindTypeByCanonicalName(types, name)
<1>1. CASE exact # {}
  <2>1. t = types[CHOOSE i \in exact : TRUE]
    BY <1>1 DEF FindTypeByCanonicalName
  <2>2. (CHOOSE i \in exact : TRUE) \in exact
    BY <1>1
  <2>3. PICK i \in exact : t = types[i]
    BY <2>1, <2>2
  <2> QED BY <2>3
<1>2. CASE exact = {}
  <2>1. short # {}
    BY <1>2
  <2>2. t = types[CHOOSE i \in short : \A j \in short : j <= i]
    BY <1>2, <2>1 DEF FindTypeByCanonicalName
  <2>3. Len(types) \in Nat /\ DOMAIN types = 1 .. Len(types)
    OBVIOUS
  <2>4. short \in SUBSET (1 .. Len(types))
    BY <2>3
  <2>5. \E i \in short : \A j \in short : j <= i
    <3> HIDE DEF short
    <3> QED BY <2>1, <2>3, <2>4, HasGreatest
  <2>6. (CHOOSE i \in short : \A j \in short : j <= i) \in short
    BY <2>5
  <2>7. PICK i \in short : t = types[i]
    BY <2>2, <2>6
  <2> QED BY <1>2, <2>7
<1> QED BY <1>1, <1>2

LEMMA NothingFound ==
  ASSUME NEW types, NEW name,
         \A i \in DOMAIN types : types[i].name # name /\ ~IsShortFor(name, types[i])
  PROVE  FindTypeByCanonicalName(types, name) = NoType
BY DEF FindTypeByCanonicalName

\* A name is found if and only if a type has it as its full or short name.
LEMMA FoundIff ==
  ASSUME NEW types \in Seq(Entry), NEW name
  PROVE  FindTypeByCanonicalName(types, name) # NoType
         <=> \E i \in DOMAIN types :
               types[i].name = name \/ IsShortFor(name, types[i])
<1>1. ASSUME NEW i \in DOMAIN types PROVE types[i] \in Entry /\ types[i] # NoType
  <2>1. types[i] \in Entry
    OBVIOUS
  <2> QED BY <2>1, EntryParts
<1> QED BY <1>1, TypeFound, NothingFound

-----------------------------------------------------------------------------
(* Adding.                                                                 *)

Found(types, name) == FindTypeByCanonicalName(types, name) # NoType
NoNameTwice(types) ==
  \A i, j \in DOMAIN types : types[i].name = types[j].name => i = j

\* more is types with some of the types in new behind it, none of which would
\* have been found in types.
Grows(types, more, new) ==
  /\ more \in Seq(Entry)
  /\ DOMAIN types \subseteq DOMAIN more
  /\ \A i \in DOMAIN types : more[i] = types[i]
  /\ \A i \in DOMAIN more \ DOMAIN types :
       more[i] \in new /\ ~Found(types, more[i].name)

LEMMA GrowsNothing ==
  ASSUME NEW types \in Seq(Entry), NEW new
  PROVE  Grows(types, types, new)
BY DEF Grows

LEMMA FoundIsKept ==
  ASSUME NEW types \in Seq(Entry), NEW more, NEW new, Grows(types, more, new),
         NEW name, Found(types, name)
  PROVE  Found(more, name)
<1>1. PICK i \in DOMAIN types : types[i].name = name \/ IsShortFor(name, types[i])
  BY FoundIff DEF Found
<1>2. i \in DOMAIN more /\ more[i] = types[i] /\ more \in Seq(Entry)
  BY DEF Grows
<1>3. \E j \in DOMAIN more : more[j].name = name \/ IsShortFor(name, more[j])
  BY <1>1, <1>2
<1> QED BY <1>2, <1>3, FoundIff DEF Found

LEMMA GrowsFurther ==
  ASSUME NEW types \in Seq(Entry), NEW more, NEW most, NEW new,
         Grows(types, more, new), Grows(more, most, new)
  PROVE  Grows(types, most, new)
<1>1. ASSUME NEW i \in DOMAIN most \ DOMAIN types
      PROVE  most[i] \in new /\ ~Found(types, most[i].name)
  <2>1. CASE i \in DOMAIN more
    BY <2>1 DEF Grows
  <2>2. CASE i \notin DOMAIN more
    <3>1. most[i] \in new /\ ~Found(more, most[i].name)
      BY <2>2 DEF Grows
    <3> QED BY <3>1, FoundIsKept
  <2> QED BY <2>1, <2>2
<1> QED BY <1>1 DEF Grows

LEMMA GrowsMore ==
  ASSUME NEW types, NEW more, NEW new, NEW any, Grows(types, more, new),
         \A t \in new : t \in any
  PROVE  Grows(types, more, any)
BY DEF Grows

\* Adding a class adds it at the end, or nothing.
LEMMA AddGrows ==
  ASSUME NEW types \in Seq(Entry), NoNameTwice(types), NEW t \in Entry
  PROVE  LET more == Add(types, t)
         IN  /\ Grows(types, more, {t}) /\ NoNameTwice(more) /\ Found(more, t.name)
             /\ more \in Seq(Entry)
             /\ ~Found(types, t.name) => \E q \in DOMAIN more : more[q] = t
<1> DEFINE more == Add(types, t)
<1>1. CASE Found(types, t.name)
  <2>1. more = types
    BY <1>1 DEF Add, Found
  <2> QED BY <1>1, <2>1, GrowsNothing
<1>2. CASE ~Found(types, t.name)
  <2>1. more = Append(types, t)
    BY <1>2 DEF Add, Found
  <2> DEFINE n == Len(types) + 1
  <2>2. /\ more \in Seq(Entry) /\ DOMAIN more = 1 .. n /\ DOMAIN types = 1 .. Len(types)
        /\ Len(types) \in Nat /\ more[n] = t
        /\ \A i \in 1 .. Len(types) : more[i] = types[i]
    BY <2>1, AppendProperties
  <2>3. /\ DOMAIN types \subseteq DOMAIN more /\ n \in DOMAIN more \ DOMAIN types
        /\ \A i \in DOMAIN more : i \in DOMAIN types \/ i = n
    BY <2>2
  <2> HIDE DEF more, n
  <2>4. Grows(types, more, {t})
    BY <1>2, <2>2, <2>3 DEF Grows
  <2>5. \A i \in DOMAIN types : types[i].name # t.name
    BY <1>2, FoundIff DEF Found
  <2>6. NoNameTwice(more)
    BY <2>2, <2>3, <2>5 DEF NoNameTwice
  <2>7. Found(more, t.name)
    <3>1. \E i \in DOMAIN more : more[i].name = t.name
      BY <2>2, <2>3
    <3> QED BY <2>2, <3>1, FoundIff DEF Found
  <2> QED BY <2>2, <2>3, <2>4, <2>6, <2>7 DEF more
<1> QED BY <1>1, <1>2

\* The classes of a type: itself, and what Java generates for an interface.
StubsOf(t) == IF t.kind = "interface" THEN {Stubs[t.name][k] : k \in 1 .. 3} ELSE {}
ClassesOf(t) == {t} \cup StubsOf(t)

LEMMA StubsTyped ==
  ASSUME NEW t \in Type
  PROVE  /\ StubsOf(t) \subseteq Classes({"generated"})
         /\ t.kind = "interface" => \A k \in 1 .. 3 : Stubs[t.name][k] \in StubsOf(t)
<1>1. CASE t.kind = "interface"
  <2>1. t.name \in DOMAIN Stubs
    BY <1>1 DEF Type
  <2>2. Stubs[t.name] \in Classes({"generated"}) \X Classes({"generated"})
                                                \X Classes({"generated"})
    BY <2>1, TypeNamesAssumption
  <2>3. \A k \in 1 .. 3 : Stubs[t.name][k] \in Classes({"generated"})
    <3> HIDE DEF Classes
    <3>1. /\ Stubs[t.name][1] \in Classes({"generated"})
          /\ Stubs[t.name][2] \in Classes({"generated"})
          /\ Stubs[t.name][3] \in Classes({"generated"})
      BY <2>2
    <3>2. \A k \in 1 .. 3 : k = 1 \/ k = 2 \/ k = 3
      OBVIOUS
    <3> QED BY <3>1, <3>2
  <2> QED BY <1>1, <2>3 DEF StubsOf
<1>2. CASE t.kind # "interface"
  BY <1>2 DEF StubsOf
<1> QED BY <1>1, <1>2

\* The four steps of AddBinderType in Java.
LEMMA JavaInterfaceGrows ==
  ASSUME NEW types \in Seq(Entry), NoNameTwice(types), NEW t \in Type,
         t.kind = "interface"
  PROVE  LET after == AddJavaInterface(types, t)
             s == Stubs[t.name]
         IN  /\ after[1] = Add(types, t) /\ after[2] = Add(after[1], s[1])
             /\ after[3] = Add(after[2], s[2]) /\ after[4] = Add(after[3], s[3])
             /\ \A k \in 1 .. 4 : /\ after[k] \in Seq(Entry) /\ NoNameTwice(after[k])
                                  /\ Grows(after[1], after[k], StubsOf(t))
                                  /\ Grows(types, after[k], ClassesOf(t))
<1> DEFINE after == AddJavaInterface(types, t)
           s == Stubs[t.name]
<1>1. /\ after[1] = Add(types, t) /\ after[2] = Add(after[1], s[1])
      /\ after[3] = Add(after[2], s[2]) /\ after[4] = Add(after[3], s[3])
  BY DEF AddJavaInterface
<1> HIDE DEF after
<1>2. t \in Entry /\ \A k \in 1 .. 3 : s[k] \in Entry /\ s[k] \in StubsOf(t)
  BY StubsTyped, KindsDiffer
<1> HIDE DEF s
<1>3. /\ after[1] \in Seq(Entry) /\ NoNameTwice(after[1]) /\ Grows(types, after[1], {t})
      /\ Grows(after[1], after[1], StubsOf(t))
  BY <1>1, <1>2, AddGrows, GrowsNothing
<1>4. ASSUME NEW k \in 1 .. 3, after[k] \in Seq(Entry), NoNameTwice(after[k]),
             after[k + 1] = Add(after[k], s[k]), Grows(after[1], after[k], StubsOf(t))
      PROVE  /\ after[k + 1] \in Seq(Entry) /\ NoNameTwice(after[k + 1])
             /\ Grows(after[1], after[k + 1], StubsOf(t))
  <2>1. /\ after[k + 1] \in Seq(Entry) /\ NoNameTwice(after[k + 1])
        /\ Grows(after[k], after[k + 1], {s[k]})
    BY <1>2, <1>4, AddGrows
  <2>2. Grows(after[k], after[k + 1], StubsOf(t))
    BY <1>2, <2>1, GrowsMore
  <2> QED BY <1>3, <1>4, <2>1, <2>2, GrowsFurther
<1>5. /\ after[2] \in Seq(Entry) /\ NoNameTwice(after[2])
      /\ Grows(after[1], after[2], StubsOf(t))
  BY <1>1, <1>3, <1>4
<1>6. /\ after[3] \in Seq(Entry) /\ NoNameTwice(after[3])
      /\ Grows(after[1], after[3], StubsOf(t))
  BY <1>1, <1>4, <1>5
<1>7. /\ after[4] \in Seq(Entry) /\ NoNameTwice(after[4])
      /\ Grows(after[1], after[4], StubsOf(t))
  BY <1>1, <1>4, <1>6
<1>8. ASSUME NEW k \in 1 .. 4
      PROVE  /\ after[k] \in Seq(Entry) /\ NoNameTwice(after[k])
             /\ Grows(after[1], after[k], StubsOf(t))
             /\ Grows(types, after[k], ClassesOf(t))
  <2>1. k = 1 \/ k = 2 \/ k = 3 \/ k = 4
    OBVIOUS
  <2>2. /\ after[k] \in Seq(Entry) /\ NoNameTwice(after[k])
        /\ Grows(after[1], after[k], StubsOf(t))
    BY <1>3, <1>5, <1>6, <1>7, <2>1
  <2>3. Grows(types, after[1], ClassesOf(t)) /\ Grows(after[1], after[k], ClassesOf(t))
    BY <1>3, <2>2, GrowsMore DEF ClassesOf
  <2> QED BY <2>2, <2>3, GrowsFurther
<1> QED BY <1>1, <1>8 DEF after, s

\* What AddType adds is the type, and then its stubs.
LEMMA AddTypeGrows ==
  ASSUME NEW l \in Langs, NEW types \in Seq(Entry), NoNameTwice(types), NEW t \in Type
  PROVE  LET more == AddType(l, types, t)
         IN  /\ more \in Seq(Entry) /\ Grows(types, more, ClassesOf(t)) /\ NoNameTwice(more)
             /\ Addable(l, t) => Found(more, t.name)
             /\ Addable(l, t) => Grows(Add(types, t), more, StubsOf(t))
<1>1. t \in Entry
  BY KindsDiffer
<1>2. /\ Add(types, t) \in Seq(Entry) /\ NoNameTwice(Add(types, t))
      /\ Grows(types, Add(types, t), {t}) /\ Found(Add(types, t), t.name)
  BY <1>1, AddGrows
<1>3. CASE ~Addable(l, t)
  <2>1. AddType(l, types, t) = types
    BY <1>3 DEF AddType
  <2> QED BY <1>3, <2>1, GrowsNothing
<1>4. CASE Addable(l, t) /\ l = "JAVA" /\ t.kind = "interface"
  <2>1. AddType(l, types, t) = AddJavaInterface(types, t)[4]
    BY <1>4 DEF AddType
  <2>2. /\ AddJavaInterface(types, t)[4] \in Seq(Entry)
        /\ NoNameTwice(AddJavaInterface(types, t)[4])
        /\ Grows(Add(types, t), AddJavaInterface(types, t)[4], StubsOf(t))
        /\ Grows(types, AddJavaInterface(types, t)[4], ClassesOf(t))
    BY <1>4, JavaInterfaceGrows
  <2> QED BY <1>2, <2>1, <2>2, FoundIsKept
<1>5. CASE Addable(l, t) /\ ~(l = "JAVA" /\ t.kind = "interface")
  <2>1. AddType(l, types, t) = Add(types, t)
    BY <1>5 DEF AddType
  <2>2. Grows(types, Add(types, t), ClassesOf(t))
    BY <1>2, GrowsMore DEF ClassesOf
  <2> QED BY <1>2, <2>1, <2>2, GrowsNothing
<1> QED BY <1>3, <1>4, <1>5

\* f holds the name space after each of the first n types.
Trace(f, n, l, types, doc) ==
  f = [k \in 0 .. n |-> IF k = 0 THEN types ELSE AddType(l, f[k - 1], doc[k])]

LEMMA TraceExists ==
  ASSUME NEW l, NEW types, NEW doc
  PROVE  \A n \in Nat : \E f : Trace(f, n, l, types, doc)
<1> DEFINE S == {n \in Nat : \E f : Trace(f, n, l, types, doc)}
<1>1. 0 \in S
  <2>1. \A k \in 0 .. 0 : k = 0
    OBVIOUS
  <2>2. Trace([k \in 0 .. 0 |-> types], 0, l, types, doc)
    BY <2>1, Zenon DEF Trace
  <2> QED BY <2>2
<1>2. ASSUME NEW n \in Nat, n \in S PROVE n + 1 \in S
  <2>1. PICK f : Trace(f, n, l, types, doc)
    BY <1>2
  <2> DEFINE g == [k \in 0 .. n + 1 |->
                     IF k = n + 1 THEN AddType(l, f[n], doc[k]) ELSE f[k]]
  <2>2. ASSUME NEW k \in 0 .. n + 1
        PROVE  g[k] = IF k = 0 THEN types ELSE AddType(l, g[k - 1], doc[k])
    <3>1. CASE k = n + 1
      <4>1. k # 0 /\ k - 1 = n /\ n \in 0 .. n + 1 /\ n # n + 1
        BY <3>1
      <4> QED BY <3>1, <4>1
    <3>2. CASE k # n + 1
      <4>1. k \in 0 .. n
        BY <3>2
      <4>2. f[k] = IF k = 0 THEN types ELSE AddType(l, f[k - 1], doc[k])
        BY <2>1, <4>1 DEF Trace
      <4>3. k # 0 => k - 1 \in 0 .. n + 1 /\ k - 1 # n + 1
        OBVIOUS
      <4> QED BY <3>2, <4>2, <4>3
    <3> QED BY <3>1, <3>2
  <2>3. g = [k \in 0 .. n + 1 |-> g[k]]
    OBVIOUS
  <2>4. Trace(g, n + 1, l, types, doc)
    <3> HIDE DEF g
    <3> QED BY <2>2, <2>3 DEF Trace
  <2> QED BY <2>4
<1> HIDE DEF S
<1>3. \A n \in Nat : n \in S
  BY <1>1, <1>2, EveryNumber
<1> QED BY <1>3 DEF S

\* AddDefinedTypes starts with the name space it is given and adds a type at a time.
LEMMA AfterEachStep ==
  ASSUME NEW types, NEW doc \in Seq(Type)
  PROVE  /\ AfterEach(types, doc)[0] = types
         /\ \A k \in 1 .. Len(doc) :
              AfterEach(types, doc)[k] = AddType(lang, AfterEach(types, doc)[k - 1], doc[k])
<1> DEFINE f == AfterEach(types, doc)
<1>1. Len(doc) \in Nat
  OBVIOUS
<1>2. Trace(f, Len(doc), lang, types, doc)
  BY <1>1, TraceExists DEF AfterEach, Trace
<1>3. 0 \in 0 .. Len(doc) /\ \A k \in 1 .. Len(doc) : k \in 0 .. Len(doc) /\ k # 0
  BY <1>1
<1> HIDE DEF f
<1>4. /\ f[0] = types
      /\ \A k \in 1 .. Len(doc) : f[k] = AddType(lang, f[k - 1], doc[k])
  BY <1>2, <1>3, Zenon DEF Trace
<1> QED BY <1>4 DEF f

\* All that the types of a document may add.
AddsOf(doc) == UNION {ClassesOf(t) : t \in ToSet(doc)}

LEMMA DeclaredAdds ==
  ASSUME NEW doc \in Seq(Type), NEW t \in AddsOf(doc)
  PROVE  t \in Entry /\ (t \in Type => t \in ToSet(doc))
<1>1. PICK u \in ToSet(doc) : t \in ClassesOf(u)
  BY DEF AddsOf
<1>2. u \in Type
  BY DEF ToSet
<1> QED BY <1>1, <1>2, StubsTyped, KindsDiffer DEF ClassesOf

LEMMA AfterEachGrows ==
  ASSUME lang \in Langs, NEW types \in Seq(Entry), NoNameTwice(types), NEW doc \in Seq(Type),
         NEW n \in 0 .. Len(doc)
  PROVE  /\ AfterEach(types, doc)[n] \in Seq(Entry)
         /\ NoNameTwice(AfterEach(types, doc)[n])
         /\ \A j \in 0 .. n :
              Grows(AfterEach(types, doc)[j], AfterEach(types, doc)[n], AddsOf(doc))
<1> DEFINE f == AfterEach(types, doc)
           Fine(k) == /\ f[k] \in Seq(Entry) /\ NoNameTwice(f[k])
                      /\ \A j \in 0 .. k :
                           f[j] \in Seq(Entry) /\ Grows(f[j], f[k], AddsOf(doc))
           S == {k \in Nat : k <= Len(doc) => Fine(k)}
<1>1. /\ f[0] = types
      /\ \A k \in 1 .. Len(doc) : f[k] = AddType(lang, f[k - 1], doc[k])
  BY AfterEachStep
<1>2. Len(doc) \in Nat /\ DOMAIN doc = 1 .. Len(doc)
  OBVIOUS
<1>3. \A i \in 1 .. Len(doc) :
        doc[i] \in Type /\ \A t \in ClassesOf(doc[i]) : t \in AddsOf(doc)
  BY <1>2 DEF ToSet, AddsOf
<1> HIDE DEF f
<1>4. Fine(0)
  BY <1>1, GrowsNothing
<1>5. ASSUME NEW k \in Nat, k \in S PROVE k + 1 \in S
  <2>1. SUFFICES ASSUME k + 1 <= Len(doc) PROVE Fine(k + 1)
    BY DEF S
  <2>2. Fine(k) /\ k + 1 \in 1 .. Len(doc) /\ (k + 1) - 1 = k
    BY <1>2, <1>5, <2>1
  <2>3. f[k + 1] = AddType(lang, f[k], doc[k + 1]) /\ doc[k + 1] \in Type
    BY <1>1, <1>3, <2>2
  <2>4. Grows(f[k], f[k + 1], ClassesOf(doc[k + 1])) /\ NoNameTwice(f[k + 1])
    BY <2>2, <2>3, AddTypeGrows
  <2>5. Grows(f[k], f[k + 1], AddsOf(doc)) /\ f[k + 1] \in Seq(Entry)
    BY <1>3, <2>2, <2>4, GrowsMore DEF Grows
  <2>6. ASSUME NEW j \in 0 .. k + 1
        PROVE  f[j] \in Seq(Entry) /\ Grows(f[j], f[k + 1], AddsOf(doc))
    <3>1. CASE j = k + 1
      BY <2>5, <3>1, GrowsNothing
    <3>2. CASE j # k + 1
      <4>1. j \in 0 .. k /\ j \in Nat /\ j <= Len(doc)
        BY <1>2, <2>1, <3>2
      <4>2. f[j] \in Seq(Entry) /\ Grows(f[j], f[k], AddsOf(doc))
        BY <2>2, <4>1
      <4> QED BY <2>5, <4>2, GrowsFurther
    <3> QED BY <3>1, <3>2
  <2> QED BY <2>4, <2>5, <2>6
<1>6. \A k \in Nat : k \in S
  <2>1. 0 \in S
    BY <1>4
  <2> HIDE DEF S
  <2> QED BY <1>5, <2>1, EveryNumber
<1>7. Fine(n)
  BY <1>2, <1>6
<1> QED BY <1>7 DEF f

\* AddDefinedTypes as a whole: the name space grows, and if it succeeds finds
\* every type of the document; in Java it then has each as the kind it is.
LEMMA AddAllGrows ==
  ASSUME lang \in Langs, NEW types \in Seq(Entry), NoNameTwice(types),
         NEW doc \in Seq(Type)
  PROVE  /\ Grows(types, AddAll(types, doc), AddsOf(doc))
         /\ NoNameTwice(AddAll(types, doc))
<1>1. Len(doc) \in Nat /\ Len(doc) \in 0 .. Len(doc) /\ 0 \in 0 .. Len(doc)
  OBVIOUS
<1> QED BY <1>1, AfterEachGrows, AfterEachStep DEF AddAll

LEMMA AddAllFinds ==
  ASSUME lang \in Langs, NEW types \in Seq(Entry), NoNameTwice(types),
         NEW doc \in Seq(Type), AllAdded(types, doc), NEW i \in DOMAIN doc
  PROVE  LET all == AddAll(types, doc)
         IN  /\ Found(all, doc[i].name)
             /\ lang = "JAVA" =>
                  \A q \in DOMAIN all : all[q].name = doc[i].name =>
                    KindOf(all[q]) = KindOf(doc[i])
<1> DEFINE f == AfterEach(types, doc)
           before == f[i - 1]
           after == f[i]
           all == AddAll(types, doc)
           t == doc[i]
<1>1. /\ i \in 1 .. Len(doc) /\ i \in 0 .. Len(doc) /\ i - 1 \in 0 .. i
      /\ i - 1 \in 0 .. Len(doc) /\ Len(doc) \in 0 .. Len(doc)
  OBVIOUS
<1>2. t \in Type /\ t \in ToSet(doc)
  BY DEF ToSet
<1>3. all = f[Len(doc)] /\ Added(lang, before, t)
  BY DEF AddAll, AllAdded
<1>4. after = AddType(lang, before, t)
  BY <1>1, AfterEachStep
<1>5. before \in Seq(Entry) /\ NoNameTwice(before)
  BY <1>1, AfterEachGrows
<1>6. after \in Seq(Entry)
  BY <1>1, AfterEachGrows
<1>7. /\ Grows(before, all, AddsOf(doc)) /\ Grows(after, all, AddsOf(doc))
      /\ all \in Seq(Entry) /\ NoNameTwice(all)
  BY <1>1, <1>3, AfterEachGrows
<1> HIDE DEF before, after, all, t, f
<1>8. Addable(lang, t)
  BY <1>3 DEF Added
<1>9. /\ Found(after, t.name)
      /\ ~Found(before, t.name) => \E q \in DOMAIN after : after[q] = t
  <2>1. Found(after, t.name) /\ Grows(Add(before, t), after, StubsOf(t))
    BY <1>2, <1>4, <1>5, <1>8, AddTypeGrows
  <2>2. ~Found(before, t.name) => \E q \in DOMAIN Add(before, t) : Add(before, t)[q] = t
    BY <1>2, <1>5, AddGrows, KindsDiffer
  <2> QED BY <2>1, <2>2 DEF Grows
<1>10. Found(all, t.name)
  BY <1>6, <1>7, <1>9, FoundIsKept
<1>11. ASSUME lang = "JAVA", NEW q \in DOMAIN all, all[q].name = t.name
       PROVE  KindOf(all[q]) = KindOf(t)
  <2>1. CASE Found(before, t.name)
    <3> DEFINE existing == FindTypeByCanonicalName(before, t.name)
    <3>1. KindOf(existing) = KindOf(t)
      BY <1>3, <1>11, <2>1 DEF Added, Accepts, Found
    <3>2. q \in DOMAIN before
      BY <1>7, <1>11, <2>1 DEF Grows
    <3>3. before[q] = all[q] /\ before[q].name = t.name
      BY <1>7, <1>11, <3>2 DEF Grows
    <3>4. \E p \in DOMAIN before :
            before[p].name = t.name \/ IsShortFor(t.name, before[p])
      BY <3>2, <3>3
    <3>5. PICK p \in DOMAIN before :
             /\ existing = before[p]
             /\ \/ existing.name = t.name
                \/ \A j \in DOMAIN before : before[j].name # t.name
      BY <1>5, <3>4, TypeFound, Zenon
    <3>6. p = q
      BY <1>5, <3>2, <3>3, <3>5 DEF NoNameTwice
    <3> QED BY <3>1, <3>3, <3>5, <3>6
  <2>2. CASE ~Found(before, t.name)
    <3>1. PICK p \in DOMAIN after : after[p] = t
      BY <1>9, <2>2
    <3>2. p \in DOMAIN all /\ all[p] = t
      BY <1>7, <3>1 DEF Grows
    <3>3. p = q
      BY <1>7, <1>11, <3>2 DEF NoNameTwice
    <3> QED BY <3>2, <3>3
  <2> QED BY <2>1, <2>2
<1> QED BY <1>10, <1>11 DEF all, t

\* The types of a document become defined types, and no name is defined twice.
LEMMA DefinedKeeps ==
  ASSUME NEW doc \in Seq(Type), defined \subseteq Type, Unique(defined)
  PROVE  /\ defined \subseteq Defined(doc) /\ Defined(doc) \subseteq Type
         /\ Defined(doc) \subseteq defined \cup ToSet(doc)
         /\ Unique(Defined(doc))
<1> DEFINE fresh == {j \in DOMAIN doc :
                      /\ doc[j].name \notin CanonicalNames(defined) \cup Invalid
                      /\ \A k \in 1 .. j - 1 : doc[k].name # doc[j].name}
<1>1. Defined(doc) = defined \cup {doc[i] : i \in fresh}
  BY DEF Defined
<1>2. DOMAIN doc = 1 .. Len(doc) /\ Len(doc) \in Nat
  OBVIOUS
<1>3. \A i \in DOMAIN doc : doc[i] \in Type /\ doc[i] \in ToSet(doc)
  BY DEF ToSet
<1>4. ASSUME NEW t \in Defined(doc), NEW u \in Defined(doc), t.name = u.name
      PROVE  t = u
  <2>1. CASE t \in defined /\ u \in defined
    BY <1>4, <2>1 DEF Unique
  <2>2. CASE t \in defined /\ u \notin defined
    BY <1>1, <1>4, <2>2 DEF CanonicalNames
  <2>3. CASE t \notin defined /\ u \in defined
    BY <1>1, <1>4, <2>3 DEF CanonicalNames
  <2>4. CASE t \notin defined /\ u \notin defined
    <3>1. PICK i \in fresh : t = doc[i]
      BY <1>1, <2>4
    <3>2. PICK j \in fresh : u = doc[j]
      BY <1>1, <2>4
    <3>3. i \in 1 .. Len(doc) /\ j \in 1 .. Len(doc)
      BY <1>2
    <3>4. ~(i < j) /\ ~(j < i)
      <4>1. i < j => i \in 1 .. j - 1
        BY <1>2, <3>3
      <4>2. j < i => j \in 1 .. i - 1
        BY <1>2, <3>3
      <4> QED BY <1>4, <3>1, <3>2, <4>1, <4>2
    <3>5. i = j
      BY <3>3, <3>4
    <3> QED BY <3>1, <3>2, <3>5
  <2> QED BY <2>1, <2>2, <2>3, <2>4
<1>5. defined \subseteq Defined(doc) /\ Defined(doc) \subseteq defined \cup ToSet(doc)
  BY <1>1, <1>3
<1>6. Defined(doc) \subseteq Type
  BY <1>1, <1>3
<1> QED BY <1>4, <1>5, <1>6 DEF Unique

LEMMA ParsedIsDefined ==
  ASSUME NEW doc \in Seq(Type), Parses(doc)
  PROVE  Defined(doc) = defined \cup ToSet(doc)
<1>1. ASSUME NEW j \in DOMAIN doc, NEW k \in 1 .. j - 1
      PROVE  doc[k].name # doc[j].name
  <2>1. k \in DOMAIN doc /\ k # j
    OBVIOUS
  <2> QED BY <2>1 DEF Parses
<1> QED BY <1>1 DEF Parses, Defined, ToSet

-----------------------------------------------------------------------------
(* The inductive invariant.                                                *)

\* The tables hold what was declared, and the name space what is built in besides.
TablesInv ==
  /\ defined \subseteq Type /\ Unique(defined) /\ defined \subseteq Mentioned
  /\ preprocessed \subseteq Type /\ Unique(preprocessed)
  /\ preprocessed \subseteq ToSet(world.preprocessed)
  /\ space \in Seq(Entry) /\ NoNameTwice(space) /\ Grows(BuiltIns[lang], space, Entry)
  /\ \A i \in DOMAIN space : space[i] \in Type =>
       space[i].name \in CanonicalNames(defined \cup preprocessed) \cup Invalid

\* The Java name space finds every name that AidlTypenames has, ...
FoundInv ==
  lang = "JAVA" =>
    /\ \A t \in preprocessed : Found(space, t.name)
    /\ err = "OK" => \A t \in defined : Found(space, t.name)

\* ... and what it has of that name is of the same kind as the type that
\* AidlTypenames would give, unless loading a document has failed or a
\* preprocessed file declares what is built in or generated.
KindsInv ==
  lang = "JAVA" =>
    \A i \in DOMAIN space :
      /\ err = "OK" =>
           \A t \in defined : t.name = space[i].name => KindOf(t) = KindOf(space[i])
      /\ \A t \in preprocessed :
           t.name = space[i].name /\ t.name \notin CanonicalNames(defined) =>
             KindOf(space[i]) \in {KindOf(t), "built_in", "generated"}

Tables == TablesInv /\ FoundInv /\ KindsInv

\* Where the run is.
StepInv ==
  /\ step = "parse" => defined = {} /\ preprocessed = {} /\ space = BuiltIns[lang]
  /\ step \in {"parse", "preprocessed", "resolve"} => err = "OK"
  /\ step = "preprocessed" =>
       queue \in Seq(Line) /\ ToSet(queue) \subseteq ToSet(world.preprocessed)
  /\ step = "file" => queue \in Seq(Seq(Type)) /\ ToSet(queue) \subseteq ToSet(world.m)

\* An import is known, still to be done, or has made the run fail; or there is
\* another class in its place, or in the file that was found.
Excused(name) == OtherClass(name) \/ Misplaced(name) \/ name \in Invalid
Known(name) == name \in CanonicalNames(defined \cup preprocessed) \/ Excused(name)
ImportInv ==
  step \in {"import", "file", "resolve"} =>
    \A name \in world.imports \ DOMAIN AidlName :
      Known(name) \/ err # "OK" \/ (step = "import" /\ name \in candidates)

IInv ==
  /\ TypeOK /\ Tables /\ StepInv /\ ImportInv /\ NameSpacesAgree

LEMMA WorldTyped ==
  ASSUME world \in Worlds
  PROVE  /\ world.types \in Seq(Type) /\ world.imports \subseteq Name
         /\ world.specs \in Seq(Name) /\ world.preprocessed \in Seq(Line)
         /\ world.files \subseteq File /\ world.inputs \in Seq(Input)
         /\ world.m \in Seq(Seq(Type))
BY TypeNamesAssumption

LEMMA BuiltInsTyped ==
  ASSUME NEW l \in Langs
  PROVE  /\ BuiltIns[l] \in Seq(Entry) /\ NoNameTwice(BuiltIns[l])
         /\ \A i \in DOMAIN BuiltIns[l] :
              BuiltIns[l][i] \in BuiltIn /\ BuiltIns[l][i] \notin Type
<1>1. BuiltIns[l] \in Seq(BuiltIn)
  BY TypeNamesAssumption
<1>2. BuiltIns[l] \in Seq(Entry)
  BY <1>1, KindsDiffer
<1>3. NoNameTwice(BuiltIns[l])
  BY TypeNamesAssumption DEF NoNameTwice
<1> QED BY <1>1, <1>2, <1>3, KindsDiffer

LEMMA FoundFilesTyped ==
  ASSUME world \in Worlds, NEW name, NEW doc \in FindImportFile(name)
  PROVE  doc \in Seq(Type) /\ ToSet(doc) \subseteq Mentioned
<1> DEFINE below == {f \in world.files : f.path = name}
           inputs == {i \in DOMAIN world.inputs : name \in world.inputs[i].paths}
           first == CHOOSE i \in inputs : \A j \in inputs : i <= j
<1>1. world.files \subseteq File /\ world.inputs \in Seq(Input)
  BY WorldTyped
<1>2. \A f \in File \cup Input : f.types \in Seq(Type)
  BY DEF File, Input
<1>3. FindImportFile(name) =
        CASE Cardinality(below) = 1 -> {f.types : f \in below}
          [] below = {} /\ inputs # {} -> {world.inputs[first].types}
          [] OTHER -> {}
  BY Zenon DEF FindImportFile
<1>4. inputs # {} => first \in inputs
  <2>1. inputs \in SUBSET Nat
    BY <1>1
  <2>2. inputs # {} => \E i \in inputs : \A j \in inputs : i <= j
    <3> HIDE DEF inputs
    <3> QED BY <2>1, HasLeast
  <2> HIDE DEF inputs
  <2> QED BY <2>2
<1>5. inputs # {} => world.inputs[first] \in Input /\ world.inputs[first] \in ToSet(world.inputs)
  <2>1. \A i \in inputs : world.inputs[i] \in Input /\ world.inputs[i] \in ToSet(world.inputs)
    BY <1>1 DEF ToSet
  <2> HIDE DEF inputs, first
  <2> QED BY <1>4, <2>1
<1>6. \A f \in below : f \in File /\ f \in world.files
  BY <1>1
<1> HIDE DEF below, inputs, first
<1>7. doc \in {f.types : f \in below} \/ (inputs # {} /\ doc = world.inputs[first].types)
  BY <1>3
<1>8. PICK f \in world.files \cup ToSet(world.inputs) : doc = f.types /\ f \in File \cup Input
  BY <1>5, <1>6, <1>7
<1> QED BY <1>2, <1>8 DEF Mentioned

-----------------------------------------------------------------------------
(* The tables.                                                             *)

\* A document was loaded: its types are defined and in the name space.
LEMMA LoadedTables ==
  ASSUME lang \in Langs, err = "OK" \/ err = "BAD_IMPORT", Tables,
         NEW doc \in Seq(Type), ToSet(doc) \subseteq Mentioned,
         Parses(doc), AllAdded(space, doc),
         defined' = Defined(doc), space' = AddAll(space, doc),
         UNCHANGED <<world, lang, preprocessed, err>>
  PROVE  /\ Tables' /\ Grows(space, space', Entry)
         /\ defined' = defined \cup ToSet(doc)
<1> USE DEF Tables
<1>1. defined' = defined \cup ToSet(doc) /\ defined' \subseteq Type /\ Unique(defined')
  BY DefinedKeeps, ParsedIsDefined DEF TablesInv
<1>2. space \in Seq(Entry) /\ NoNameTwice(space) /\ Grows(BuiltIns[lang], space, Entry)
  BY DEF TablesInv
<1>3. Grows(space, space', AddsOf(doc)) /\ NoNameTwice(space')
  BY <1>2, AddAllGrows
<1>4. ToSet(doc) = {doc[i] : i \in DOMAIN doc}
  BY DEF ToSet
<1>5. ASSUME NEW t \in ToSet(doc)
      PROVE  /\ Found(space', t.name)
             /\ lang = "JAVA" => \A q \in DOMAIN space' : space'[q].name = t.name =>
                                   KindOf(space'[q]) = KindOf(t)
  <2>1. PICK i \in DOMAIN doc : t = doc[i]
    BY <1>4
  <2> QED BY <1>2, <2>1, AddAllFinds
<1>6. ASSUME NEW q \in DOMAIN space'
      PROVE  \/ q \in DOMAIN space /\ space'[q] = space[q]
             \/ /\ space'[q] \in Entry /\ ~Found(space, space'[q].name)
                /\ space'[q] \in Type => space'[q] \in ToSet(doc)
  BY <1>3, DeclaredAdds DEF Grows
<1>7. Grows(space, space', Entry)
  BY <1>3, DeclaredAdds, GrowsMore
<1>8. TablesInv'
  <2>1. ASSUME NEW q \in DOMAIN space', space'[q] \in Type
        PROVE  space'[q].name \in CanonicalNames(defined' \cup preprocessed') \cup Invalid
    <3>1. CASE q \in DOMAIN space /\ space'[q] = space[q]
      <4>1. space[q].name \in CanonicalNames(defined \cup preprocessed) \cup Invalid
        BY <2>1, <3>1 DEF TablesInv
      <4> QED BY <1>1, <3>1, <4>1 DEF CanonicalNames
    <3>2. CASE space'[q] \in ToSet(doc)
      BY <1>1, <3>2 DEF CanonicalNames
    <3> QED BY <1>6, <2>1, <3>1, <3>2
  <2>2. space' \in Seq(Entry)
    BY <1>3 DEF Grows
  <2>3. Grows(BuiltIns[lang], space', Entry)
    BY <1>2, <1>7, BuiltInsTyped, GrowsFurther
  <2>4. Mentioned' = Mentioned
    BY DEF Mentioned, Skipped, IsBuiltinTypename
  <2> QED BY <1>1, <1>3, <2>1, <2>2, <2>3, <2>4 DEF TablesInv, Unique, NoNameTwice, Grows, Found
<1>9. FoundInv'
  <2>1. ASSUME NEW t, Found(space, t.name) PROVE Found(space', t.name)
    BY <1>2, <1>3, <2>1, FoundIsKept
  <2> QED BY <1>1, <1>5, <2>1 DEF FoundInv, Found
<1>10. KindsInv'
  <2> SUFFICES ASSUME lang = "JAVA", NEW q \in DOMAIN space'
               PROVE  /\ err = "OK" =>
                           \A t \in defined' : t.name = space'[q].name =>
                             KindOf(t) = KindOf(space'[q])
                      /\ \A t \in preprocessed :
                           t.name = space'[q].name /\ t.name \notin CanonicalNames(defined')
                           => KindOf(space'[q]) \in {KindOf(t), "built_in", "generated"}
    BY DEF KindsInv
  <2>1. ASSUME err = "OK", NEW t \in defined', t.name = space'[q].name
        PROVE  KindOf(t) = KindOf(space'[q])
    <3>1. CASE t \in ToSet(doc)
      BY <1>5, <2>1, <3>1
    <3>2. CASE t \in defined
      <4>1. Found(space, space'[q].name)
        BY <2>1, <3>2 DEF FoundInv
      <4>2. q \in DOMAIN space /\ space'[q] = space[q]
        BY <1>6, <4>1
      <4> QED BY <2>1, <3>2, <4>2 DEF KindsInv
    <3> QED BY <1>1, <2>1, <3>1, <3>2
  <2>2. ASSUME NEW t \in preprocessed, t.name = space'[q].name,
               t.name \notin CanonicalNames(defined')
        PROVE  KindOf(space'[q]) \in {KindOf(t), "built_in", "generated"}
    <3>1. Found(space, t.name)
      BY DEF FoundInv
    <3>2. q \in DOMAIN space /\ space'[q] = space[q]
      BY <1>6, <2>2, <3>1
    <3>3. t.name \notin CanonicalNames(defined)
      BY <1>1, <2>2 DEF CanonicalNames
    <3> QED BY <2>2, <3>2, <3>3 DEF KindsInv
  <2> QED BY <2>1, <2>2
<1> QED BY <1>1, <1>7, <1>8, <1>9, <1>10

\* A document could not be parsed: some of its types are defined all the same.
LEMMA UnparsedTables ==
  ASSUME Tables, NEW doc \in Seq(Type), ToSet(doc) \subseteq Mentioned,
         defined' = Defined(doc), err' = "BAD_IMPORT",
         UNCHANGED <<world, lang, preprocessed, space>>
  PROVE  Tables' /\ defined \subseteq defined'
<1> USE DEF Tables
<1>1. /\ defined \subseteq defined' /\ defined' \subseteq Type /\ Unique(defined')
      /\ defined' \subseteq defined \cup ToSet(doc)
  BY DefinedKeeps DEF TablesInv
<1>2. TablesInv'
  <2>1. Mentioned' = Mentioned
    BY DEF Mentioned, Skipped, IsBuiltinTypename
  <2> QED BY <1>1, <2>1 DEF TablesInv, Unique, NoNameTwice, CanonicalNames, Grows, Found
<1>3. FoundInv'
  BY DEF FoundInv, Found
<1>4. KindsInv'
  <2>1. \A name : name \notin CanonicalNames(defined') => name \notin CanonicalNames(defined)
    BY <1>1 DEF CanonicalNames
  <2> QED BY <2>1 DEF KindsInv
<1> QED BY <1>1, <1>2, <1>3, <1>4

\* A line of a preprocessed file was read.
LEMMA LineTables ==
  ASSUME lang \in Langs, err = "OK", Tables,
         NEW t \in Type, t \in ToSet(world.preprocessed), space' = AddType(lang, space, t),
         preprocessed' = IF t.name \in CanonicalNames(preprocessed) \cup Invalid
                         THEN preprocessed ELSE preprocessed \cup {t},
         UNCHANGED <<world, lang, defined, err>>
  PROVE  Tables'
<1> USE DEF Tables
<1>1. space \in Seq(Entry) /\ NoNameTwice(space) /\ Grows(BuiltIns[lang], space, Entry)
  BY DEF TablesInv
<1>2. /\ Grows(space, space', ClassesOf(t)) /\ NoNameTwice(space') /\ space' \in Seq(Entry)
      /\ lang = "JAVA" => Found(space', t.name)
  BY <1>1, AddTypeGrows DEF Addable
<1>3. \A u \in ClassesOf(t) : u \in Entry /\ (u \in Type => u = t)
                            /\ (u # t => KindOf(u) = "generated")
  BY StubsTyped, KindsDiffer DEF ClassesOf
<1>4. ASSUME NEW q \in DOMAIN space'
      PROVE  \/ q \in DOMAIN space /\ space'[q] = space[q]
             \/ space'[q] \in ClassesOf(t) /\ ~Found(space, space'[q].name)
  BY <1>2 DEF Grows
<1>5. preprocessed \subseteq preprocessed' /\ preprocessed' \subseteq preprocessed \cup {t}
      /\ t.name \in CanonicalNames(preprocessed') \cup Invalid
      /\ (t.name \in CanonicalNames(preprocessed) \cup Invalid => preprocessed' = preprocessed)
  BY DEF CanonicalNames
<1>6. TablesInv'
  <2>1. ASSUME NEW q \in DOMAIN space', space'[q] \in Type
        PROVE  space'[q].name \in CanonicalNames(defined \cup preprocessed') \cup Invalid
    <3>1. CASE q \in DOMAIN space /\ space'[q] = space[q]
      <4>1. space[q].name \in CanonicalNames(defined \cup preprocessed) \cup Invalid
        BY <2>1, <3>1 DEF TablesInv
      <4> QED BY <1>5, <3>1, <4>1 DEF CanonicalNames
    <3>2. CASE space'[q] \in ClassesOf(t)
      BY <1>3, <1>5, <2>1, <3>2 DEF CanonicalNames
    <3> QED BY <1>4, <3>1, <3>2
  <2>2. Grows(BuiltIns[lang], space', Entry)
    BY <1>1, <1>2, <1>3, BuiltInsTyped, GrowsFurther, GrowsMore
  <2>3. preprocessed' \subseteq Type /\ Unique(preprocessed')
    <3>1. preprocessed \subseteq Type /\ Unique(preprocessed)
      BY DEF TablesInv
    <3>2. CASE t.name \in CanonicalNames(preprocessed) \cup Invalid
      BY <3>1, <3>2
    <3>3. CASE t.name \notin CanonicalNames(preprocessed) \cup Invalid
      BY <3>1, <3>3 DEF Unique, CanonicalNames
    <3> QED BY <3>2, <3>3
  <2>4. Mentioned' = Mentioned
    BY DEF Mentioned, Skipped, IsBuiltinTypename
  <2>5. preprocessed' \subseteq ToSet(world.preprocessed)
    BY <1>5 DEF TablesInv
  <2> QED BY <1>2, <2>1, <2>2, <2>3, <2>4, <2>5 DEF TablesInv, Unique, NoNameTwice, Grows, Found
<1>7. FoundInv'
  <2> SUFFICES ASSUME lang = "JAVA"
               PROVE  /\ \A u \in preprocessed' : Found(space', u.name)
                      /\ \A u \in defined : Found(space', u.name)
    BY DEF FoundInv, Found
  <2>1. \A u \in preprocessed \cup defined : Found(space, u.name)
    BY DEF FoundInv
  <2>2. \A u \in preprocessed \cup defined : Found(space', u.name)
    BY <1>1, <1>2, <2>1, FoundIsKept
  <2> QED BY <1>2, <1>5, <2>2
<1>8. KindsInv'
  <2> SUFFICES ASSUME lang = "JAVA", NEW q \in DOMAIN space'
               PROVE  /\ \A u \in defined : u.name = space'[q].name =>
                           KindOf(u) = KindOf(space'[q])
                      /\ \A u \in preprocessed' :
                           u.name = space'[q].name /\ u.name \notin CanonicalNames(defined)
                           => KindOf(space'[q]) \in {KindOf(u), "built_in", "generated"}
    BY DEF KindsInv
  <2>1. CASE q \in DOMAIN space /\ space'[q] = space[q]
    <3>1. \A u \in defined : u.name = space[q].name => KindOf(u) = KindOf(space[q])
      BY <2>1 DEF KindsInv
    <3>2. ASSUME NEW u \in preprocessed', u.name = space[q].name,
                 u.name \notin CanonicalNames(defined)
          PROVE  KindOf(space[q]) \in {KindOf(u), "built_in", "generated"}
      <4>1. CASE u \in preprocessed
        BY <2>1, <3>2, <4>1 DEF KindsInv
      <4>2. CASE u \notin preprocessed /\ space[q] \in Type
        <5>1. u = t /\ t.name \notin CanonicalNames(preprocessed) \cup Invalid
          BY <1>5, <4>2
        <5>2. space[q].name \in CanonicalNames(defined \cup preprocessed) \cup Invalid
          BY <2>1, <4>2 DEF TablesInv
        <5> QED BY <3>2, <5>1, <5>2 DEF CanonicalNames
      <4>3. CASE space[q] \notin Type
        BY <1>1, <2>1, <4>3, KindsDiffer
      <4> QED BY <4>1, <4>2, <4>3
    <3> QED BY <2>1, <3>1, <3>2
  <2>2. CASE space'[q] \in ClassesOf(t) /\ ~Found(space, space'[q].name)
    <3>1. \A u \in defined \cup preprocessed : u.name # space'[q].name
      BY <2>2 DEF FoundInv
    <3>2. \A u \in preprocessed' : u.name = space'[q].name => u = t
      BY <1>5, <3>1
    <3>3. KindOf(space'[q]) \in {KindOf(t), "generated"}
      BY <1>3, <2>2
    <3> QED BY <3>1, <3>2, <3>3
  <2> QED BY <1>4, <2>1, <2>2
<1> QED BY <1>6, <1>7, <1>8


-----------------------------------------------------------------------------
(* The steps.                                                              *)

\* Nothing happens to the tables.
LEMMA TablesUnchanged ==
  ASSUME Tables, UNCHANGED <<world, lang, defined, preprocessed, space>>,
         err' = "OK" => err = "OK"
  PROVE  Tables'
<1>1. Mentioned' = Mentioned
  BY DEF Mentioned, Skipped, IsBuiltinTypename
<1>2. TablesInv'
  BY <1>1 DEF Tables, TablesInv, Unique, NoNameTwice, CanonicalNames, Grows, Found
<1>3. FoundInv' /\ KindsInv'
  BY DEF Tables, FoundInv, KindsInv, Found, CanonicalNames
<1> QED BY <1>2, <1>3 DEF Tables

\* The tables at the start of a run.
LEMMA StartTables ==
  ASSUME lang \in Langs, defined = {}, preprocessed = {}, space = BuiltIns[lang]
  PROVE  Tables
<1>1. /\ space \in Seq(Entry) /\ NoNameTwice(space)
      /\ \A i \in DOMAIN space : space[i] \notin Type
  BY BuiltInsTyped
<1>2. Grows(BuiltIns[lang], space, Entry)
  BY <1>1, GrowsNothing
<1>3. TablesInv
  BY <1>1, <1>2 DEF TablesInv, Unique
<1> QED BY <1>3 DEF Tables, FoundInv, KindsInv, CanonicalNames

LEMMA InitStep ==
  ASSUME Init
  PROVE  IInv
<1>1. DOMAIN result = {} /\ lang \in Langs /\ space = BuiltIns[lang]
  BY DEF Init, Langs
<1>2. Tables
  BY <1>1, StartTables DEF Init
<1>3. TypeOK
  BY <1>1, <1>2 DEF Init, TypeOK, Tables, TablesInv, NoNameTwice
<1> QED BY <1>1, <1>2, <1>3 DEF Init, IInv, StepInv, ImportInv, NameSpacesAgree

\* What may be reported for one backend.
AgreeOn(l, resolved, linked) ==
  \/ /\ linked.name = resolved.name
     /\ l = "JAVA" => \/ KindOf(linked) = KindOf(resolved)
                      \/ /\ resolved \in ToSet(world.preprocessed)
                         /\ \/ KindOf(linked) = "built_in"
                            \/ \E t \in Mentioned : t.name = resolved.name
                                                   /\ t.short # resolved.short
  \/ linked.name # resolved.name /\ IsShortFor(resolved.name, linked)
Agree(l, resolved, linked) ==
  \A i \in DOMAIN linked : AgreeOn(l, resolved[i], linked[i])

LEMMA AgreeSame ==
  ASSUME world' = world
  PROVE  /\ NameSpacesAgree <=> \A l \in DOMAIN result :
                                  Agree(l, result[l].resolved, result[l].linked)
         /\ NameSpacesAgree' <=> \A l \in DOMAIN result' :
                                   Agree(l, result'[l].resolved, result'[l].linked)
<1>1. Mentioned' = Mentioned
  BY DEF Mentioned, Skipped, IsBuiltinTypename
<1> QED BY <1>1, Zenon DEF NameSpacesAgree, Agree, AgreeOn, IsShortFor, KindOf

\* The run for one backend ends: it starts for the other one, or is done.
LEMMA ReturnStep ==
  ASSUME IInv, NEW error, NEW resolved, NEW linked, Return(error, resolved, linked),
         Agree(lang, resolved, linked), step # "done", UNCHANGED world,
         candidates' \subseteq Name
  PROVE  IInv'
<1> DEFINE this == [error |-> error, resolved |-> resolved, linked |-> linked]
<1>1. result' = [l \in DOMAIN result \cup {lang} |-> IF l = lang THEN this ELSE result[l]]
  BY DEF Return
<1>2. /\ DOMAIN result' = DOMAIN result \cup {lang} /\ result'[lang] = this
      /\ \A l \in DOMAIN result' : l # lang => l \in DOMAIN result /\ result'[l] = result[l]
  BY <1>1
<1>3. this.resolved = resolved /\ this.linked = linked
  OBVIOUS
<1> HIDE DEF this
<1>4. NameSpacesAgree'
  <2> SUFFICES ASSUME NEW l \in DOMAIN result'
               PROVE  Agree(l, result'[l].resolved, result'[l].linked)
    BY AgreeSame
  <2>1. CASE l = lang
    BY <1>2, <1>3, <2>1
  <2>2. CASE l # lang
    BY <1>2, <2>2, AgreeSame DEF IInv
  <2> QED BY <2>1, <2>2
<1>5. lang \in Langs /\ world \in Worlds /\ Tables
  BY DEF IInv, TypeOK
<1>6. CASE lang = "CPP"
  <2>1. /\ lang' = "JAVA" /\ step' = "parse" /\ defined' = {} /\ preprocessed' = {}
        /\ space' = BuiltIns["JAVA"] /\ err' = "OK"
    BY <1>6 DEF Return, Start
  <2>2. DOMAIN result = {}
    BY <1>6 DEF IInv, TypeOK
  <2>3. lang' \in Langs
    BY <2>1 DEF Langs
  <2>4. Tables'
    <3>1. space' = BuiltIns[lang']
      BY <2>1
    <3>2. /\ space' \in Seq(Entry) /\ NoNameTwice(space')
          /\ \A i \in DOMAIN space' : space'[i] \notin Type
      BY <2>3, <3>1, BuiltInsTyped
    <3>3. Grows(BuiltIns[lang'], space', Entry)
      BY <3>1, <3>2, GrowsNothing
    <3>4. TablesInv'
      BY <2>1, <3>2, <3>3 DEF TablesInv, Unique, NoNameTwice, Grows, Found
    <3> QED BY <2>1, <3>4 DEF Tables, FoundInv, KindsInv, CanonicalNames
  <2>5. TypeOK'
    <3>1. step' # "done" /\ lang' = "JAVA" /\ DOMAIN result' = {"CPP"}
      BY <1>2, <1>6, <2>1, <2>2
    <3> QED BY <1>5, <2>1, <2>3, <2>4, <3>1
        DEF TypeOK, Tables, TablesInv, NoNameTwice
  <2> QED BY <1>4, <2>1, <2>4, <2>5 DEF IInv, StepInv, ImportInv
<1>7. CASE lang = "JAVA"
  <2>1. step' = "done" /\ UNCHANGED <<lang, defined, preprocessed, space, err>>
    BY <1>7 DEF Return, names
  <2>2. DOMAIN result = {"CPP"}
    BY <1>7 DEF IInv, TypeOK
  <2>3. DOMAIN result' = Langs
    BY <1>2, <1>7, <2>2 DEF Langs
  <2>4. TypeOK'
    BY <2>1, <2>3 DEF IInv, TypeOK, Unique, CanonicalNames
  <2>5. Tables'
    BY <1>5, <2>1, TablesUnchanged
  <2> QED BY <1>4, <2>1, <2>4, <2>5 DEF IInv, StepInv, ImportInv
<1> QED BY <1>5, <1>6, <1>7 DEF Langs

LEMMA FailStep ==
  ASSUME IInv, NEW error, Fail(error), step # "done", UNCHANGED world,
         candidates' \subseteq Name
  PROVE  IInv'
<1>1. Agree(lang, <<>>, <<>>)
  BY DEF Agree
<1> QED BY <1>1, ReturnStep DEF Fail

\* A step within the run for one backend.
LEMMA WithinRun ==
  ASSUME IInv, Tables', StepInv', ImportInv',
         UNCHANGED <<world, lang, result>>, step \notin {"done"},
         step' \in {"preprocessed", "import", "file", "resolve"},
         err' \in {"OK", "BAD_IMPORT"}, candidates' \subseteq Name
  PROVE  IInv'
<1>1. TypeOK'
  BY DEF IInv, TypeOK, Tables, TablesInv, NoNameTwice
<1>2. NameSpacesAgree'
  BY AgreeSame DEF IInv
<1> QED BY <1>1, <1>2 DEF IInv

LEMMA ParseMainStep ==
  ASSUME IInv, ParseMain
  PROVE  IInv'
<1>1. /\ TypeOK /\ Tables /\ step = "parse" /\ err = "OK" /\ lang \in Langs
      /\ world \in Worlds /\ candidates \subseteq Name
  BY DEF IInv, ParseMain, StepInv, TypeOK
<1>2. world' = world /\ candidates' = candidates /\ queue' = world.preprocessed
  BY DEF ParseMain
<1>3. CASE Fail("PARSE_ERROR") \/ Fail("BAD_TYPE")
  BY <1>1, <1>2, <1>3, FailStep
<1>4. CASE /\ Parses(world.types) /\ AllAdded(space, world.types)
           /\ defined' = Defined(world.types) /\ space' = AddAll(space, world.types)
           /\ UNCHANGED preprocessed /\ Goto("preprocessed")
  <2>1. /\ world.types \in Seq(Type) /\ world.preprocessed \in Seq(Line)
        /\ ToSet(world.types) \subseteq Mentioned
    BY <1>1, WorldTyped DEF Mentioned
  <2>2. step' = "preprocessed" /\ UNCHANGED <<lang, err, result>>
    BY <1>4 DEF Goto
  <2>3. Tables'
    BY <1>1, <1>2, <1>4, <2>1, <2>2, LoadedTables
  <2>4. StepInv' /\ ImportInv'
    BY <1>1, <1>2, <2>1, <2>2 DEF StepInv, ImportInv
  <2> QED BY <1>1, <1>2, <2>2, <2>3, <2>4, WithinRun
<1> QED BY <1>3, <1>4 DEF ParseMain

\* The rest of a queue.
LEMMA RestOfQueue ==
  ASSUME NEW S, NEW q \in Seq(S), q # <<>>
  PROVE  /\ Head(q) \in S /\ Head(q) \in ToSet(q) /\ Tail(q) \in Seq(S)
         /\ ToSet(Tail(q)) \subseteq ToSet(q)
<1>1. /\ Head(q) \in S /\ Tail(q) \in Seq(S) /\ Head(q) = q[1] /\ 1 \in DOMAIN q
      /\ DOMAIN Tail(q) = 1 .. Len(q) - 1
      /\ \A i \in 1 .. Len(q) - 1 : Tail(q)[i] = q[i + 1] /\ i + 1 \in DOMAIN q
  BY HeadTailProperties
<1> QED BY <1>1 DEF ToSet

LEMMA PreprocessedLineStep ==
  ASSUME IInv, PreprocessedLine
  PROVE  IInv'
<1>1. /\ TypeOK /\ Tables /\ step = "preprocessed" /\ err = "OK" /\ lang \in Langs
      /\ queue \in Seq(Line) /\ queue # <<>> /\ candidates \subseteq Name
      /\ ToSet(queue) \subseteq ToSet(world.preprocessed)
  BY DEF IInv, PreprocessedLine, StepInv, TypeOK
<1>2. UNCHANGED <<world, candidates>> /\ queue' = Tail(queue)
  BY DEF PreprocessedLine
<1> DEFINE t == Head(queue)
<1>3. /\ t \in Line /\ t \in ToSet(world.preprocessed) /\ queue' \in Seq(Line)
      /\ ToSet(queue') \subseteq ToSet(world.preprocessed)
  BY <1>1, <1>2, RestOfQueue
<1>4. CASE t = Malformed /\ Fail("BAD_PRE_PROCESSED_FILE")
  BY <1>1, <1>2, <1>4, FailStep
<1>5. ASSUME Tables', UNCHANGED <<lang, step, err, result>> PROVE IInv'
  <2>1. StepInv' /\ ImportInv'
    BY <1>1, <1>2, <1>3, <1>5 DEF StepInv, ImportInv
  <2> QED BY <1>1, <1>2, <1>5, <2>1, WithinRun
<1>6. CASE UNCHANGED <<lang, step, names, err, result>>
  <2>1. Tables'
    BY <1>1, <1>2, <1>6, TablesUnchanged DEF names
  <2> QED BY <1>5, <1>6, <2>1
<1>7. CASE /\ t # Malformed
           /\ space' = AddType(lang, space, t)
           /\ preprocessed' = IF t.name \in CanonicalNames(preprocessed) \cup Invalid
                              THEN preprocessed ELSE preprocessed \cup {t}
           /\ UNCHANGED <<lang, step, defined, err, result>>
  <2>1. t \in Type
    BY <1>3, <1>7 DEF Line
  <2>2. Tables'
    BY <1>1, <1>2, <1>3, <1>7, <2>1, LineTables
  <2> QED BY <1>5, <1>7, <2>2
<1> QED BY <1>4, <1>6, <1>7 DEF PreprocessedLine

LEMMA CandidatesStep ==
  ASSUME IInv, Candidates
  PROVE  IInv'
<1>1. /\ TypeOK /\ Tables /\ step = "preprocessed" /\ err = "OK" /\ world \in Worlds
  BY DEF IInv, Candidates, StepInv, TypeOK
<1>2. /\ step' = "import"
      /\ candidates' = (world.imports \cup ToSet(world.specs)) \ DOMAIN AidlName
      /\ UNCHANGED <<world, lang, defined, preprocessed, space, err, result>>
  BY DEF Candidates, Goto, names
<1>3. Tables'
  BY <1>1, <1>2, TablesUnchanged
<1>4. candidates' \subseteq Name
  <2>1. world.imports \subseteq Name /\ world.specs \in Seq(Name)
    BY <1>1, WorldTyped
  <2> QED BY <1>2, <2>1 DEF ToSet
<1>5. StepInv' /\ ImportInv'
  BY <1>2 DEF StepInv, ImportInv
<1> QED BY <1>1, <1>2, <1>3, <1>4, <1>5, WithinRun

\* Loading a document, as an import or with -m.
LEMMA LoadStep ==
  ASSUME IInv, NEW doc \in Seq(Type), ToSet(doc) \subseteq Mentioned, Load(doc),
         step \in {"import", "file"}, UNCHANGED world, candidates' \subseteq Name
  PROVE  \/ IInv'
         \/ /\ Tables' /\ defined \subseteq defined' /\ Grows(space, space', Entry)
            /\ UNCHANGED <<lang, step, preprocessed, result>>
            /\ \/ err' = "BAD_IMPORT"
               \/ err' = err /\ defined' = defined \cup ToSet(doc)
<1>1. /\ TypeOK /\ Tables /\ lang \in Langs /\ (err = "OK" \/ err = "BAD_IMPORT")
      /\ space \in Seq(Entry)
  BY DEF IInv, TypeOK
<1>2. CASE /\ err' = "BAD_IMPORT" /\ defined' = Defined(doc)
           /\ UNCHANGED <<lang, step, preprocessed, space, result>>
  BY <1>1, <1>2, UnparsedTables, GrowsNothing
<1>3. CASE Fail("BAD_TYPE")
  BY <1>3, FailStep
<1>4. CASE /\ Parses(doc) /\ AllAdded(space, doc)
           /\ defined' = Defined(doc) /\ space' = AddAll(space, doc)
           /\ UNCHANGED <<lang, step, preprocessed, err, result>>
  BY <1>1, <1>4, LoadedTables
<1> QED BY <1>2, <1>3, <1>4 DEF Load

\* What an import needs is there after a step that does not take it up.
LEMMA MoreIsKnown ==
  ASSUME defined \subseteq defined', Grows(space, space', Entry),
         UNCHANGED <<world, preprocessed>>, NEW name, Known(name)
  PROVE  Known(name)'
<1>1. /\ name \in CanonicalNames(defined \cup preprocessed) =>
           name \in CanonicalNames(defined' \cup preprocessed')
      /\ Misplaced(name) => Misplaced(name)'
  BY DEF CanonicalNames, Misplaced, FindImportFile
<1>2. OtherClass(name) => OtherClass(name)'
  BY DEF OtherClass, Grows, IsShortFor
<1> QED BY <1>1, <1>2 DEF Known, Excused

LEMMA ImportStep ==
  ASSUME IInv, Import
  PROVE  IInv'
<1>1. /\ TypeOK /\ Tables /\ step = "import" /\ space \in Seq(Entry)
      /\ candidates \subseteq Name /\ err \in {"OK", "BAD_IMPORT"} /\ world \in Worlds
  BY DEF IInv, Import, TypeOK
<1>2. PICK name \in candidates :
        /\ candidates' = candidates \ {name}
        /\ \/ /\ HasImportType(name)
              /\ UNCHANGED <<lang, step, names, err, result>>
           \/ /\ ~HasImportType(name) /\ FindImportFile(name) = {}
              /\ err' = IF name \in world.imports THEN "BAD_IMPORT" ELSE err
              /\ UNCHANGED <<lang, step, names, result>>
           \/ /\ ~HasImportType(name)
              /\ \E doc \in FindImportFile(name) : Load(doc)
  BY DEF Import
<1>3. world' = world /\ candidates' \subseteq Name
  BY <1>1, <1>2 DEF Import
\* It is enough that the import that was taken up is known, or has failed.
<1>4. ASSUME Tables', defined \subseteq defined', Grows(space, space', Entry),
             UNCHANGED <<lang, step, preprocessed, result>>,
             err' \in {"OK", "BAD_IMPORT"}, err' = "OK" => err = "OK",
             name \in world.imports => err' # "OK" \/ Known(name)'
      PROVE  IInv'
  <2>1. StepInv'
    BY <1>1, <1>4 DEF StepInv
  <2>2. ImportInv'
    <3> SUFFICES ASSUME NEW other \in world.imports \ DOMAIN AidlName
                 PROVE  Known(other)' \/ err' # "OK" \/ (step' = "import" /\ other \in candidates')
      BY <1>3 DEF ImportInv
    <3>1. CASE other = name
      BY <1>4, <3>1
    <3>2. CASE other # name
      <4>1. Known(other) \/ err # "OK" \/ other \in candidates
        BY <1>1 DEF IInv, ImportInv
      <4>2. Known(other) => Known(other)'
        BY <1>3, <1>4, MoreIsKnown
      <4> QED BY <1>1, <1>2, <1>4, <3>2, <4>1, <4>2
    <3> QED BY <3>1, <3>2
  <2> QED BY <1>1, <1>3, <1>4, <2>1, <2>2, WithinRun
<1>5. CASE HasImportType(name) /\ UNCHANGED <<lang, step, names, err, result>>
  <2>1. UNCHANGED <<lang, step, defined, preprocessed, space, err, result>>
    BY <1>5 DEF names
  <2>2. Tables' /\ Grows(space, space', Entry)
    BY <1>1, <1>3, <2>1, TablesUnchanged, GrowsNothing
  <2>3. PICK i \in DOMAIN space : space[i].name = name \/ IsShortFor(name, space[i])
    BY <1>1, <1>5, FoundIff DEF HasImportType
  <2>4. Known(name)
    <3>1. CASE space[i].name = name /\ space[i] \in Type
      BY <1>1, <3>1 DEF Tables, TablesInv, Known, Excused
    <3>2. CASE ~(space[i].name = name /\ space[i] \in Type)
      BY <2>3, <3>2 DEF OtherClass, Known, Excused
    <3> QED BY <3>1, <3>2
  <2>5. Known(name)'
    BY <1>3, <2>1, <2>2, <2>4, MoreIsKnown
  <2> QED BY <1>1, <1>4, <2>1, <2>2, <2>5
<1>6. CASE /\ err' = IF name \in world.imports THEN "BAD_IMPORT" ELSE err
           /\ UNCHANGED <<lang, step, names, result>>
  <2>1. UNCHANGED <<lang, step, defined, preprocessed, space, result>>
        /\ (err' = "OK" => err = "OK") /\ err' \in {"OK", "BAD_IMPORT"}
        /\ (name \in world.imports => err' # "OK")
    BY <1>1, <1>6 DEF names
  <2>2. Tables' /\ Grows(space, space', Entry)
    BY <1>1, <1>3, <2>1, TablesUnchanged, GrowsNothing
  <2> QED BY <1>4, <2>1, <2>2
<1>7. ASSUME NEW doc \in FindImportFile(name), Load(doc) PROVE IInv'
  <2>1. doc \in Seq(Type) /\ ToSet(doc) \subseteq Mentioned
    BY <1>1, FoundFilesTyped
  <2>2. CASE /\ Tables' /\ defined \subseteq defined' /\ Grows(space, space', Entry)
             /\ UNCHANGED <<lang, step, preprocessed, result>>
             /\ \/ err' = "BAD_IMPORT"
                \/ err' = err /\ defined' = defined \cup ToSet(doc)
    <3>1. CASE err' = "BAD_IMPORT"
      BY <1>4, <2>2, <3>1
    <3>2. CASE err' = err /\ defined' = defined \cup ToSet(doc)
      <4>1. Known(name)'
        <5>1. CASE name \in CanonicalNames(ToSet(doc))
          BY <3>2, <5>1 DEF CanonicalNames, Known
        <5>2. CASE name \notin CanonicalNames(ToSet(doc))
          <6>1. Misplaced(name)
            BY <1>7, <5>2 DEF Misplaced
          <6>2. Misplaced(name)'
            BY <1>3, <6>1 DEF Misplaced, FindImportFile, CanonicalNames
          <6> QED BY <6>2 DEF Known, Excused
        <5> QED BY <5>1, <5>2
      <4> QED BY <1>1, <1>4, <2>2, <3>2, <4>1
    <3> QED BY <2>2, <3>1, <3>2
  <2> QED BY <1>1, <1>3, <1>7, <2>1, <2>2, LoadStep
<1> QED BY <1>2, <1>5, <1>6, <1>7

LEMMA ImportedStep ==
  ASSUME IInv, Imported
  PROVE  IInv'
<1>1. /\ TypeOK /\ Tables /\ step = "import" /\ space \in Seq(Entry)
      /\ candidates = {} /\ err \in {"OK", "BAD_IMPORT"} /\ world \in Worlds
  BY DEF IInv, Imported, TypeOK
<1>2. world' = world /\ candidates' = candidates /\ queue' = world.m
  BY DEF Imported
<1>3. CASE Fail(err)
  BY <1>1, <1>2, <1>3, FailStep
<1>4. CASE err = "OK" /\ Goto("file") /\ UNCHANGED names
  <2>1. step' = "file" /\ UNCHANGED <<lang, defined, preprocessed, space, err, result>>
    BY <1>4 DEF Goto, names
  <2>2. Tables' /\ Grows(space, space', Entry)
    BY <1>1, <1>2, <2>1, TablesUnchanged, GrowsNothing
  <2>3. StepInv'
    <3>1. world.m \in Seq(Seq(Type))
      BY <1>1, WorldTyped
    <3> QED BY <1>2, <2>1, <3>1 DEF StepInv
  <2>4. ASSUME NEW name \in world.imports \ DOMAIN AidlName PROVE Known(name)'
    <3>1. Known(name)
      BY <1>1, <1>4 DEF IInv, ImportInv
    <3> QED BY <1>2, <2>1, <2>2, <3>1, MoreIsKnown
  <2>5. ImportInv'
    BY <1>2, <2>4 DEF ImportInv
  <2> QED BY <1>1, <1>2, <2>1, <2>2, <2>3, <2>5, WithinRun
<1> QED BY <1>3, <1>4 DEF Imported

LEMMA ImportFileStep ==
  ASSUME IInv, ImportFile
  PROVE  IInv'
<1>1. /\ TypeOK /\ step = "file" /\ candidates \subseteq Name /\ world \in Worlds
      /\ err \in {"OK", "BAD_IMPORT"} /\ queue \in Seq(Seq(Type)) /\ queue # <<>>
      /\ ToSet(queue) \subseteq ToSet(world.m)
  BY DEF IInv, ImportFile, TypeOK, StepInv
<1>2. /\ world' = world /\ candidates' = candidates
      /\ Load(Head(queue)) /\ queue' = Tail(queue)
  BY DEF ImportFile
<1>3. /\ Head(queue) \in Seq(Type) /\ Head(queue) \in ToSet(world.m)
      /\ queue' \in Seq(Seq(Type)) /\ ToSet(queue') \subseteq ToSet(world.m)
  BY <1>1, <1>2, RestOfQueue
<1>4. ToSet(Head(queue)) \subseteq Mentioned
  BY <1>3 DEF Mentioned
<1>5. CASE /\ Tables' /\ defined \subseteq defined' /\ Grows(space, space', Entry)
           /\ UNCHANGED <<lang, step, preprocessed, result>>
           /\ err' = "BAD_IMPORT" \/ err' = err
  <2>1. StepInv'
    BY <1>1, <1>2, <1>3, <1>5 DEF StepInv
  <2>2. ASSUME NEW name \in world.imports \ DOMAIN AidlName PROVE Known(name)' \/ err' # "OK"
    <3>1. Known(name) \/ err # "OK"
      BY <1>1 DEF IInv, ImportInv
    <3> QED BY <1>2, <1>5, <3>1, MoreIsKnown
  <2>3. ImportInv'
    BY <1>2, <2>2 DEF ImportInv
  <2>4. err' \in {"OK", "BAD_IMPORT"}
    BY <1>1, <1>5
  <2> QED BY <1>1, <1>2, <1>5, <2>1, <2>3, <2>4, WithinRun
<1> QED BY <1>1, <1>2, <1>3, <1>4, <1>5, LoadStep

LEMMA FilesImportedStep ==
  ASSUME IInv, FilesImported
  PROVE  IInv'
<1>1. /\ TypeOK /\ Tables /\ step = "file" /\ space \in Seq(Entry)
      /\ candidates \subseteq Name /\ err \in {"OK", "BAD_IMPORT"}
  BY DEF IInv, FilesImported, TypeOK
<1>2. world' = world /\ candidates' = candidates
  BY DEF FilesImported
<1>3. CASE Fail(err)
  BY <1>1, <1>2, <1>3, FailStep
<1>4. CASE err = "OK" /\ Goto("resolve") /\ UNCHANGED names
  <2>1. step' = "resolve" /\ UNCHANGED <<lang, defined, preprocessed, space, err, result>>
    BY <1>4 DEF Goto, names
  <2>2. Tables' /\ Grows(space, space', Entry)
    BY <1>1, <1>2, <2>1, TablesUnchanged, GrowsNothing
  <2>3. StepInv'
    BY <1>4, <2>1 DEF StepInv
  <2>4. ASSUME NEW name \in world.imports \ DOMAIN AidlName PROVE Known(name)'
    <3>1. Known(name)
      BY <1>1, <1>4 DEF IInv, ImportInv
    <3> QED BY <1>2, <2>1, <2>2, <3>1, MoreIsKnown
  <2>5. ImportInv'
    BY <1>2, <2>4 DEF ImportInv
  <2> QED BY <1>1, <1>2, <2>1, <2>2, <2>3, <2>5, WithinRun
<1> QED BY <1>3, <1>4 DEF FilesImported

\* The backend finds the type that AidlTypenames resolved a specifier to.
LEMMA LinksAgree ==
  ASSUME IInv, err = "OK", NEW spec \in Name,
         ResolveTypename(spec) # NoType, Link(spec) # NoType, CanWriteToParcel(Link(spec))
  PROVE  AgreeOn(lang, ResolveTypename(spec), Link(spec))
<1> DEFINE resolved == ResolveTypename(spec)
           linked == Link(spec)
<1>1. /\ TypeOK /\ TablesInv /\ defined \subseteq Type /\ preprocessed \subseteq Type
      /\ space \in Seq(Entry) /\ KindsInv /\ lang \in Langs
  BY DEF IInv, TypeOK, Tables
<1>2. linked = FindTypeByCanonicalName(space, resolved.name)
  BY DEF Link
<1>3. resolved # NoType /\ linked # NoType /\ CanWriteToParcel(linked)
  OBVIOUS
<1>4. CASE IsBuiltinTypename(spec)
  <2>1. resolved.name = AidlName[spec] /\ KindOf(resolved) = "built_in"
    BY <1>4 DEF ResolveTypename, KindOf
  <2>2. FindTypeByCanonicalName(BuiltIns["JAVA"], AidlName[spec]) # NoType
    <3>1. NoType.kind # "built_in"
      BY DEF NoType
    <3> QED BY <1>4, <3>1, TypeNamesAssumption DEF IsBuiltinTypename
  <2> HIDE DEF resolved, linked
  <2>3. PICK i \in DOMAIN space :
          /\ linked = space[i]
          /\ linked.name = resolved.name \/ IsShortFor(resolved.name, linked)
    BY <1>1, <1>2, <1>3, FoundIff, TypeFound
  <2>4. ASSUME lang = "JAVA", linked.name = resolved.name
        PROVE  KindOf(linked) = KindOf(resolved)
    <3>1. i \in DOMAIN BuiltIns["JAVA"] /\ linked = BuiltIns["JAVA"][i]
      BY <1>1, <2>1, <2>2, <2>3, <2>4 DEF TablesInv, Grows, Found
    <3>2. linked \in BuiltIn
      BY <1>1, <2>4, <3>1, BuiltInsTyped
    <3> QED BY <2>1, <3>2, KindsDiffer
  <2>5. AgreeOn(lang, resolved, linked)
    BY <2>3, <2>4 DEF AgreeOn
  <2> QED BY <2>5 DEF resolved, linked
<1>5. CASE ~IsBuiltinTypename(spec)
  <2>1. resolved = TryGetDefinedType(spec)
    BY <1>5 DEF ResolveTypename
  <2>2. \/ resolved \in defined
        \/ resolved \in preprocessed /\ resolved.name \notin CanonicalNames(defined)
        \/ /\ resolved \in preprocessed /\ IsShortFor(spec, resolved)
           /\ \A u \in defined : ~IsShortFor(spec, u)
    BY <1>1, <1>3, <2>1, DefinedTypeFound
  <2> HIDE DEF resolved, linked
  <2>3. PICK i \in DOMAIN space :
          /\ linked = space[i]
          /\ linked.name = resolved.name \/ IsShortFor(resolved.name, linked)
    BY <1>1, <1>2, <1>3, FoundIff, TypeFound
  <2>4. ASSUME lang = "JAVA", linked.name = resolved.name, resolved \notin defined
        PROVE  /\ resolved \in ToSet(world.preprocessed)
               /\ \/ KindOf(linked) \in {KindOf(resolved), "built_in"}
                  \/ \E t \in Mentioned : t.name = resolved.name
                                         /\ t.short # resolved.short
    <3>1. resolved \in preprocessed /\ resolved \in ToSet(world.preprocessed)
      BY <1>1, <2>2, <2>4 DEF TablesInv
    <3>2. KindOf(linked) # "generated"
      BY <1>3 DEF KindOf, CanWriteToParcel
    <3>3. CASE resolved.name \notin CanonicalNames(defined)
      BY <1>1, <2>3, <2>4, <3>1, <3>2, <3>3 DEF KindsInv
    <3>4. CASE resolved.name \in CanonicalNames(defined)
      <4>1. PICK t \in defined : t.name = resolved.name
        BY <3>4 DEF CanonicalNames
      <4>2. t.short # resolved.short /\ t \in Mentioned
        BY <1>1, <2>2, <2>4, <3>4 DEF TablesInv, IsShortFor
      <4> QED BY <3>1, <4>1, <4>2
    <3> QED BY <3>3, <3>4
  <2>5. ASSUME lang = "JAVA", linked.name = resolved.name, resolved \in defined
        PROVE  KindOf(linked) = KindOf(resolved)
    BY <1>1, <2>3, <2>5 DEF KindsInv
  <2>6. AgreeOn(lang, resolved, linked)
    BY <2>3, <2>4, <2>5 DEF AgreeOn
  <2> QED BY <2>6 DEF resolved, linked
<1> QED BY <1>4, <1>5

LEMMA ResolveStep ==
  ASSUME IInv, Resolve
  PROVE  IInv'
<1>1. /\ TypeOK /\ step = "resolve" /\ err = "OK" /\ candidates \subseteq Name
      /\ world \in Worlds
  BY DEF IInv, Resolve, StepInv, TypeOK
<1>2. UNCHANGED <<world, candidates>>
  BY DEF Resolve
<1> DEFINE resolved == [i \in DOMAIN world.specs |-> ResolveTypename(world.specs[i])]
           linked == [i \in DOMAIN world.specs |-> Link(world.specs[i])]
           fine == \A i \in DOMAIN world.specs :
                     NoType \notin {resolved[i], linked[i]} /\ CanWriteToParcel(linked[i])
<1>3. CASE ~fine
  <2>1. Fail("BAD_TYPE")
    BY <1>3 DEF Resolve
  <2> QED BY <1>1, <1>2, <2>1, FailStep
<1>4. CASE fine
  <2>1. Return("OK", resolved, linked)
    BY <1>4 DEF Resolve
  <2>2. ASSUME NEW i \in DOMAIN world.specs PROVE AgreeOn(lang, resolved[i], linked[i])
    <3>1. world.specs[i] \in Name
      <4>1. world.specs \in Seq(Name)
        BY <1>1, WorldTyped
      <4> QED BY <4>1
    <3>2. resolved[i] = ResolveTypename(world.specs[i]) /\ linked[i] = Link(world.specs[i])
      OBVIOUS
    <3>3. resolved[i] # NoType /\ linked[i] # NoType /\ CanWriteToParcel(linked[i])
      BY <1>4
    <3> HIDE DEF resolved, linked, fine
    <3> QED BY <1>1, <3>1, <3>2, <3>3, LinksAgree
  <2>3. Agree(lang, resolved, linked)
    BY <2>2 DEF Agree
  <2> QED BY <1>1, <1>2, <2>1, <2>3, ReturnStep
<1> QED BY <1>3, <1>4

LEMMA StutterStep ==
  ASSUME IInv, UNCHANGED vars
  PROVE  IInv'
<1>1. UNCHANGED <<world, lang, step, defined, preprocessed, space, queue, candidates,
                  err, result>>
  BY DEF vars, names
<1>2. Tables' /\ StepInv'
  BY <1>1, TablesUnchanged DEF IInv, StepInv
<1>3. TypeOK'
  BY <1>1 DEF IInv, TypeOK, Unique, CanonicalNames
<1>4. NameSpacesAgree'
  BY <1>1, AgreeSame DEF IInv
<1>5. ImportInv'
  <2>1. space \in Seq(Entry)
    BY DEF IInv, TypeOK
  <2>2. \A name : Known(name) => Known(name)'
    BY <1>1, <2>1, MoreIsKnown, GrowsNothing
  <2> QED BY <1>1, <2>2 DEF IInv, ImportInv
<1> QED BY <1>2, <1>3, <1>4, <1>5 DEF IInv

\* A type is found under its full and its short name.
LEMMA NothingDefined ==
  ASSUME NEW name, defined \subseteq Type, preprocessed \subseteq Type,
         NEW u \in defined \cup preprocessed, IsShortFor(name, u)
  PROVE  TryGetDefinedType(name) # NoType
<1> DEFINE exact(types) == {t \in types : t.name = name}
           short(types) == {t \in types : IsShortFor(name, t)}
           choices == << exact(defined), exact(preprocessed),
                         short(defined), short(preprocessed) >>
           found == {i \in 1 .. 4 : choices[i] # {}}
           c == CHOOSE i \in found : \A j \in found : i <= j
<1>1. TryGetDefinedType(name) = IF found = {} THEN NoType ELSE FirstOf(choices[c])
  BY Zenon DEF TryGetDefinedType
<1>2. /\ choices[1] \in SUBSET Type /\ choices[2] \in SUBSET Type
      /\ choices[3] \in SUBSET Type /\ choices[4] \in SUBSET Type
      /\ choices[3] # {} \/ choices[4] # {}
  OBVIOUS
<1> HIDE DEF choices
<1>3. found # {} /\ found \in SUBSET Nat
  BY <1>2
<1>4. \E i \in found : \A j \in found : i <= j
  <2> HIDE DEF found
  <2> QED BY <1>3, HasLeast
<1>5. c \in found
  <2> HIDE DEF found
  <2> QED BY <1>4
<1>6. c \in 1 .. 4 /\ choices[c] # {}
  BY <1>5
<1> HIDE DEF c, found
<1>7. choices[c] \in SUBSET Type
  <2>1. c = 1 \/ c = 2 \/ c = 3 \/ c = 4
    BY <1>6
  <2> QED BY <1>2, <2>1
<1>8. FirstOf(choices[c]) \in Type
  BY <1>6, <1>7, FirstIsIn
<1> QED BY <1>1, <1>3, <1>8, TypeParts

-----------------------------------------------------------------------------
(* The theorems.                                                           *)

\* The inductive invariant holds in every reachable state: the three tables fit
\* each other at every point of a run of load_and_validate_aidl.
THEOREM Invariance == Spec => []IInv
<1>1. IInv /\ [Next]_vars => IInv'
  BY ParseMainStep, PreprocessedLineStep, CandidatesStep, ImportStep, ImportedStep,
     ImportFileStep, FilesImportedStep, ResolveStep, StutterStep DEF Next
<1> QED BY <1>1, InitStep, PTL DEF Spec

\* The tables hold types, each name once, and the name space of a backend has
\* no declared type that AidlTypenames does not have, but for names with a keyword.
THEOREM TypeOKAlways == Spec => []TypeOK
BY Invariance, PTL DEF IInv

\* SetLanguageType and Resolve give a specifier the same type, and in Java the
\* same kind of type, but for the names that the property lists.
THEOREM NameSpacesAgreeAlways == Spec => []NameSpacesAgree
BY Invariance, PTL DEF IInv

\* A short name means what the import statement names, unless the backend has a
\* class of that name built in or generated, or what else the property lists.
THEOREM ImportDecidesAlways == Spec => []ImportDecides
<1>1. ASSUME IInv PROVE ImportDecides
  <2> SUFFICES ASSUME step = "resolve", NEW name \in world.imports \ DOMAIN AidlName,
                      name \in CanonicalNames(defined \cup preprocessed)
               PROVE  \E u \in defined \cup preprocessed :
                        /\ u.name = name
                        /\ LET t == TryGetDefinedType(u.short)
                           IN  \/ t.name = u.short \/ t \in defined
                               \/ u \notin defined /\ t.name <= name
    <3>1. step = "resolve" => err = "OK"
      BY <1>1 DEF IInv, StepInv
    <3>2. step = "resolve" => \A name \in world.imports \ DOMAIN AidlName : Known(name)
      BY <1>1, <3>1 DEF IInv, ImportInv
    <3> QED BY <3>2 DEF ImportDecides, Known, Excused
  <2>1. defined \subseteq Type /\ preprocessed \subseteq Type
    BY <1>1 DEF IInv, TypeOK
  <2>2. PICK u \in defined \cup preprocessed : u.name = name
    BY DEF CanonicalNames
  <2> DEFINE t == TryGetDefinedType(u.short)
  <2>3. u.short \in Name /\ IsShortFor(u.short, u)
    BY <2>1, TypeParts DEF IsShortFor
  <2>4. t # NoType
    BY <2>1, <2>3, NothingDefined
  <2>5. \/ t \in defined
        \/ t.name = u.short
        \/ /\ \A v \in defined : ~IsShortFor(u.short, v)
           /\ \A v \in preprocessed : IsShortFor(u.short, v) => t.name <= v.name
    BY <2>1, <2>3, <2>4, DefinedTypeFound
  <2> QED BY <2>2, <2>3, <2>5
<1> QED BY <1>1, Invariance, PTL

-----------------------------------------------------------------------------
(* The runs for the two backends, side by side.                            *)

\* The name space without what the backend has built in and generates: the types
\* that it knows from documents.
Declared(types) == {types[i] : i \in DOMAIN types} \cap Type
Knows(known, name) == \E u \in known : u.name = name \/ IsShortFor(name, u)

\* Where the types in a name space come from.
Sources(l, types) ==
  /\ types \in Seq(Entry) /\ NoNameTwice(types) /\ Grows(BuiltIns[l], types, Entry)
  /\ \A i \in DOMAIN types \ DOMAIN BuiltIns[l] :
       types[i] \in Mentioned \/ \E t \in Mentioned : types[i] \in StubsOf(t)

LEMMA MentionedTyped ==
  ASSUME world \in Worlds
  PROVE  Mentioned \subseteq Type
<1>1. /\ world.types \in Seq(Type) /\ world.preprocessed \in Seq(Line)
      /\ world.files \subseteq File /\ world.inputs \in Seq(Input)
      /\ world.m \in Seq(Seq(Type))
  BY WorldTyped
<1>2. ToSet(world.types) \subseteq Type
  BY <1>1 DEF ToSet
<1>3. {t \in ToSet(world.preprocessed) : t # Malformed /\ ~Skipped(t)} \subseteq Type
  <2>1. ToSet(world.preprocessed) \subseteq Line
    BY <1>1 DEF ToSet
  <2> QED BY <2>1 DEF Line
<1>4. ASSUME NEW f \in world.files \cup ToSet(world.inputs)
      PROVE  ToSet(f.types) \subseteq Type
  <2>1. f \in File \cup Input
    BY <1>1 DEF ToSet
  <2>2. f.types \in Seq(Type)
    BY <2>1 DEF File, Input
  <2> QED BY <2>2 DEF ToSet
<1>5. ASSUME NEW doc \in ToSet(world.m) PROVE ToSet(doc) \subseteq Type
  <2>1. doc \in Seq(Type)
    BY <1>1 DEF ToSet
  <2> QED BY <2>1 DEF ToSet
<1> QED BY <1>2, <1>3, <1>4, <1>5 DEF Mentioned

\* What Init() adds is where a name space starts.
LEMMA BuiltInSources ==
  ASSUME NEW l \in Langs
  PROVE  Sources(l, BuiltIns[l]) /\ Declared(BuiltIns[l]) = {}
BY BuiltInsTyped, GrowsNothing DEF Sources, Declared

LEMMA SourcesGrow ==
  ASSUME NEW l \in Langs, NEW types, Sources(l, types), NEW more, NEW new,
         Grows(types, more, new), NoNameTwice(more), new \subseteq Entry,
         \A u \in new : u \in Mentioned \/ \E t \in Mentioned : u \in StubsOf(t)
  PROVE  Sources(l, more)
<1>1. Grows(types, more, Entry)
  BY GrowsMore
<1>2. Grows(BuiltIns[l], more, Entry)
  BY <1>1, BuiltInsTyped, GrowsFurther DEF Sources
<1>3. ASSUME NEW i \in DOMAIN more \ DOMAIN BuiltIns[l]
      PROVE  more[i] \in Mentioned \/ \E t \in Mentioned : more[i] \in StubsOf(t)
  <2>1. CASE i \in DOMAIN types
    BY <2>1 DEF Sources, Grows
  <2>2. CASE i \notin DOMAIN types
    BY <2>2 DEF Grows
  <2> QED BY <2>1, <2>2
<1> QED BY <1>2, <1>3 DEF Sources, Grows

\* What a name space finds is built in, declared, or generated.
LEMMA WhatIsFound ==
  ASSUME NEW l \in Langs, NEW types, Sources(l, types), NEW name, Found(types, name)
  PROVE  LET t == FindTypeByCanonicalName(types, name)
         IN  /\ t \in Entry /\ (t.name = name \/ IsShortFor(name, t))
             /\ \/ Found(BuiltIns[l], name)
                \/ t \in Mentioned /\ \E i \in DOMAIN types : t = types[i]
                \/ \E u \in Mentioned : t \in StubsOf(u)
<1> DEFINE t == FindTypeByCanonicalName(types, name)
<1>1. types \in Seq(Entry)
  BY DEF Sources
<1>2. \E i \in DOMAIN types : types[i].name = name \/ IsShortFor(name, types[i])
  BY <1>1, FoundIff DEF Found
<1>3. PICK i \in DOMAIN types : t = types[i] /\ (t.name = name \/ IsShortFor(name, t))
  BY <1>1, <1>2, TypeFound
<1> HIDE DEF t
<1>4. CASE i \in DOMAIN BuiltIns[l]
  <2>1. BuiltIns[l][i] = t
    BY <1>3, <1>4 DEF Sources, Grows
  <2>2. Found(BuiltIns[l], name)
    BY <1>3, <1>4, <2>1, BuiltInsTyped, FoundIff DEF Found
  <2> QED BY <1>1, <1>3, <2>2 DEF t
<1>5. CASE i \notin DOMAIN BuiltIns[l]
  BY <1>1, <1>3, <1>5 DEF Sources, t
<1> QED BY <1>4, <1>5

\* Of the names that matter, a name space knows those that are built in or declared.
LEMMA FoundInSpace ==
  ASSUME world \in Worlds, Portable, NEW l \in Langs, NEW types, Sources(l, types),
         NEW name \in Written \cup CanonicalNames(Mentioned)
  PROVE  Found(types, name) <=> Found(BuiltIns[l], name) \/ Knows(Declared(types), name)
<1>1. Mentioned \subseteq Type /\ types \in Seq(Entry)
  BY MentionedTyped DEF Sources
<1>2. ASSUME Found(types, name)
      PROVE  Found(BuiltIns[l], name) \/ Knows(Declared(types), name)
  <2> DEFINE t == FindTypeByCanonicalName(types, name)
  <2>1. /\ t.name = name \/ IsShortFor(name, t)
        /\ \/ Found(BuiltIns[l], name)
           \/ t \in Mentioned /\ \E i \in DOMAIN types : t = types[i]
           \/ \E u \in Mentioned : t \in StubsOf(u)
    BY <1>2, WhatIsFound
  <2> HIDE DEF t
  <2>2. CASE t \in Mentioned /\ \E i \in DOMAIN types : t = types[i]
    BY <1>1, <2>1, <2>2 DEF Declared, Knows
  <2>3. CASE \E u \in Mentioned : t \in StubsOf(u)
    <3>1. {t.name, t.short} \cap (Written \cup CanonicalNames(Mentioned)) = {}
      BY <2>3 DEF StubsOf, Portable
    <3> QED BY <2>1, <3>1 DEF IsShortFor
  <2> QED BY <2>1, <2>2, <2>3
<1>3. ASSUME Found(BuiltIns[l], name) PROVE Found(types, name)
  BY <1>3, BuiltInsTyped, FoundIsKept DEF Sources
<1>4. ASSUME Knows(Declared(types), name) PROVE Found(types, name)
  BY <1>1, <1>4, FoundIff DEF Declared, Knows, Found
<1> QED BY <1>2, <1>3, <1>4

\* A declared type is added to those that are known.
AddTo(known, t) == IF Knows(known, t.name) THEN known ELSE known \cup {t}
LEMMA AddsDeclared ==
  ASSUME world \in Worlds, Portable, NEW l \in Langs, NEW types, Sources(l, types),
         NEW t \in Mentioned
  PROVE  /\ Sources(l, AddType(l, types, t)) /\ Added(l, types, t)
         /\ Declared(AddType(l, types, t)) = AddTo(Declared(types), t)
<1> DEFINE more == AddType(l, types, t)
<1>1. /\ t \in Type /\ t \in Entry /\ Addable(l, t) /\ Mentioned \subseteq Type
      /\ types \in Seq(Entry) /\ NoNameTwice(types)
      /\ ~Found(BuiltIns[l], t.name) /\ t.name \in CanonicalNames(Mentioned)
  BY MentionedTyped, KindsDiffer
     DEF Portable, Addable, Langs, Sources, Found, CanonicalNames
<1>2. /\ more \in Seq(Entry) /\ Grows(types, more, ClassesOf(t)) /\ NoNameTwice(more)
      /\ Grows(Add(types, t), more, StubsOf(t))
  BY <1>1, AddTypeGrows
<1> HIDE DEF more
<1>3. \A u \in ClassesOf(t) : /\ u \in Entry /\ (u \in Type => u = t)
                              /\ u \in Mentioned \/ u \in StubsOf(t)
  BY <1>1, StubsTyped, KindsDiffer DEF ClassesOf
<1>4. Sources(l, more)
  BY <1>2, <1>3, SourcesGrow
<1>5. Found(types, t.name) <=> Knows(Declared(types), t.name)
  BY <1>1, FoundInSpace
<1>6. Declared(types) \subseteq Declared(more)
  BY <1>2 DEF Declared, Grows
<1>7. ASSUME NEW u \in Declared(more), u \notin Declared(types)
      PROVE  u = t /\ ~Found(types, t.name)
  <2>1. PICK i \in DOMAIN more : u = more[i] /\ u \in Type
    BY DEF Declared
  <2>2. i \notin DOMAIN types
    BY <1>2, <1>7, <2>1 DEF Declared, Grows
  <2> QED BY <1>2, <1>3, <2>1, <2>2 DEF Grows
<1>8. ~Found(types, t.name) => t \in Declared(more)
  <2>1. ~Found(types, t.name) => \E q \in DOMAIN Add(types, t) : Add(types, t)[q] = t
    BY <1>1, AddGrows
  <2> QED BY <1>1, <1>2, <2>1 DEF Declared, Grows
<1>9. Declared(more) = AddTo(Declared(types), t)
  BY <1>5, <1>6, <1>7, <1>8 DEF AddTo
<1>10. Accepts(types, t)
  <2> DEFINE existing == FindTypeByCanonicalName(types, t.name)
  <2> SUFFICES ASSUME Found(types, t.name)
               PROVE  KindOf(existing) # "built_in" /\ KindOf(existing) = KindOf(t)
    BY DEF Accepts, Found
  <2>1. /\ existing.name = t.name \/ IsShortFor(t.name, existing)
        /\ existing \in Mentioned \/ \E u \in Mentioned : existing \in StubsOf(u)
    BY <1>1, WhatIsFound
  <2> HIDE DEF existing
  <2>2. ASSUME NEW u \in Mentioned, existing \in StubsOf(u) PROVE FALSE
    <3>1. {existing.name, existing.short} \cap CanonicalNames(Mentioned) = {}
      BY <2>2 DEF StubsOf, Portable
    <3> QED BY <1>1, <2>1, <3>1 DEF IsShortFor
  <2>3. KindOf(existing) = KindOf(t)
    BY <2>1, <2>2 DEF Portable
  <2> QED BY <1>1, <2>3, KindsDiffer
<1>11. ASSUME l = "JAVA", t.kind = "interface", NEW k \in 1 .. 3
       PROVE  Accepts(AddJavaInterface(types, t)[k], Stubs[t.name][k])
  <2> DEFINE after == AddJavaInterface(types, t)[k]
             g == Stubs[t.name][k]
             existing == FindTypeByCanonicalName(after, g.name)
  <2>1. k \in 1 .. 4
    OBVIOUS
  <2>2. Grows(types, after, ClassesOf(t)) /\ NoNameTwice(after)
    BY <1>1, <1>11, <2>1, JavaInterfaceGrows
  <2>3. Sources(l, after)
    BY <1>3, <2>2, SourcesGrow
  <2>4. /\ g.name \notin CanonicalNames(Mentioned)
        /\ \A u \in Mentioned : ~IsShortFor(g.name, u)
        /\ ~Found(BuiltIns["JAVA"], g.name)
    BY <1>11 DEF Portable, Found
  <2>5. KindOf(g) = "generated"
    BY <1>1, <1>11, StubsTyped, KindsDiffer
  <2> HIDE DEF after, g
  <2> SUFFICES ASSUME Found(after, g.name)
               PROVE  KindOf(existing) # "built_in" /\ KindOf(existing) = KindOf(g)
    BY DEF Accepts, Found, after, g
  <2>6. /\ existing.name = g.name \/ IsShortFor(g.name, existing)
        /\ existing \in Mentioned \/ \E u \in Mentioned : existing \in StubsOf(u)
    BY <1>11, <2>3, <2>4, WhatIsFound
  <2> HIDE DEF existing
  <2>7. PICK u \in Mentioned : existing \in StubsOf(u)
    BY <2>4, <2>6 DEF CanonicalNames
  <2>8. KindOf(existing) = "generated"
    BY <1>1, <2>7, StubsTyped, KindsDiffer
  <2> QED BY <2>5, <2>8
<1> QED BY <1>1, <1>4, <1>9, <1>10, <1>11 DEF more, Added

\* AddDefinedTypes, as far as declared types go.
AddsUp(known, doc, all) ==
  \E g : /\ g[0] = known /\ g[Len(doc)] = all
         /\ \A k \in 1 .. Len(doc) : g[k] = AddTo(g[k - 1], doc[k])
AddsTo(known, doc) == CHOOSE all : AddsUp(known, doc, all)

LEMMA AddsUpOnce ==
  ASSUME NEW known, NEW doc \in Seq(Type), NEW all, AddsUp(known, doc, all)
  PROVE  AddsTo(known, doc) = all
<1> SUFFICES ASSUME NEW other, AddsUp(known, doc, other) PROVE other = all
  BY DEF AddsTo
<1>1. PICK f : /\ f[0] = known /\ f[Len(doc)] = all
               /\ \A k \in 1 .. Len(doc) : f[k] = AddTo(f[k - 1], doc[k])
  BY DEF AddsUp
<1>2. PICK g : /\ g[0] = known /\ g[Len(doc)] = other
               /\ \A k \in 1 .. Len(doc) : g[k] = AddTo(g[k - 1], doc[k])
  BY DEF AddsUp
<1> DEFINE S == {k \in Nat : k <= Len(doc) => f[k] = g[k]}
<1>3. Len(doc) \in Nat
  OBVIOUS
<1>4. 0 \in S
  BY <1>1, <1>2
<1>5. ASSUME NEW k \in Nat, k \in S PROVE k + 1 \in S
  <2>1. SUFFICES ASSUME k + 1 <= Len(doc) PROVE f[k + 1] = g[k + 1]
    OBVIOUS
  <2>2. k + 1 \in 1 .. Len(doc) /\ (k + 1) - 1 = k /\ f[k] = g[k]
    BY <1>3, <1>5, <2>1
  <2> QED BY <1>1, <1>2, <2>2
<1> HIDE DEF S
<1>6. Len(doc) \in S
  BY <1>3, <1>4, <1>5, EveryNumber
<1> QED BY <1>1, <1>2, <1>3, <1>6 DEF S

LEMMA LoadedDocument ==
  ASSUME world \in Worlds, lang \in Langs, Portable, NEW types, Sources(lang, types),
         NEW doc \in Seq(Type), ToSet(doc) \subseteq Mentioned
  PROVE  /\ AllAdded(types, doc) /\ Sources(lang, AddAll(types, doc))
         /\ Declared(AddAll(types, doc)) = AddsTo(Declared(types), doc)
<1> DEFINE f == AfterEach(types, doc)
           n == Len(doc)
           S == {k \in Nat : k <= n => Sources(lang, f[k])}
           g == [k \in 0 .. n |-> Declared(f[k])]
<1>1. n \in Nat /\ DOMAIN doc = 1 .. n /\ \A k \in 1 .. n : doc[k] \in Mentioned
  BY DEF ToSet
<1>2. /\ f[0] = types /\ f[n] = AddAll(types, doc)
      /\ \A k \in 1 .. n : f[k] = AddType(lang, f[k - 1], doc[k])
  BY AfterEachStep DEF AddAll
<1>3. AllAdded(types, doc) <=> \A i \in 1 .. n : Added(lang, f[i - 1], doc[i])
  BY <1>1 DEF AllAdded
<1> HIDE DEF f, n
<1>4. 0 \in S
  BY <1>2
<1>5. ASSUME NEW k \in Nat, k \in S PROVE k + 1 \in S
  <2>1. SUFFICES ASSUME k + 1 <= n PROVE Sources(lang, f[k + 1])
    OBVIOUS
  <2>2. k + 1 \in 1 .. n /\ (k + 1) - 1 = k /\ Sources(lang, f[k])
    BY <1>1, <1>5, <2>1
  <2> QED BY <1>1, <1>2, <2>2, AddsDeclared
<1>6. \A k \in Nat : k \in S
  <2> HIDE DEF S
  <2> QED BY <1>4, <1>5, EveryNumber
<1>7. \A k \in 0 .. n : Sources(lang, f[k]) /\ g[k] = Declared(f[k])
  BY <1>1, <1>6
<1> HIDE DEF S, g
<1>8. ASSUME NEW k \in 1 .. n
      PROVE  Added(lang, f[k - 1], doc[k]) /\ g[k] = AddTo(g[k - 1], doc[k])
  <2>1. k \in 0 .. n /\ k - 1 \in 0 .. n
    BY <1>1
  <2> QED BY <1>1, <1>2, <1>7, <2>1, AddsDeclared
<1>9. 0 \in 0 .. n /\ n \in 0 .. n
  BY <1>1
<1>10. AddsUp(Declared(types), doc, Declared(f[n]))
  BY <1>2, <1>7, <1>8, <1>9 DEF AddsUp, n
<1> QED BY <1>2, <1>3, <1>7, <1>8, <1>9, <1>10, AddsUpOnce

-----------------------------------------------------------------------------
\* What a run for one backend knows, whichever it is; what is left of an earlier
\* run is not part of it.
Snapshot(s, d, p, types, q, left, e) ==
  [step |-> s, defined |-> d, preprocessed |-> p, space |-> types,
   queue |-> q, candidates |-> left, err |-> e]
Now ==
  Snapshot(step, defined, preprocessed, Declared(space),
           IF step = "parse" THEN <<>> ELSE queue,
           IF step \in {"parse", "preprocessed"} THEN {} ELSE candidates, err)
Fresh == Snapshot("parse", {}, {}, {}, <<>>, {}, "OK")

\* The steps of a run as a function of what it knows, for any backend.
ParsesIn(table, doc) ==
  /\ \A i, j \in DOMAIN doc : doc[i].name = doc[j].name => i = j
  /\ \A i \in DOMAIN doc : doc[i].name \notin CanonicalNames(table) \cup Invalid
DefinedIn(table, doc) == table \cup
  {doc[i] : i \in {j \in DOMAIN doc :
                    /\ doc[j].name \notin CanonicalNames(table) \cup Invalid
                    /\ \A k \in 1 .. j - 1 : doc[k].name # doc[j].name}}
FilesOf(w, name) ==
  LET below == {f \in w.files : f.path = name}
      inputs == {i \in DOMAIN w.inputs : name \in w.inputs[i].paths}
  IN  CASE Cardinality(below) = 1 -> {f.types : f \in below}
        [] below = {} /\ inputs # {} ->
             {w.inputs[CHOOSE i \in inputs : \A j \in inputs : i <= j].types}
        [] OTHER -> {}
DefinedTypeIn(table, lines, name) ==
  LET exact(types) == {t \in types : t.name = name}
      short(types) == {t \in types : IsShortFor(name, t)}
      choices == << exact(table), exact(lines), short(table), short(lines) >>
      found == {i \in 1 .. 4 : choices[i] # {}}
  IN  IF found = {} THEN NoType
      ELSE FirstOf(choices[CHOOSE i \in found : \A j \in found : i <= j])
ResolvedIn(table, lines, name) ==
  IF IsBuiltinTypename(name)
  THEN [name |-> AidlName[name], short |-> AidlName[name],
        kind |-> "built_in", header |-> FALSE]
  ELSE DefinedTypeIn(table, lines, name)
\* Of the names that matter, every backend finds the same ones.
FoundBy(known, name) == Found(BuiltIns["JAVA"], name) \/ Knows(known, name)

LEMMA SameOperators ==
  /\ \A doc : Parses(doc) <=> ParsesIn(defined, doc)
  /\ \A doc : Defined(doc) = DefinedIn(defined, doc)
  /\ \A name : FindImportFile(name) = FilesOf(world, name)
  /\ \A name : ResolveTypename(name) = ResolvedIn(defined, preprocessed, name)
<1>1. \A doc : Parses(doc) <=> ParsesIn(defined, doc)
  BY DEF Parses, ParsesIn
<1>2. \A doc : Defined(doc) = DefinedIn(defined, doc)
  BY DEF Defined, DefinedIn
<1>3. \A name : FindImportFile(name) = FilesOf(world, name)
  BY Zenon DEF FindImportFile, FilesOf
<1>4. \A name : TryGetDefinedType(name) = DefinedTypeIn(defined, preprocessed, name)
  BY Zenon DEF TryGetDefinedType, DefinedTypeIn
<1>5. \A name : ResolveTypename(name) = ResolvedIn(defined, preprocessed, name)
  BY <1>4 DEF ResolveTypename, ResolvedIn
<1> QED BY <1>1, <1>2, <1>3, <1>5

\* What follows when a document is loaded; rest are the candidates left.
Loaded(s, q, rest, doc) ==
  IF ParsesIn(s.defined, doc)
  THEN Snapshot(s.step, DefinedIn(s.defined, doc), s.preprocessed,
                AddsTo(s.space, doc), q, rest, s.err)
  ELSE Snapshot(s.step, DefinedIn(s.defined, doc), s.preprocessed, s.space,
                q, rest, "BAD_IMPORT")

AfterMain(w, s) ==
  Snapshot("preprocessed", DefinedIn(s.defined, w.types), s.preprocessed,
           AddsTo(s.space, w.types), w.preprocessed, {}, s.err)
AfterLine(s) ==
  LET t == Head(s.queue)
  IN  IF Skipped(t)
      THEN Snapshot("preprocessed", s.defined, s.preprocessed, s.space,
                    Tail(s.queue), {}, s.err)
      ELSE Snapshot("preprocessed", s.defined,
                    IF t.name \in CanonicalNames(s.preprocessed) \cup Invalid
                    THEN s.preprocessed ELSE s.preprocessed \cup {t},
                    AddTo(s.space, t), Tail(s.queue), {}, s.err)
AfterLines(w, s) ==
  Snapshot("import", s.defined, s.preprocessed, s.space, s.queue,
           (w.imports \cup ToSet(w.specs)) \ DOMAIN AidlName, s.err)
Least(some) == CHOOSE name \in some : \A other \in some : name <= other
AfterImport(w, s) ==
  LET name == Least(s.candidates)
      rest == s.candidates \ {name}
  IN  IF FoundBy(s.space, name)
      THEN Snapshot(s.step, s.defined, s.preprocessed, s.space, s.queue, rest, s.err)
      ELSE IF FilesOf(w, name) = {}
      THEN Snapshot(s.step, s.defined, s.preprocessed, s.space, s.queue, rest,
                    IF name \in w.imports THEN "BAD_IMPORT" ELSE s.err)
      ELSE Loaded(s, s.queue, rest, CHOOSE doc \in FilesOf(w, name) : TRUE)
AfterImports(w, s) ==
  Snapshot("file", s.defined, s.preprocessed, s.space, w.m, s.candidates, s.err)
AfterFile(s) == Loaded(s, Tail(s.queue), s.candidates, Head(s.queue))
AfterFiles(s) ==
  Snapshot("resolve", s.defined, s.preprocessed, s.space, s.queue, s.candidates, s.err)

After(w, s) ==
  CASE s.step = "parse" -> AfterMain(w, s)
    [] s.step = "preprocessed" ->
         IF s.queue # <<>> THEN AfterLine(s) ELSE AfterLines(w, s)
    [] s.step = "import" ->
         IF s.candidates # {} THEN AfterImport(w, s) ELSE AfterImports(w, s)
    [] s.step = "file" -> IF s.queue # <<>> THEN AfterFile(s) ELSE AfterFiles(s)

\* Where a run ends, and what it reports.
Ends(w, s) ==
  \/ s.step = "parse" /\ ~ParsesIn(s.defined, w.types)
  \/ s.step = "preprocessed" /\ s.queue # <<>> /\ Head(s.queue) = Malformed
  \/ s.step = "import" /\ s.candidates = {} /\ s.err # "OK"
  \/ s.step = "file" /\ s.queue = <<>> /\ s.err # "OK"
  \/ s.step = "resolve"
Verdict(error, resolved) == <<error, resolved>>
Outcome(w, s) ==
  LET resolved == [i \in DOMAIN w.specs |-> ResolvedIn(s.defined, s.preprocessed, w.specs[i])]
  IN  CASE s.step = "parse" -> Verdict("PARSE_ERROR", <<>>)
        [] s.step = "preprocessed" -> Verdict("BAD_PRE_PROCESSED_FILE", <<>>)
        [] s.step \in {"import", "file"} -> Verdict(s.err, <<>>)
        [] s.step = "resolve" ->
             IF \A i \in DOMAIN w.specs :
                  resolved[i] # NoType /\ FoundBy(s.space, resolved[i].name)
             THEN Verdict("OK", resolved) ELSE Verdict("BAD_TYPE", <<>>)

\* What a name space knows comes from the documents, and so do the candidates.
SourcesInv ==
  /\ Sources(lang, space)
  /\ preprocessed \subseteq Mentioned
  /\ step = "import" => candidates \subseteq Written

\* A step of a run goes on as the snapshot says, or ends where it says.
Goes == /\ ~Ends(world, Now) /\ Now' = After(world, Now)
        /\ step' # "done" /\ UNCHANGED <<lang, result>>
Stops ==
  /\ Ends(world, Now)
  /\ \E error, resolved, linked :
       Return(error, resolved, linked) /\ Verdict(error, resolved) = Outcome(world, Now)
Predicted == UNCHANGED world /\ SourcesInv' /\ (Goes \/ Stops)

LEMMA MentionedStays ==
  ASSUME UNCHANGED world
  PROVE  /\ Mentioned' = Mentioned /\ Written' = Written
         /\ Portable' <=> Portable
         /\ Sources(lang, space)' <=> Sources(lang', space')
<1>1. Mentioned' = Mentioned
  BY DEF Mentioned, Skipped, IsBuiltinTypename
<1>2. Written' = Written
  BY DEF Written, IsBuiltinTypename
<1>3. Portable' <=> Portable
  BY <1>1, <1>2 DEF Portable
<1>4. Sources(lang, space)' <=> Sources(lang', space')
  BY <1>1 DEF Sources, NoNameTwice, Grows, Found, StubsOf
<1> QED BY <1>1, <1>2, <1>3, <1>4

\* A step that leaves the tables alone.
LEMMA SourcesStay ==
  ASSUME SourcesInv, UNCHANGED <<world, lang, preprocessed, space>>,
         step' = "import" => step = "import" /\ candidates' \subseteq candidates
  PROVE  SourcesInv'
<1>1. Sources(lang', space')
  BY DEF SourcesInv
<1> QED BY <1>1, MentionedStays DEF SourcesInv

\* The name space has what FoundBy says.
LEMMA FoundInNow ==
  ASSUME world \in Worlds, lang \in Langs, Portable, Sources(lang, space),
         NEW name \in Written \cup CanonicalNames(Mentioned)
  PROVE  Found(space, name) <=> FoundBy(Declared(space), name)
<1>1. \A l \in Langs : Found(BuiltIns[l], name)
                       <=> FindTypeByCanonicalName(BuiltIns[l], name).kind # "none"
  <2> SUFFICES ASSUME NEW l \in Langs, Found(BuiltIns[l], name)
               PROVE  FindTypeByCanonicalName(BuiltIns[l], name).kind # "none"
    BY DEF Found, NoType
  <2>1. PICK i \in DOMAIN BuiltIns[l] :
          FindTypeByCanonicalName(BuiltIns[l], name) = BuiltIns[l][i]
    BY BuiltInsTyped, FoundIff, TypeFound DEF Found
  <2>2. BuiltIns[l][i] \in BuiltIn
    BY BuiltInsTyped
  <2> QED BY <2>1, <2>2 DEF BuiltIn, Classes
<1>2. "CPP" \in Langs /\ "JAVA" \in Langs /\ (lang = "CPP" \/ lang = "JAVA")
  BY DEF Langs
<1>3. CASE name \in Written
  <2>1. Found(BuiltIns["CPP"], name) <=> Found(BuiltIns["JAVA"], name)
    BY <1>1, <1>2, <1>3 DEF Portable
  <2> QED BY <1>2, <2>1, FoundInSpace DEF FoundBy
<1>4. CASE name \in CanonicalNames(Mentioned)
  <2>1. \A l \in Langs : ~Found(BuiltIns[l], name)
    BY <1>4 DEF Portable, Found, CanonicalNames
  <2> QED BY <1>2, <2>1, FoundInSpace DEF FoundBy
<1> QED BY <1>3, <1>4

\* A run ends.
LEMMA EndsPredicted ==
  ASSUME IInv, SourcesInv, UNCHANGED world, Ends(world, Now), step # "done",
         NEW error, NEW resolved, NEW linked, Return(error, resolved, linked),
         Verdict(error, resolved) = Outcome(world, Now)
  PROVE  Predicted
<1>1. CASE lang = "CPP"
  <2>1. /\ space' = BuiltIns["JAVA"] /\ step' = "parse" /\ preprocessed' = {}
        /\ lang' = "JAVA"
    BY <1>1 DEF Return, Start
  <2>2. Sources(lang', space')
    BY <2>1, BuiltInSources DEF Langs
  <2>3. SourcesInv'
    BY <2>1, <2>2, MentionedStays DEF SourcesInv
  <2> QED BY <2>3 DEF Predicted, Stops
<1>2. CASE lang # "CPP"
  <2>1. UNCHANGED <<lang, preprocessed, space>> /\ step' = "done"
    BY <1>2 DEF Return, names
  <2>2. SourcesInv'
    BY <2>1, SourcesStay
  <2> QED BY <2>2 DEF Predicted, Stops
<1> QED BY <1>1, <1>2

LEMMA ParseMainPredicted ==
  ASSUME IInv, SourcesInv, Portable, ParseMain
  PROVE  Predicted
<1>1. /\ step = "parse" /\ world' = world /\ queue' = world.preprocessed
      /\ world \in Worlds /\ lang \in Langs /\ Sources(lang, space)
      /\ preprocessed \subseteq Mentioned
  BY DEF IInv, TypeOK, StepInv, ParseMain, SourcesInv
<1>2. Now = Snapshot("parse", defined, preprocessed, Declared(space), <<>>, {}, err)
  BY <1>1 DEF Now
<1>3. /\ Now.step = "parse" /\ Now.defined = defined /\ Now.preprocessed = preprocessed
      /\ Now.err = err /\ Now.space = Declared(space)
  BY <1>2 DEF Snapshot
<1> HIDE DEF Now
<1>4. /\ world.types \in Seq(Type) /\ ToSet(world.types) \subseteq Mentioned
  BY <1>1, WorldTyped DEF Mentioned
<1>5. /\ AllAdded(space, world.types) /\ Sources(lang, AddAll(space, world.types))
      /\ Declared(AddAll(space, world.types)) = AddsTo(Declared(space), world.types)
  BY <1>1, <1>4, LoadedDocument
<1>6. CASE ~Parses(world.types) /\ Fail("PARSE_ERROR")
  <2>1. Ends(world, Now)
    BY <1>3, <1>6, SameOperators DEF Ends
  <2>2. Outcome(world, Now) = Verdict("PARSE_ERROR", <<>>)
    BY <1>3 DEF Outcome
  <2> QED BY <1>1, <1>6, <2>1, <2>2, EndsPredicted DEF Fail
<1>7. CASE /\ Parses(world.types) /\ defined' = Defined(world.types)
           /\ space' = AddAll(space, world.types)
           /\ UNCHANGED preprocessed /\ Goto("preprocessed")
  <2>1. step' = "preprocessed" /\ UNCHANGED <<lang, err, result>>
    BY <1>7 DEF Goto
  <2>2. ~Ends(world, Now)
    BY <1>3, <1>7, SameOperators DEF Ends
  <2>3. defined' = DefinedIn(defined, world.types)
    BY <1>7, SameOperators
  <2>4. Now' = AfterMain(world, Now)
    BY <1>1, <1>3, <1>5, <1>7, <2>1, <2>3 DEF Now, AfterMain
  <2>5. After(world, Now) = AfterMain(world, Now)
    BY <1>3 DEF After
  <2>6. SourcesInv'
    BY <1>1, <1>5, <1>7, <2>1, MentionedStays DEF SourcesInv
  <2> QED BY <1>1, <2>1, <2>2, <2>4, <2>5, <2>6 DEF Predicted, Goes
<1> QED BY <1>5, <1>6, <1>7 DEF ParseMain

LEMMA PreprocessedLinePredicted ==
  ASSUME IInv, SourcesInv, Portable, PreprocessedLine
  PROVE  Predicted
<1>1. /\ step = "preprocessed" /\ queue # <<>> /\ lang \in Langs /\ world' = world
      /\ UNCHANGED candidates /\ queue' = Tail(queue) /\ world \in Worlds
      /\ queue \in Seq(Line) /\ Sources(lang, space)
      /\ ToSet(queue) \subseteq ToSet(world.preprocessed)
  BY DEF IInv, TypeOK, StepInv, PreprocessedLine, SourcesInv
<1>2. /\ Now.step = "preprocessed" /\ Now.defined = defined /\ Now.space = Declared(space)
      /\ Now.preprocessed = preprocessed /\ Now.queue = queue /\ Now.err = err
      /\ Now.candidates = {}
  BY <1>1 DEF Now, Snapshot
<1> DEFINE t == Head(queue)
<1>3. t \in ToSet(world.preprocessed)
  BY <1>1, RestOfQueue
<1>4. CASE t = Malformed /\ Fail("BAD_PRE_PROCESSED_FILE")
  <2>1. Ends(world, Now)
    BY <1>1, <1>2, <1>4 DEF Ends
  <2>2. Outcome(world, Now) = Verdict("BAD_PRE_PROCESSED_FILE", <<>>)
    BY <1>2 DEF Outcome
  <2> QED BY <1>1, <1>4, <2>1, <2>2, EndsPredicted DEF Fail
<1>5. ASSUME t # Malformed PROVE ~Ends(world, Now) /\ After(world, Now) = AfterLine(Now)
  BY <1>1, <1>2, <1>5 DEF Ends, After
<1>6. CASE t # Malformed /\ Skipped(t) /\ UNCHANGED <<lang, step, names, err, result>>
  <2>1. UNCHANGED <<lang, step, defined, preprocessed, space, err, result>>
    BY <1>6 DEF names
  <2>2. Now' = AfterLine(Now)
    BY <1>1, <1>2, <1>6, <2>1 DEF Now, AfterLine
  <2>3. SourcesInv'
    BY <1>1, <2>1, SourcesStay
  <2> QED BY <1>1, <1>5, <1>6, <2>1, <2>2, <2>3 DEF Predicted, Goes
<1>7. CASE /\ t # Malformed /\ ~Skipped(t)
           /\ space' = AddType(lang, space, t)
           /\ preprocessed' = IF t.name \in CanonicalNames(preprocessed) \cup Invalid
                              THEN preprocessed ELSE preprocessed \cup {t}
           /\ UNCHANGED <<lang, step, defined, err, result>>
  <2>1. t \in Mentioned
    BY <1>3, <1>7 DEF Mentioned
  <2>2. Sources(lang, space') /\ Declared(space') = AddTo(Declared(space), t)
    BY <1>1, <1>7, <2>1, AddsDeclared
  <2>3. Now' = AfterLine(Now)
    BY <1>1, <1>2, <1>7, <2>2 DEF Now, AfterLine
  <2>4. SourcesInv'
    BY <1>1, <1>7, <2>1, <2>2, MentionedStays DEF SourcesInv
  <2> QED BY <1>1, <1>5, <1>7, <2>3, <2>4 DEF Predicted, Goes
<1> QED BY <1>4, <1>6, <1>7 DEF PreprocessedLine

LEMMA CandidatesPredicted ==
  ASSUME IInv, SourcesInv, Candidates
  PROVE  Predicted
<1>1. /\ step = "preprocessed" /\ queue = <<>> /\ world' = world /\ step' = "import"
      /\ UNCHANGED <<lang, defined, preprocessed, space, queue, err, result>>
      /\ candidates' = (world.imports \cup ToSet(world.specs)) \ DOMAIN AidlName
  BY DEF Candidates, Goto, names
<1>2. /\ Now.step = "preprocessed" /\ Now.defined = defined /\ Now.space = Declared(space)
      /\ Now.preprocessed = preprocessed /\ Now.queue = queue /\ Now.err = err
  BY <1>1 DEF Now, Snapshot
<1>3. ~Ends(world, Now)
  BY <1>1, <1>2 DEF Ends
<1>4. After(world, Now) = AfterLines(world, Now)
  BY <1>1, <1>2 DEF After
<1>5. Now' = AfterLines(world, Now)
  BY <1>1, <1>2 DEF Now, AfterLines
<1>6. SourcesInv'
  <2>1. candidates' \subseteq Written
    BY <1>1 DEF Written, IsBuiltinTypename
  <2>2. Sources(lang', space') /\ preprocessed' \subseteq Mentioned
    BY <1>1 DEF SourcesInv
  <2> QED BY <1>1, <2>1, <2>2, MentionedStays DEF SourcesInv
<1> QED BY <1>1, <1>3, <1>4, <1>5, <1>6 DEF Predicted, Goes

LEMMA ImportedPredicted ==
  ASSUME IInv, SourcesInv, Imported
  PROVE  Predicted
<1>1. step = "import" /\ candidates = {} /\ world' = world /\ queue' = world.m /\ candidates' = candidates
  BY DEF Imported
<1>2. /\ Now.step = "import" /\ Now.defined = defined /\ Now.space = Declared(space)
      /\ Now.preprocessed = preprocessed /\ Now.queue = queue /\ Now.err = err
      /\ Now.candidates = candidates
  BY <1>1 DEF Now, Snapshot
<1>3. CASE err # "OK" /\ Fail(err)
  <2>1. Ends(world, Now)
    BY <1>1, <1>2, <1>3 DEF Ends
  <2>2. Outcome(world, Now) = Verdict(err, <<>>)
    BY <1>2 DEF Outcome
  <2> QED BY <1>1, <1>3, <2>1, <2>2, EndsPredicted DEF Fail
<1>4. CASE err = "OK" /\ Goto("file") /\ UNCHANGED names
  <2>1. /\ step' = "file"
        /\ UNCHANGED <<lang, defined, preprocessed, space, err, result>>
    BY <1>4 DEF Goto, names
  <2>2. ~Ends(world, Now)
    BY <1>2, <1>4 DEF Ends
  <2>3. After(world, Now) = AfterImports(world, Now)
    BY <1>1, <1>2 DEF After
  <2>4. Now' = AfterImports(world, Now)
    BY <1>1, <1>2, <2>1 DEF Now, AfterImports
  <2>5. SourcesInv'
    BY <1>1, <2>1, SourcesStay
  <2> QED BY <1>1, <2>1, <2>2, <2>3, <2>4, <2>5 DEF Predicted, Goes
<1> QED BY <1>3, <1>4 DEF Imported

LEMMA FilesImportedPredicted ==
  ASSUME IInv, SourcesInv, FilesImported
  PROVE  Predicted
<1>1. step = "file" /\ queue = <<>> /\ world' = world /\ UNCHANGED <<queue, candidates>>
  BY DEF FilesImported
<1>2. /\ Now.step = "file" /\ Now.defined = defined /\ Now.space = Declared(space)
      /\ Now.preprocessed = preprocessed /\ Now.queue = queue /\ Now.err = err
      /\ Now.candidates = candidates
  BY <1>1 DEF Now, Snapshot
<1>3. CASE err # "OK" /\ Fail(err)
  <2>1. Ends(world, Now)
    BY <1>1, <1>2, <1>3 DEF Ends
  <2>2. Outcome(world, Now) = Verdict(err, <<>>)
    BY <1>2 DEF Outcome
  <2> QED BY <1>1, <1>3, <2>1, <2>2, EndsPredicted DEF Fail
<1>4. CASE err = "OK" /\ Goto("resolve") /\ UNCHANGED names
  <2>1. /\ step' = "resolve"
        /\ UNCHANGED <<lang, defined, preprocessed, space, err, result>>
    BY <1>4 DEF Goto, names
  <2>2. ~Ends(world, Now)
    BY <1>2, <1>4 DEF Ends
  <2>3. After(world, Now) = AfterFiles(Now)
    BY <1>1, <1>2 DEF After
  <2>4. Now' = AfterFiles(Now)
    BY <1>1, <1>2, <2>1 DEF Now, AfterFiles
  <2>5. SourcesInv'
    BY <1>1, <2>1, SourcesStay
  <2> QED BY <1>1, <2>1, <2>2, <2>3, <2>4, <2>5 DEF Predicted, Goes
<1> QED BY <1>3, <1>4 DEF FilesImported

\* What a name means is kept when types are added, or it means one of those.
LEMMA KeptOrNew ==
  ASSUME NEW types \in Seq(Entry), NEW more, NoNameTwice(more), NEW new,
         Grows(types, more, new), NEW name, Found(types, name)
  PROVE  \/ FindTypeByCanonicalName(more, name) = FindTypeByCanonicalName(types, name)
         \/ \E i \in DOMAIN more \ DOMAIN types :
              /\ FindTypeByCanonicalName(more, name) = more[i]
              /\ more[i].name = name \/ IsShortFor(name, more[i])
<1> DEFINE exact(some) == {i \in DOMAIN some : some[i].name = name}
           short(some) == {i \in DOMAIN some : IsShortFor(name, some[i])}
           Latest(S) == CHOOSE i \in S : \A j \in S : j <= i
<1>1. /\ more \in Seq(Entry) /\ DOMAIN types \subseteq DOMAIN more
      /\ \A i \in DOMAIN types : more[i] = types[i]
  BY DEF Grows
<1>2. exact(types) \subseteq exact(more) /\ short(types) \subseteq short(more)
      /\ \A i \in exact(more) \cup short(more) : i \in DOMAIN types =>
           i \in exact(types) \cup short(types)
  BY <1>1
<1>3. \A i, j \in exact(more) : i = j
  BY DEF NoNameTwice
<1>4. /\ exact(more) # {} =>
           FindTypeByCanonicalName(more, name) = more[CHOOSE i \in exact(more) : TRUE]
      /\ exact(types) # {} =>
           FindTypeByCanonicalName(types, name) = types[CHOOSE i \in exact(types) : TRUE]
      /\ exact(more) = {} /\ short(more) # {} =>
           FindTypeByCanonicalName(more, name) = more[Latest(short(more))]
      /\ exact(types) = {} /\ short(types) # {} =>
           FindTypeByCanonicalName(types, name) = types[Latest(short(types))]
  BY DEF FindTypeByCanonicalName
<1>5. exact(types) # {} \/ short(types) # {}
  BY FoundIff DEF Found
<1>6. CASE exact(types) # {}
  <2>1. PICK i \in exact(types) : FindTypeByCanonicalName(types, name) = types[i]
    BY <1>4, <1>6
  <2>2. PICK j \in exact(more) : FindTypeByCanonicalName(more, name) = more[j]
    BY <1>2, <1>4, <1>6
  <2>3. i = j
    BY <1>2, <1>3
  <2> QED BY <1>1, <2>1, <2>2, <2>3
<1>7. CASE exact(types) = {} /\ exact(more) # {}
  <2>1. PICK j \in exact(more) : FindTypeByCanonicalName(more, name) = more[j]
    BY <1>4, <1>7
  <2>2. j \notin DOMAIN types
    BY <1>1, <1>7, <2>1
  <2> QED BY <2>1, <2>2
<1>8. CASE exact(more) = {}
  <2>1. exact(types) = {} /\ short(types) # {} /\ short(more) # {}
    BY <1>2, <1>5, <1>8
  <2>2. /\ Len(types) \in Nat /\ short(types) \in SUBSET (1 .. Len(types))
        /\ Len(more) \in Nat /\ short(more) \in SUBSET (1 .. Len(more))
    BY <1>1
  <2>3. /\ \E i \in short(types) : \A j \in short(types) : j <= i
        /\ \E i \in short(more) : \A j \in short(more) : j <= i
    <3> HIDE DEF short
    <3> QED BY <2>1, <2>2, HasGreatest
  <2>4. PICK i \in short(types) :
          /\ FindTypeByCanonicalName(types, name) = types[i]
          /\ \A j \in short(types) : j <= i
    <3>1. Latest(short(types)) \in short(types)
          /\ \A j \in short(types) : j <= Latest(short(types))
      <4> HIDE DEF short
      <4> QED BY <2>3
    <3> QED BY <1>4, <2>1, <3>1
  <2>5. PICK m \in short(more) :
          /\ FindTypeByCanonicalName(more, name) = more[m]
          /\ \A j \in short(more) : j <= m
    <3>1. Latest(short(more)) \in short(more)
          /\ \A j \in short(more) : j <= Latest(short(more))
      <4> HIDE DEF short
      <4> QED BY <2>3
    <3> QED BY <1>4, <1>8, <2>1, <3>1
  <2>6. CASE m \in DOMAIN types
    <3>1. m \in short(types) /\ i \in short(more)
      BY <1>1, <1>2, <2>6
    <3>2. m \in Nat /\ i \in Nat /\ m <= i /\ i <= m
      BY <2>2, <2>4, <2>5, <3>1
    <3>3. m = i
      BY <3>2
    <3> QED BY <1>1, <2>4, <2>5, <3>3
  <2>7. CASE m \notin DOMAIN types
    BY <2>5, <2>7
  <2> QED BY <2>6, <2>7
<1> QED BY <1>6, <1>7, <1>8

\* What a portable specifier is linked to fits in a parcel.
LEMMA LinkCanBeWritten ==
  ASSUME world \in Worlds, lang \in Langs, Portable, Sources(lang, space),
         NEW name \in Written \cup CanonicalNames(Mentioned), Found(space, name),
         Found(BuiltIns[lang], name) =>
           /\ name \in Written
           /\ FindTypeByCanonicalName(BuiltIns["JAVA"], name).kind = "built_in"
  PROVE  CanWriteToParcel(FindTypeByCanonicalName(space, name))
<1> DEFINE t == FindTypeByCanonicalName(space, name)
<1>1. ASSUME NEW u \in Mentioned, t \in StubsOf(u), t.name = name \/ IsShortFor(name, t)
      PROVE  FALSE
  <2> HIDE DEF t
  <2>1. {t.name, t.short} \cap (Written \cup CanonicalNames(Mentioned)) = {}
    BY <1>1 DEF StubsOf, Portable
  <2> QED BY <1>1, <2>1 DEF IsShortFor
<1>2. ASSUME t \in Mentioned PROVE CanWriteToParcel(t)
  <2> HIDE DEF t
  <2> QED BY <1>2, MentionedTyped, KindsDiffer
<1>3. CASE ~Found(BuiltIns[lang], name)
  BY <1>1, <1>2, <1>3, WhatIsFound
<1>4. CASE Found(BuiltIns[lang], name)
  <2>1. \/ t = FindTypeByCanonicalName(BuiltIns[lang], name)
        \/ \E i \in DOMAIN space \ DOMAIN BuiltIns[lang] :
             t = space[i] /\ (t.name = name \/ IsShortFor(name, t))
    BY <1>4, BuiltInsTyped, KeptOrNew DEF Sources
  <2>2. CASE t = FindTypeByCanonicalName(BuiltIns[lang], name)
    <3>1. t.kind = "built_in"
      BY <1>4, <2>2 DEF Portable, Langs
    <3> QED BY <3>1 DEF CanWriteToParcel
  <2>3. CASE \E i \in DOMAIN space \ DOMAIN BuiltIns[lang] :
               t = space[i] /\ (t.name = name \/ IsShortFor(name, t))
    <3>1. t.name = name \/ IsShortFor(name, t)
      BY <2>3
    <3>2. t \in Mentioned \/ \E u \in Mentioned : t \in StubsOf(u)
      BY <2>3 DEF Sources
    <3> QED BY <1>1, <1>2, <3>1, <3>2
  <2> QED BY <2>1, <2>2, <2>3
<1> QED BY <1>3, <1>4

LEMMA ResolvePredicted ==
  ASSUME IInv, SourcesInv, Portable, Resolve
  PROVE  Predicted
<1>1. /\ step = "resolve" /\ UNCHANGED <<world, queue, candidates>> /\ world \in Worlds
      /\ lang \in Langs /\ Sources(lang, space) /\ preprocessed \subseteq Mentioned
      /\ defined \subseteq Mentioned /\ defined \subseteq Type /\ preprocessed \subseteq Type
  BY DEF Resolve, IInv, TypeOK, SourcesInv, Tables, TablesInv
<1>2. /\ Now.step = "resolve" /\ Now.defined = defined /\ Now.space = Declared(space)
      /\ Now.preprocessed = preprocessed
  BY <1>1 DEF Now, Snapshot
<1>3. Ends(world, Now)
  BY <1>2 DEF Ends
<1> DEFINE resolved == [i \in DOMAIN world.specs |-> ResolveTypename(world.specs[i])]
           linked == [i \in DOMAIN world.specs |-> Link(world.specs[i])]
           known == Declared(space)
<1>4. ASSUME NEW i \in DOMAIN world.specs
      PROVE  NoType \notin {resolved[i], linked[i]} /\ CanWriteToParcel(linked[i])
             <=> resolved[i] # NoType /\ FoundBy(known, resolved[i].name)
  <2> DEFINE spec == world.specs[i]
             r == ResolveTypename(spec)
  <2>1. resolved[i] = r /\ linked[i] = FindTypeByCanonicalName(space, r.name)
    BY DEF Link
  <2>2. spec \in Name /\ spec \in ToSet(world.specs)
    <3>1. world.specs \in Seq(Name)
      BY <1>1, WorldTyped
    <3> QED BY <3>1 DEF ToSet
  <2> HIDE DEF resolved, linked, known, spec
  <2> SUFFICES ASSUME r # NoType
               PROVE  /\ Found(space, r.name) <=> FoundBy(known, r.name)
                      /\ Found(space, r.name) =>
                           CanWriteToParcel(FindTypeByCanonicalName(space, r.name))
    BY <2>1 DEF Found
  <2>3. CASE IsBuiltinTypename(spec)
    <3>1. r.name = AidlName[spec]
      BY <2>3 DEF ResolveTypename
    <3>2. r.name \in Written
      BY <2>2, <2>3, <3>1 DEF Written
    <3>3. FindTypeByCanonicalName(BuiltIns["JAVA"], r.name).kind = "built_in"
      BY <2>3, <3>1, TypeNamesAssumption DEF IsBuiltinTypename
    <3> HIDE DEF r
    <3> QED BY <1>1, <3>2, <3>3, FoundInNow, LinkCanBeWritten DEF known
  <2>4. CASE ~IsBuiltinTypename(spec)
    <3>1. r = TryGetDefinedType(spec)
      BY <2>4 DEF ResolveTypename
    <3>2. r \in defined \cup preprocessed
      BY <1>1, <2>2, <3>1, DefinedTypeFound
    <3> HIDE DEF r
    <3>3. r.name \in CanonicalNames(Mentioned)
      BY <1>1, <3>2 DEF CanonicalNames
    <3>4. ~Found(BuiltIns[lang], r.name)
      BY <1>1, <3>2 DEF Portable, Found
    <3> QED BY <1>1, <3>3, <3>4, FoundInNow, LinkCanBeWritten DEF known
  <2> QED BY <2>3, <2>4
<1>5. resolved = [i \in DOMAIN world.specs |->
                    ResolvedIn(defined, preprocessed, world.specs[i])]
  BY SameOperators
<1> DEFINE fine == \A i \in DOMAIN world.specs :
                     resolved[i] # NoType /\ FoundBy(known, resolved[i].name)
<1>6. \/ fine /\ Return("OK", resolved, linked)
      \/ ~fine /\ Return("BAD_TYPE", <<>>, <<>>)
  <2>1. IF \A i \in DOMAIN world.specs :
               NoType \notin {resolved[i], linked[i]} /\ CanWriteToParcel(linked[i])
        THEN Return("OK", resolved, linked) ELSE Fail("BAD_TYPE")
    BY DEF Resolve
  <2> HIDE DEF resolved, linked, known
  <2> QED BY <1>4, <2>1 DEF Fail
<1> HIDE DEF resolved, linked
<1>7. Outcome(world, Now) = IF fine THEN Verdict("OK", resolved)
                            ELSE Verdict("BAD_TYPE", <<>>)
  BY <1>2, <1>5 DEF Outcome
<1> HIDE DEF fine
<1> QED BY <1>1, <1>3, <1>6, <1>7, EndsPredicted

\* The file that is found for a name is one of those mentioned, and the only one.
LEMMA FoundFile ==
  ASSUME world \in Worlds, NEW name, NEW doc \in FindImportFile(name)
  PROVE  ToSet(doc) \subseteq Mentioned /\ \A other \in FindImportFile(name) : other = doc
<1> DEFINE below == {f \in world.files : f.path = name}
           inputs == {i \in DOMAIN world.inputs : name \in world.inputs[i].paths}
           first == CHOOSE i \in inputs : \A j \in inputs : i <= j
<1>1. world.files \subseteq File /\ world.inputs \in Seq(Input) /\ IsFiniteSet(world.files)
  BY WorldTyped, TypeNamesAssumption
<1>2. FindImportFile(name) =
        CASE Cardinality(below) = 1 -> {f.types : f \in below}
          [] below = {} /\ inputs # {} -> {world.inputs[first].types}
          [] OTHER -> {}
  BY Zenon DEF FindImportFile
<1>3. inputs # {} => first \in inputs
  <2>1. inputs \in SUBSET Nat
    BY <1>1
  <2>2. inputs # {} => \E i \in inputs : \A j \in inputs : i <= j
    <3> HIDE DEF inputs
    <3> QED BY <2>1, HasLeast
  <2> HIDE DEF inputs
  <2> QED BY <2>2
<1>4. IsFiniteSet(below) /\ below \subseteq world.files
  BY <1>1, FS_Subset
<1>5. \A i \in inputs : world.inputs[i] \in ToSet(world.inputs)
  BY DEF ToSet
<1> HIDE DEF below, inputs, first
<1>6. CASE Cardinality(below) = 1
  <2>1. PICK f : below = {f}
    BY <1>4, <1>6, FS_Singleton
  <2>2. FindImportFile(name) = {f.types} /\ f \in world.files
    BY <1>2, <1>4, <1>6, <2>1
  <2>3. ToSet(f.types) \subseteq Mentioned
    BY <2>2 DEF Mentioned
  <2> QED BY <2>2, <2>3
<1>7. CASE Cardinality(below) # 1
  <2>1. inputs # {} /\ FindImportFile(name) = {world.inputs[first].types}
    BY <1>2, <1>7
  <2>2. world.inputs[first] \in ToSet(world.inputs)
    BY <1>3, <1>5, <2>1
  <2>3. ToSet(world.inputs[first].types) \subseteq Mentioned
    BY <2>2 DEF Mentioned
  <2> QED BY <2>1, <2>3
<1> QED BY <1>6, <1>7

\* A document is loaded, as an import or with -m.
LEMMA LoadPredicted ==
  ASSUME IInv, SourcesInv, Portable, step \in {"import", "file"}, UNCHANGED world,
         candidates' \subseteq candidates,
         NEW doc \in Seq(Type), ToSet(doc) \subseteq Mentioned, Load(doc)
  PROVE  /\ UNCHANGED <<lang, step, result>>
         /\ Now' = Loaded(Now, queue', candidates', doc)
         /\ SourcesInv'
<1>1. /\ world \in Worlds /\ lang \in Langs /\ Sources(lang, space)
      /\ preprocessed \subseteq Mentioned /\ (step = "import" => candidates \subseteq Written)
  BY DEF IInv, TypeOK, SourcesInv
<1>2. /\ Now.step = step /\ Now.defined = defined /\ Now.space = Declared(space)
      /\ Now.preprocessed = preprocessed /\ Now.err = err
  BY DEF Now, Snapshot
<1>3. /\ AllAdded(space, doc) /\ Sources(lang, AddAll(space, doc))
      /\ Declared(AddAll(space, doc)) = AddsTo(Declared(space), doc)
  BY <1>1, LoadedDocument
<1>4. CASE /\ ~Parses(doc) /\ err' = "BAD_IMPORT" /\ defined' = Defined(doc)
           /\ UNCHANGED <<lang, step, preprocessed, space, result>>
  <2>1. ~ParsesIn(Now.defined, doc) /\ defined' = DefinedIn(Now.defined, doc)
    BY <1>2, <1>4, SameOperators
  <2>2. Now' = Snapshot(step, defined', preprocessed, Declared(space), queue', candidates',
                        "BAD_IMPORT")
    BY <1>4 DEF Now
  <2>3. Now' = Loaded(Now, queue', candidates', doc)
    BY <1>2, <2>1, <2>2 DEF Loaded
  <2>4. SourcesInv'
    BY <1>4, SourcesStay
  <2> QED BY <1>4, <2>3, <2>4
<1>5. CASE /\ Parses(doc) /\ defined' = Defined(doc) /\ space' = AddAll(space, doc)
           /\ UNCHANGED <<lang, step, preprocessed, err, result>>
  <2>1. ParsesIn(Now.defined, doc) /\ defined' = DefinedIn(Now.defined, doc)
    BY <1>2, <1>5, SameOperators
  <2>2. Now' = Snapshot(step, defined', preprocessed, Declared(space'), queue', candidates',
                        err)
    BY <1>5 DEF Now
  <2>3. Now' = Loaded(Now, queue', candidates', doc)
    BY <1>2, <1>3, <1>5, <2>1, <2>2 DEF Loaded
  <2>4. SourcesInv'
    BY <1>1, <1>3, <1>5, MentionedStays DEF SourcesInv
  <2> QED BY <1>5, <2>3, <2>4
<1> QED BY <1>3, <1>4, <1>5 DEF Load

LEMMA ImportFilePredicted ==
  ASSUME IInv, SourcesInv, Portable, ImportFile
  PROVE  Predicted
<1>1. /\ step = "file" /\ queue # <<>> /\ queue \in Seq(Seq(Type))
      /\ UNCHANGED <<world, candidates>> /\ queue' = Tail(queue) /\ Load(Head(queue))
      /\ ToSet(queue) \subseteq ToSet(world.m)
  BY DEF IInv, StepInv, ImportFile
<1>2. /\ Now.step = "file" /\ Now.queue = queue /\ Now.candidates = candidates
  BY <1>1 DEF Now, Snapshot
<1>3. Head(queue) \in Seq(Type) /\ Head(queue) \in ToSet(queue)
  BY <1>1, RestOfQueue
<1>4. ToSet(Head(queue)) \subseteq Mentioned
  BY <1>1, <1>3 DEF Mentioned
<1>5. /\ UNCHANGED <<lang, step, result>>
      /\ Now' = Loaded(Now, queue', candidates', Head(queue))
      /\ SourcesInv'
  BY <1>1, <1>3, <1>4, LoadPredicted
<1>6. ~Ends(world, Now)
  BY <1>1, <1>2 DEF Ends
<1>7. After(world, Now) = Loaded(Now, Tail(queue), candidates, Head(queue))
  BY <1>1, <1>2 DEF After, AfterFile
<1> QED BY <1>1, <1>5, <1>6, <1>7 DEF Predicted, Goes

LEMMA ImportPredicted ==
  ASSUME IInv, SourcesInv, Portable, Import
  PROVE  Predicted
<1>1. /\ step = "import" /\ UNCHANGED <<world, queue>> /\ world \in Worlds
      /\ candidates \subseteq Name /\ candidates \subseteq Written /\ lang \in Langs
      /\ Sources(lang, space)
  BY DEF IInv, TypeOK, Import, SourcesInv
<1>2. PICK name \in candidates :
        /\ \A other \in candidates : name <= other
        /\ candidates' = candidates \ {name}
        /\ \/ /\ HasImportType(name)
              /\ UNCHANGED <<lang, step, names, err, result>>
           \/ /\ ~HasImportType(name) /\ FindImportFile(name) = {}
              /\ err' = IF name \in world.imports THEN "BAD_IMPORT" ELSE err
              /\ UNCHANGED <<lang, step, names, result>>
           \/ /\ ~HasImportType(name)
              /\ \E doc \in FindImportFile(name) : Load(doc)
  BY DEF Import
<1>3. /\ Now.step = "import" /\ Now.defined = defined /\ Now.space = Declared(space)
      /\ Now.preprocessed = preprocessed /\ Now.queue = queue /\ Now.err = err
      /\ Now.candidates = candidates
  BY <1>1 DEF Now, Snapshot
<1>4. Least(candidates) = name
  <2>1. ASSUME NEW other \in candidates, \A n \in candidates : other <= n
        PROVE  other = name
    <3>1. name <= other /\ other <= name
      BY <1>2, <2>1
    <3>2. name \in Nat /\ other \in Nat
      BY <1>1 DEF Name
    <3> QED BY <3>1, <3>2
  <2> QED BY <1>2, <2>1 DEF Least
<1>5. ~Ends(world, Now)
  BY <1>2, <1>3 DEF Ends
<1>6. After(world, Now) = AfterImport(world, Now)
  BY <1>2, <1>3 DEF After
<1> DEFINE rest == candidates'
           known == Declared(space)
<1>7. AfterImport(world, Now) =
        IF FoundBy(known, name)
        THEN Snapshot("import", defined, preprocessed, known, queue, rest, err)
        ELSE IF FilesOf(world, name) = {}
        THEN Snapshot("import", defined, preprocessed, known, queue, rest,
                      IF name \in world.imports THEN "BAD_IMPORT" ELSE err)
        ELSE Loaded(Now, queue, rest, CHOOSE doc \in FilesOf(world, name) : TRUE)
  BY <1>2, <1>3, <1>4 DEF AfterImport
<1>8. HasImportType(name) <=> FoundBy(known, name)
  BY <1>1, <1>2, FoundInNow DEF HasImportType, Found
<1>9. FindImportFile(name) = FilesOf(world, name)
  BY SameOperators
<1>10. ASSUME UNCHANGED <<lang, step, names, result>>, Now' = AfterImport(world, Now)
       PROVE  Predicted
  <2>1. SourcesInv'
    BY <1>1, <1>2, <1>10, SourcesStay DEF names
  <2> QED BY <1>1, <1>5, <1>6, <1>10, <2>1 DEF Predicted, Goes
<1>11. CASE HasImportType(name) /\ UNCHANGED <<lang, step, names, err, result>>
  <2>1. Now' = Snapshot("import", defined, preprocessed, known, queue, rest, err)
    BY <1>1, <1>11 DEF names, Now
  <2> QED BY <1>7, <1>8, <1>10, <1>11, <2>1
<1>12. CASE /\ ~HasImportType(name) /\ FindImportFile(name) = {}
            /\ err' = IF name \in world.imports THEN "BAD_IMPORT" ELSE err
            /\ UNCHANGED <<lang, step, names, result>>
  <2>1. Now' = Snapshot("import", defined, preprocessed, known, queue, rest, err')
    BY <1>1, <1>12 DEF names, Now
  <2> QED BY <1>7, <1>8, <1>9, <1>10, <1>12, <2>1
<1>13. ASSUME ~HasImportType(name), NEW doc \in FindImportFile(name), Load(doc)
       PROVE  Predicted
  <2>1. doc \in Seq(Type) /\ ToSet(doc) \subseteq Mentioned
    BY <1>1, FoundFilesTyped
  <2>2. /\ UNCHANGED <<lang, step, result>>
        /\ Now' = Loaded(Now, queue', candidates', doc)
        /\ SourcesInv'
    BY <1>1, <1>2, <1>13, <2>1, LoadPredicted
  <2>3. doc = CHOOSE d \in FilesOf(world, name) : TRUE
    <3>1. (CHOOSE d \in FindImportFile(name) : TRUE) \in FindImportFile(name)
      BY <1>13
    <3> QED BY <1>1, <1>9, <3>1, FoundFile
  <2>4. Now' = AfterImport(world, Now)
    BY <1>1, <1>7, <1>8, <1>9, <1>13, <2>2, <2>3
  <2> QED BY <1>1, <1>5, <1>6, <2>2, <2>4 DEF Predicted, Goes
<1> QED BY <1>2, <1>11, <1>12, <1>13

-----------------------------------------------------------------------------
\* What a run has known, from its beginning on.
History(past, n, w) ==
  /\ past[0] = Fresh
  /\ \A k \in 0 .. n - 1 : ~Ends(w, past[k]) /\ past[k + 1] = After(w, past[k])
Reported(l, s, w) == Verdict(result[l].error, result[l].resolved) = Outcome(w, s)

\* The run for C++ is where its history ends; the one for Java goes through the
\* same history.
HistoryInv ==
  \/ /\ lang = "CPP" /\ step # "done"
     /\ \E n \in Nat : \E past : History(past, n, world) /\ past[n] = Now
  \/ /\ lang = "JAVA"
     /\ \E n \in Nat : \E past :
          /\ History(past, n, world) /\ Ends(world, past[n])
          /\ Reported("CPP", past[n], world)
          /\ IF step = "done" THEN Reported("JAVA", past[n], world)
             ELSE \E k \in 0 .. n : past[k] = Now
TwinInv == Portable => SourcesInv /\ HistoryInv

LEMMA TwinInit == Init => TwinInv
<1> SUFFICES ASSUME Init, Portable PROVE SourcesInv /\ HistoryInv
  BY DEF TwinInv
<1>1. lang \in Langs /\ Sources(lang, space) /\ Declared(space) = {}
  BY BuiltInSources DEF Init, Langs
<1>2. Now = Fresh
  BY <1>1 DEF Init, Now, Fresh
<1>3. SourcesInv
  BY <1>1 DEF Init, SourcesInv
<1>4. History([k \in {0} |-> Fresh], 0, world) /\ [k \in {0} |-> Fresh][0] = Now
  <2>1. 0 .. 0 - 1 = {}
    OBVIOUS
  <2> QED BY <1>2, <2>1 DEF History
<1>5. HistoryInv
  BY <1>4 DEF Init, HistoryInv
<1> QED BY <1>3, <1>5

\* The history of a run that goes on.
LEMMA HistoryGoesOn ==
  ASSUME NEW w, NEW n \in Nat, NEW past, History(past, n, w), ~Ends(w, past[n])
  PROVE  \E longer : History(longer, n + 1, w) /\ longer[n + 1] = After(w, past[n])
<1> DEFINE next == After(w, past[n])
           longer == [k \in 0 .. n + 1 |-> IF k = n + 1 THEN next ELSE past[k]]
<1>1. longer[n + 1] = next /\ \A k \in 0 .. n : longer[k] = past[k]
  OBVIOUS
<1>2. 0 \in 0 .. n /\ \A k \in 0 .. (n + 1) - 1 :
                        k \in 0 .. n /\ (k = n \/ (k \in 0 .. n - 1 /\ k + 1 \in 0 .. n))
  OBVIOUS
<1> HIDE DEF longer
<1>3. ASSUME NEW k \in 0 .. (n + 1) - 1
      PROVE  ~Ends(w, longer[k]) /\ longer[k + 1] = After(w, longer[k])
  <2>1. CASE k = n
    BY <1>1, <1>2, <2>1
  <2>2. CASE k \in 0 .. n - 1 /\ k + 1 \in 0 .. n
    BY <1>1, <1>2, <2>2 DEF History
  <2> QED BY <1>2, <2>1, <2>2
<1>4. longer[0] = Fresh
  BY <1>1, <1>2 DEF History
<1> QED BY <1>1, <1>3, <1>4 DEF History

LEMMA NextPredicted ==
  ASSUME IInv, SourcesInv, Portable, Next
  PROVE  Predicted /\ step # "done"
<1>1. step # "done"
  BY DEF Next, ParseMain, PreprocessedLine, Candidates, Import, Imported, ImportFile,
         FilesImported, Resolve
<1> QED BY <1>1, ParseMainPredicted, PreprocessedLinePredicted, CandidatesPredicted,
           ImportPredicted, ImportedPredicted, ImportFilePredicted,
           FilesImportedPredicted, ResolvePredicted DEF Next

LEMMA TwinStep ==
  ASSUME IInv, TwinInv, Next
  PROVE  TwinInv'
<1>1. world' = world
  BY DEF Next, ParseMain, PreprocessedLine, Candidates, Import, Imported, ImportFile,
         FilesImported, Resolve
<1>2. Portable' <=> Portable
  BY <1>1, MentionedStays
<1> SUFFICES ASSUME Portable PROVE SourcesInv' /\ HistoryInv'
  BY <1>2 DEF TwinInv
<1>3. SourcesInv /\ HistoryInv
  BY DEF TwinInv
<1>4. step # "done" /\ SourcesInv' /\ (Goes \/ Stops)
  BY <1>3, NextPredicted DEF Predicted
<1>5. DOMAIN result = IF lang = "JAVA" THEN {"CPP"} ELSE {}
  BY <1>4 DEF IInv, TypeOK
<1>6. CASE lang = "CPP"
  <2>1. PICK n, past : n \in Nat /\ History(past, n, world) /\ past[n] = Now
    BY <1>3, <1>6 DEF HistoryInv
  <2>2. CASE Goes
    <3>1. \E longer : History(longer, n + 1, world) /\ longer[n + 1] = Now'
      BY <2>1, <2>2, HistoryGoesOn DEF Goes
    <3>2. n + 1 \in Nat
      BY <2>1
    <3> QED BY <1>1, <1>4, <1>6, <2>2, <3>1, <3>2 DEF HistoryInv, Goes
  <2>3. CASE Stops
    <3>1. PICK error, resolved, linked :
             Return(error, resolved, linked) /\ Verdict(error, resolved) = Outcome(world, Now)
      BY <2>3 DEF Stops
    <3>2. /\ lang' = "JAVA" /\ step' = "parse" /\ Now' = Fresh
      <4>1. /\ lang' = "JAVA" /\ step' = "parse" /\ defined' = {} /\ preprocessed' = {}
            /\ space' = BuiltIns["JAVA"] /\ err' = "OK"
        BY <1>6, <3>1 DEF Return, Start
      <4>2. Declared(space') = {}
        BY <4>1, BuiltInSources DEF Langs
      <4> QED BY <4>1, <4>2 DEF Now, Fresh
    <3>3. Reported("CPP", past[n], world)'
      <4>1. result'["CPP"] = [error |-> error, resolved |-> resolved, linked |-> linked]
        BY <1>6, <3>1 DEF Return
      <4> QED BY <1>1, <2>1, <3>1, <4>1 DEF Reported
    <3>4. past[0] = Now' /\ 0 \in 0 .. n
      BY <2>1, <3>2 DEF History
    <3> QED BY <1>1, <1>4, <2>1, <2>3, <3>2, <3>3, <3>4 DEF HistoryInv, Stops
  <2> QED BY <1>4, <2>2, <2>3
<1>7. CASE lang = "JAVA"
  <2>1. PICK n, past :
          /\ n \in Nat
          /\ History(past, n, world) /\ Ends(world, past[n])
          /\ Reported("CPP", past[n], world)
          /\ \E k \in 0 .. n : past[k] = Now
    BY <1>3, <1>4, <1>7 DEF HistoryInv
  <2>2. PICK k \in 0 .. n : past[k] = Now
    BY <2>1
  <2>3. CASE Goes
    <3>1. k # n
      BY <2>1, <2>2, <2>3 DEF Goes
    <3>2. k \in 0 .. n - 1 /\ k + 1 \in 0 .. n
      BY <2>1, <3>1
    <3>3. past[k + 1] = Now'
      BY <2>1, <2>2, <2>3, <3>2 DEF Goes, History
    <3>4. Reported("CPP", past[n], world)'
      BY <1>1, <2>1, <2>3 DEF Reported, Goes
    <3> QED BY <1>1, <1>4, <1>7, <2>1, <2>3, <3>2, <3>3, <3>4 DEF HistoryInv, Goes
  <2>4. CASE Stops
    <3>1. PICK error, resolved, linked :
             Return(error, resolved, linked) /\ Verdict(error, resolved) = Outcome(world, Now)
      BY <2>4 DEF Stops
    <3>2. k = n
      <4>1. k \notin 0 .. n - 1
        BY <2>1, <2>2, <2>4 DEF Stops, History
      <4> QED BY <2>1, <4>1
    <3>3. /\ lang' = "JAVA" /\ step' = "done"
          /\ result'["JAVA"] = [error |-> error, resolved |-> resolved, linked |-> linked]
          /\ result'["CPP"] = result["CPP"]
      BY <1>5, <1>7, <3>1 DEF Return
    <3>4. Reported("CPP", past[n], world)' /\ Reported("JAVA", past[n], world)'
      BY <1>1, <2>1, <2>2, <3>1, <3>2, <3>3 DEF Reported
    <3> QED BY <1>1, <1>4, <2>1, <3>3, <3>4 DEF HistoryInv
  <2> QED BY <1>4, <2>3, <2>4
<1>8. lang \in Langs
  BY DEF IInv, TypeOK
<1> QED BY <1>4, <1>6, <1>7, <1>8 DEF Langs

LEMMA TwinStutter ==
  ASSUME TwinInv, UNCHANGED vars
  PROVE  TwinInv'
<1>1. /\ UNCHANGED <<world, lang, step, defined, preprocessed, space, queue, candidates,
                     err, result>>
  BY DEF vars, names
<1>2. (Portable' <=> Portable) /\ (SourcesInv => SourcesInv')
  BY <1>1, MentionedStays, SourcesStay
<1>3. Now' = Now
  BY <1>1 DEF Now
<1>4. HistoryInv => HistoryInv'
  BY <1>1, <1>3 DEF HistoryInv, Reported
<1> QED BY <1>2, <1>4 DEF TwinInv

\* The compiler loads a portable document for Java by the very steps it loads it for
\* C++ by, although their name spaces start with different classes.
THEOREM TwinInvariance == Spec => []TwinInv
<1>1. IInv /\ TwinInv /\ [Next]_vars => TwinInv'
  BY TwinStep, TwinStutter
<1> QED BY <1>1, TwinInit, Invariance, PTL DEF Spec

\* The two backends accept the same portable documents and mean the same types.
THEOREM BackendsAgreeAlways == Spec => []BackendsAgree
<1>1. IInv /\ TwinInv => BackendsAgree
  <2> SUFFICES ASSUME IInv, TwinInv, step = "done", Portable
               PROVE  /\ result["CPP"].error = result["JAVA"].error
                      /\ result["CPP"].resolved = result["JAVA"].resolved
    BY DEF BackendsAgree
  <2>1. PICK past, n : Reported("CPP", past[n], world) /\ Reported("JAVA", past[n], world)
    BY DEF TwinInv, HistoryInv
  <2>2. Verdict(result["CPP"].error, result["CPP"].resolved)
          = Verdict(result["JAVA"].error, result["JAVA"].resolved)
    BY <2>1 DEF Reported
  <2> QED BY <2>2 DEF Verdict
<1> QED BY <1>1, Invariance, TwinInvariance, PTL
==============================================================================
