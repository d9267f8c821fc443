--------------------------- MODULE ApiHistoryProofs ---------------------------
(***************************************************************************)
(* Why comparing neighbours is enough: the relation check_api computes is  *)
(* a preorder that implies wire compatibility, and no freeze, complete or  *)
(* interrupted, writes a version that was shipped.                         *)
(***************************************************************************)
EXTENDS ApiHistory, WellFoundedInduction, TLAPS

-----------------------------------------------------------------------------
(* The relation of check_api.                                              *)

\* Compatible is reflexive.
LEMMA CompatibleReflexive ==
  ASSUME NEW A, WellFormed(A) PROVE Compatible(A, A)
<1> SUFFICES ASSUME NEW t \in DOMAIN A PROVE CompatibleTypes(A[t], A[t])
  BY DEF Compatible
<1>1. A[t].kind = "interface" => CompatibleInterfaces(A[t], A[t])
  BY DEF CompatibleInterfaces, SameMethod
<1>2. A[t].kind = "parcelable" => CompatibleParcelables(A[t], A[t])
  BY DEF CompatibleParcelables, WellFormed, IsList
<1> QED BY <1>1, <1>2 DEF CompatibleTypes

\* Compatible is transitive: what check_api accepts step by step it accepts
\* at once.
LEMMA CompatibleTransitive ==
  ASSUME NEW A, NEW B, NEW C, WellFormed(A), WellFormed(B), WellFormed(C),
         Compatible(A, B), Compatible(B, C)
  PROVE  Compatible(A, C)
<1> SUFFICES ASSUME NEW t \in DOMAIN A
             PROVE  t \in DOMAIN C /\ CompatibleTypes(A[t], C[t])
  BY DEF Compatible
<1>1. /\ t \in DOMAIN B /\ t \in DOMAIN C
      /\ CompatibleTypes(A[t], B[t]) /\ CompatibleTypes(B[t], C[t])
  BY DEF Compatible
<1>2. ASSUME A[t].kind = "interface" PROVE CompatibleInterfaces(A[t], C[t])
  <2>1. CompatibleInterfaces(A[t], B[t]) /\ CompatibleInterfaces(B[t], C[t])
    BY <1>1, <1>2 DEF CompatibleTypes
  <2>2. ASSUME NEW i \in DOMAIN A[t].methods
        PROVE  \E k \in DOMAIN C[t].methods : SameMethod(A[t].methods, i, C[t].methods, k)
    <3>1. PICK j \in DOMAIN B[t].methods : SameMethod(A[t].methods, i, B[t].methods, j)
      BY <2>1 DEF CompatibleInterfaces
    <3>2. PICK k \in DOMAIN C[t].methods : SameMethod(B[t].methods, j, C[t].methods, k)
      BY <2>1 DEF CompatibleInterfaces
    <3> QED BY <3>1, <3>2 DEF SameMethod
  <2>3. \A c \in DOMAIN A[t].constants :
          c \in DOMAIN C[t].constants /\ C[t].constants[c] = A[t].constants[c]
    BY <2>1 DEF CompatibleInterfaces
  <2> QED BY <2>1, <2>2, <2>3 DEF CompatibleInterfaces
<1>3. ASSUME A[t].kind = "parcelable" PROVE CompatibleParcelables(A[t], C[t])
  <2>1. CompatibleParcelables(A[t], B[t]) /\ CompatibleParcelables(B[t], C[t])
    BY <1>1, <1>3 DEF CompatibleTypes
  <2>2. B[t].kind = "parcelable" /\ C[t].kind = "parcelable"
    BY <1>1, <1>3 DEF CompatibleTypes
  <2>3. IsList(A[t].fields) /\ IsList(B[t].fields) /\ IsList(C[t].fields)
    BY <1>1, <1>3, <2>2 DEF WellFormed
  <2> QED BY <2>1, <2>3 DEF CompatibleParcelables, IsList
<1> QED BY <1>1, <1>2, <1>3 DEF CompatibleTypes

\* Distinct methods have distinct transaction codes once check_and_assign
\* accepted them.
LEMMA CodesAreDistinct ==
  ASSUME NEW methods, IsList(methods), ValidIds(methods),
         NEW i \in DOMAIN methods, NEW j \in DOMAIN methods,
         CodeOf(methods, i) = CodeOf(methods, j)
  PROVE  i = j
<1>1. CASE \A k \in DOMAIN methods : methods[k].id = NoId
  BY <1>1 DEF CodeOf, IsList
<1>2. CASE /\ \A k \in DOMAIN methods : methods[k].id \in 0 .. MaxUserSetMethodId
           /\ \A k, l \in DOMAIN methods : methods[k].id = methods[l].id => k = l
  BY <1>2, ApiCheckAssumption DEF CodeOf
<1> QED BY <1>1, <1>2 DEF ValidIds

\* What check_api accepts is compatible on the wire, in both directions.
LEMMA CompatibleIsWireCompatible ==
  ASSUME NEW A, NEW B, WellFormed(A), WellFormed(B), Loads(B), Compatible(A, B)
  PROVE  WireCompatible(A, B)
<1> SUFFICES ASSUME NEW t \in DOMAIN A
             PROVE  /\ t \in DOMAIN B
                    /\ A[t].kind = B[t].kind
                    /\ A[t].kind = "interface" => SameCodes(A[t].methods, B[t].methods)
                    /\ A[t].kind = "parcelable" =>
                         Len(A[t].fields) <= Len(B[t].fields) /\ SamePrefix(A[t].fields, B[t].fields)
  BY DEF WireCompatible
<1>1. t \in DOMAIN B /\ CompatibleTypes(A[t], B[t]) BY DEF Compatible
<1>2. ASSUME A[t].kind = "interface" PROVE SameCodes(A[t].methods, B[t].methods)
  <2> DEFINE old == A[t].methods
             new == B[t].methods
  <2>1. CompatibleInterfaces(A[t], B[t]) BY <1>1, <1>2 DEF CompatibleTypes
  <2>0. t \in DOMAIN B /\ B[t].kind = "interface" BY <1>1, <1>2 DEF CompatibleTypes
  <2>2. ValidIds(new) /\ IsList(new)
    <3>1. ValidIds(new) BY <2>0 DEF Loads
    <3>2. IsList(new) BY <2>0 DEF WellFormed
    <3> QED BY <3>1, <3>2
  <2>3. \A i \in DOMAIN old : \E j \in DOMAIN new : SameMethod(old, i, new, j)
    BY <2>1 DEF CompatibleInterfaces
  <2>4. \A i \in DOMAIN old : \E j \in DOMAIN new : CodeOf(old, i) = CodeOf(new, j)
    BY <2>3 DEF SameMethod
  <2>5. ASSUME NEW i \in DOMAIN old, NEW j \in DOMAIN new, CodeOf(old, i) = CodeOf(new, j)
        PROVE  /\ Signature(old[i]) = Signature(new[j])
               /\ old[i].rest = new[j].rest /\ old[i].oneway = new[j].oneway
    <3>1. PICK k \in DOMAIN new : SameMethod(old, i, new, k) BY <2>3
    <3>2. CodeOf(new, k) = CodeOf(new, j) BY <2>5, <3>1 DEF SameMethod
    <3>3. k = j BY <2>2, <3>2, CodesAreDistinct
    <3> QED BY <3>1, <3>3 DEF SameMethod
  <2> QED BY <2>4, <2>5 DEF SameCodes
<1>3. ASSUME A[t].kind = "parcelable"
      PROVE  Len(A[t].fields) <= Len(B[t].fields) /\ SamePrefix(A[t].fields, B[t].fields)
  BY <1>1, <1>3 DEF CompatibleTypes, CompatibleParcelables, SamePrefix
<1> QED BY <1>1, <1>2, <1>3 DEF CompatibleTypes

\* A chain of compatible neighbours is compatible throughout: of the members
\* that are not compatible with one before them, take the first.
LEMMA CompatibleChain ==
  ASSUME NEW n \in Nat, NEW f,
         \A i \in 1 .. n : WellFormed(f[i]),
         \A i \in 2 .. n : Compatible(f[i - 1], f[i])
  PROVE  \A i, j \in 1 .. n : i <= j => Compatible(f[i], f[j])
<1> DEFINE Bad == {j \in 1 .. n : \E i \in 1 .. j : ~Compatible(f[i], f[j])}
<1>1. SUFFICES ASSUME Bad # {} PROVE FALSE
  OBVIOUS
<1>2. Bad \subseteq Nat OBVIOUS
<1> HIDE DEF Bad
<1>3. PICK j \in Bad : \A k \in Bad : ~(<<k, j>> \in OpToRel(<, Nat))
  BY <1>1, <1>2, WFMin, NatLessThanWellFounded
<1>4. \A k \in Bad : ~(k < j)
  BY <1>2, <1>3 DEF OpToRel
<1> USE DEF Bad
<1>5. PICK i \in 1 .. j : ~Compatible(f[i], f[j]) OBVIOUS
<1>6. i # j BY <1>5, CompatibleReflexive
<1>7. j - 1 \in 1 .. n /\ i \in 1 .. (j - 1) /\ j \in 2 .. n BY <1>6
<1>8. j - 1 \notin Bad BY <1>4, <1>7
<1>9. Compatible(f[i], f[j - 1]) BY <1>7, <1>8
<1>10. Compatible(f[j - 1], f[j]) BY <1>7
<1>11. WellFormed(f[i]) /\ WellFormed(f[j - 1]) /\ WellFormed(f[j]) BY <1>7
<1> QED BY <1>5, <1>9, <1>10, <1>11, CompatibleTransitive

-----------------------------------------------------------------------------
(* The history.                                                            *)

\* Freezes number versions in order, write only the last or a new one, and
\* write well-formed dumps.
FreezeInv ==
  /\ source \in Source
  /\ versions \in Seq(Nat)
  /\ Len(versions) <= MaxVersion
  /\ \A i \in 1 .. Len(versions) : versions[i] = i
  /\ frozen = [v \in 1 .. MaxVersion |-> frozen[v]]
  /\ \A v \in 1 .. MaxVersion : WellFormed(frozen[v])
  /\ WellFormed(dump)
  /\ step \in {"idle", "clear", "list", "copy"}
  /\ step \in {"clear", "list"} => version = Len(versions) + 1 /\ version <= MaxVersion
  /\ step = "list" => frozen[version] = NoFiles
  /\ step = "copy" => /\ version = Len(versions) /\ version \in 1 .. MaxVersion
                      /\ DOMAIN frozen[version] \subseteq DOMAIN dump

\* What was shipped is still there, no freeze is about to write it, and it is
\* compatible with every later version that was shipped and with the tip.
ShippedInv ==
  /\ \A s \in shipped :
       /\ s = <<s[1], frozen[s[1]]>>
       /\ s[1] \in 1 .. Len(versions)
       /\ step = "copy" => s[1] # version
       /\ DOMAIN s[2] # {}
       /\ Loads(s[2])
       /\ Compatible(s[2], DumpOf(tip))
  /\ \A s, t \in shipped : s[1] <= t[1] => Compatible(s[2], t[2])
  /\ shipped # {} => tip \in Source /\ Loads(tip)

IInv == FreezeInv /\ ShippedInv

\* A dump is well-formed, loads when its source does, and has its codes.
LEMMA DumpIsWellFormed ==
  ASSUME NEW api \in Source
  PROVE  /\ WellFormed(DumpOf(api))
         /\ DOMAIN DumpOf(api) = DOMAIN api /\ DOMAIN api # {}
         /\ \A t \in DOMAIN api :
              /\ DumpOf(api)[t].kind = api[t].kind
              /\ api[t].kind = "interface" => DumpOf(api)[t].methods = api[t].methods
              /\ api[t].kind = "parcelable" => DumpOf(api)[t] = api[t]
         /\ Loads(api) => Loads(DumpOf(api))
<1>1. WellFormed(api) /\ DOMAIN api # {} BY ApiHistoryAssumption
<1>2. ASSUME NEW t \in DOMAIN api, api[t].kind = "interface"
      PROVE  /\ DumpOf(api)[t] = [kind |-> "interface", annotations |-> {},
                                  methods |-> api[t].methods, constants |-> api[t].constants]
             /\ IsList(api[t].methods)
  BY <1>1, <1>2 DEF WellFormed, DumpOf, Dump
<1>3. ASSUME NEW t \in DOMAIN api, api[t].kind # "interface"
      PROVE  /\ DumpOf(api)[t] = api[t]
             /\ api[t] = [kind |-> "parcelable", fields |-> api[t].fields]
             /\ IsList(api[t].fields)
  BY <1>1, <1>3 DEF WellFormed, DumpOf, Dump
<1>4. DOMAIN DumpOf(api) = DOMAIN api BY DEF DumpOf
<1>5. WellFormed(DumpOf(api))
  <2> SUFFICES ASSUME NEW t \in DOMAIN api
               PROVE  \/ /\ DumpOf(api)[t] = [kind |-> "interface",
                                annotations |-> DumpOf(api)[t].annotations,
                                methods |-> DumpOf(api)[t].methods,
                                constants |-> DumpOf(api)[t].constants]
                         /\ IsList(DumpOf(api)[t].methods)
                      \/ /\ DumpOf(api)[t] = [kind |-> "parcelable", fields |-> DumpOf(api)[t].fields]
                         /\ IsList(DumpOf(api)[t].fields)
    BY <1>4 DEF WellFormed
  <2>1. CASE api[t].kind = "interface"
    <3> DEFINE d == DumpOf(api)[t]
    <3>1. /\ d = [kind |-> "interface", annotations |-> {},
                  methods |-> api[t].methods, constants |-> api[t].constants]
          /\ IsList(api[t].methods)
      BY <2>1, <1>2
    <3> HIDE DEF d
    <3>2. d.annotations = {} /\ d.methods = api[t].methods /\ d.constants = api[t].constants
      BY <3>1
    <3>3. d = [kind |-> "interface", annotations |-> d.annotations,
               methods |-> d.methods, constants |-> d.constants] /\ IsList(d.methods)
      BY <3>1, <3>2
    <3> QED BY <3>3 DEF d
  <2>2. CASE api[t].kind # "interface"
    <3>1. /\ DumpOf(api)[t] = api[t]
          /\ api[t] = [kind |-> "parcelable", fields |-> api[t].fields]
          /\ IsList(api[t].fields)
      BY <2>2, <1>3
    <3> QED BY <3>1
  <2> QED BY <2>1, <2>2
<1>6. ASSUME NEW t \in DOMAIN api
      PROVE  /\ DumpOf(api)[t].kind = api[t].kind
             /\ api[t].kind = "interface" => DumpOf(api)[t].methods = api[t].methods
             /\ api[t].kind = "parcelable" => DumpOf(api)[t] = api[t]
  <2>1. CASE api[t].kind = "interface"
    <3> DEFINE d == DumpOf(api)[t]
    <3>1. d = [kind |-> "interface", annotations |-> {},
               methods |-> api[t].methods, constants |-> api[t].constants]
      BY <2>1, <1>2
    <3> HIDE DEF d
    <3>2. d.kind = "interface" /\ d.methods = api[t].methods
      BY <3>1
    <3> QED BY <2>1, <3>2 DEF d
  <2>2. CASE api[t].kind # "interface" BY <2>2, <1>3
  <2> QED BY <2>1, <2>2
<1>7. Loads(api) => Loads(DumpOf(api)) BY <1>4, <1>6 DEF Loads
<1> QED BY <1>1, <1>4, <1>5, <1>6, <1>7

\* What is compatible with a dump on the wire is so with its source.
LEMMA DumpKeepsTheWire ==
  ASSUME NEW A, NEW api \in Source, WireCompatible(A, DumpOf(api))
  PROVE  WireCompatible(A, api)
BY DumpIsWellFormed DEF WireCompatible

\* The files of an unfinished copy.
LEMMA CopyIsWellFormed ==
  ASSUME NEW A, NEW D, WellFormed(A), WellFormed(D), NEW t \in DOMAIN D,
         DOMAIN A \subseteq DOMAIN D
  PROVE  WellFormed([u \in DOMAIN A \cup {t} |-> D[u]])
BY DEF WellFormed

LEMMA NoFilesIsWellFormed == WellFormed(NoFiles)
BY DEF WellFormed, NoFiles

LEMMA InitIInv == Init => IInv
<1> SUFFICES ASSUME Init PROVE IInv OBVIOUS
<1> QED BY NoFilesIsWellFormed, ApiHistoryAssumption DEF Init, IInv, FreezeInv, ShippedInv, NoFiles

\* A build that gets through certifies all listed versions and the source
\* at once.
LEMMA ChecksCertify ==
  ASSUME FreezeInv, ChecksPass, Valid(source), versions # <<>>
  PROVE  /\ \A i \in 1 .. Len(versions) :
              /\ DOMAIN frozen[i] # {}
              /\ Loads(frozen[i])
              /\ Compatible(frozen[i], DumpOf(source))
         /\ \A i, j \in 1 .. Len(versions) : i <= j => Compatible(frozen[i], frozen[j])
<1> DEFINE n == Len(versions)
           f == [i \in 1 .. n + 1 |-> IF i = n + 1 THEN DumpOf(source) ELSE frozen[i]]
<1>1. /\ n \in Nat /\ n >= 1 /\ n <= MaxVersion /\ MaxVersion \in Nat
      /\ DOMAIN versions = 1 .. n
      /\ \A i \in 1 .. n : versions[i] = i
  BY ApiHistoryAssumption DEF FreezeInv
<1>2. /\ WellFormed(DumpOf(source)) /\ Loads(DumpOf(source)) /\ DOMAIN DumpOf(source) # {}
  BY DumpIsWellFormed DEF FreezeInv, Valid
<1>3. \A i \in 1 .. n : WellFormed(frozen[i])
  BY <1>1 DEF FreezeInv
<1>4. ASSUME NEW i \in 2 .. n PROVE CheckApi(frozen[i - 1], frozen[i])
  <2>1. CheckApi(frozen[versions[i - 1]], frozen[versions[i]])
    BY DEF ChecksPass
  <2>2. versions[i - 1] = i - 1 /\ versions[i] = i BY <1>1
  <2> QED BY <2>1, <2>2
<1>5. /\ DOMAIN frozen[n] # {} /\ Loads(frozen[n])
      /\ Compatible(frozen[n], DumpOf(source))
  <2>1. Latest = frozen[n] BY <1>1 DEF Latest
  <2>2. CASE released
    BY <1>2, <2>1, <2>2, CompatibleReflexive DEF ChecksPass
  <2>3. CASE ~released
    BY <2>1, <2>3 DEF ChecksPass, CheckApi
  <2> QED BY <2>2, <2>3
<1>6. \A i \in 1 .. n + 1 : WellFormed(f[i])
  BY <1>1, <1>2, <1>3
<1>7. ASSUME NEW i \in 2 .. n + 1 PROVE Compatible(f[i - 1], f[i])
  <2>1. CASE i = n + 1
    <3>1. f[i - 1] = frozen[n] /\ f[i] = DumpOf(source)
      <4>1. i - 1 = n /\ i \in 1 .. n + 1 /\ n \in 1 .. n + 1 /\ n # n + 1
        <5> HIDE DEF n
        <5> QED BY <1>1, <2>1
      <4> QED BY <4>1, <2>1
    <3> QED BY <1>5, <3>1
  <2>2. CASE i # n + 1
    <3>1. i \in 2 .. n /\ f[i - 1] = frozen[i - 1] /\ f[i] = frozen[i] BY <1>1, <2>2
    <3> QED BY <3>1, <1>4 DEF CheckApi
  <2> QED BY <2>1, <2>2
<1>8. \A i, j \in 1 .. n + 1 : i <= j => Compatible(f[i], f[j])
  <2> HIDE DEF f
  <2>1. n + 1 \in Nat BY <1>1
  <2> QED BY <1>6, <1>7, <2>1, CompatibleChain
<1>9. ASSUME NEW i \in 1 .. n
      PROVE  DOMAIN frozen[i] # {} /\ Loads(frozen[i]) /\ Compatible(frozen[i], DumpOf(source))
  <2>1. Compatible(frozen[i], DumpOf(source))
    <3>1. /\ i \in 1 .. n + 1 /\ n + 1 \in 1 .. n + 1 /\ i <= n + 1
          /\ f[i] = frozen[i] /\ f[n + 1] = DumpOf(source)
      BY <1>1
    <3> QED BY <3>1, <1>8
  <2>2. CASE i = n BY <1>5, <2>1, <2>2
  <2>3. CASE i # n
    <3>1. i + 1 \in 2 .. n /\ (i + 1) - 1 = i
      <4> HIDE DEF n
      <4> QED BY <1>1, <2>3
    <3> QED BY <2>1, <3>1, <1>4 DEF CheckApi
  <2> QED BY <2>2, <2>3
<1>10. ASSUME NEW i \in 1 .. n, NEW j \in 1 .. n, i <= j PROVE Compatible(frozen[i], frozen[j])
  <2>1. /\ i \in 1 .. n + 1 /\ j \in 1 .. n + 1 /\ f[i] = frozen[i] /\ f[j] = frozen[j]
    BY <1>1
  <2> QED BY <2>1, <1>8, <1>10
<1> QED BY <1>9, <1>10

\* Every step keeps the numbering of versions and the dumps well-formed.
LEMMA FreezeInvStep ==
  ASSUME FreezeInv, [Next]_vars PROVE FreezeInv'
<1> USE DEF FreezeInv
<1>1. ASSUME NEW api \in Source, Edit(api) PROVE FreezeInv'
  BY <1>1 DEF Edit, freeze
<1>2. CASE Release BY <1>2 DEF Release, freeze
<1>3. CASE DumpApi
  <2>1. CurrentVersion = Len(versions) + 1
    BY DEF CurrentVersion
  <2>2. WellFormed(dump') BY <1>3, DumpIsWellFormed DEF DumpApi
  <2> QED BY <1>3, <2>1, <2>2 DEF DumpApi
<1>4. CASE Clear
  <2>1. version \in 1 .. MaxVersion BY <1>4, ApiHistoryAssumption DEF Clear
  <2>2. \A v \in 1 .. MaxVersion : WellFormed(frozen'[v])
    BY <1>4, NoFilesIsWellFormed DEF Clear
  <2> QED BY <1>4, <2>1, <2>2 DEF Clear
<1>5. CASE List
  <2>1. version = Len(versions) + 1 /\ version \in 1 .. MaxVersion
    BY <1>5, ApiHistoryAssumption DEF List
  <2>2. versions' = Append(versions, version) BY <1>5 DEF List
  <2>3. /\ versions' \in Seq(Nat) /\ Len(versions') = Len(versions) + 1
        /\ \A i \in 1 .. Len(versions') : versions'[i] = i
    BY <2>1, <2>2
  <2>4. DOMAIN frozen'[version'] \subseteq DOMAIN dump'
    BY <1>5 DEF List, NoFiles
  <2> QED BY <1>5, <2>1, <2>3, <2>4 DEF List
<1>6. ASSUME NEW t \in DOMAIN dump, CopyFile(t) PROVE FreezeInv'
  <2> DEFINE files == [u \in DOMAIN frozen[version] \cup {t} |-> dump[u]]
  <2>1. version \in 1 .. MaxVersion /\ frozen' = [frozen EXCEPT ![version] = files]
    BY <1>6 DEF CopyFile
  <2>2. WellFormed(files) BY <1>6, <2>1, CopyIsWellFormed DEF CopyFile
  <2>3. DOMAIN files \subseteq DOMAIN dump BY <1>6 DEF CopyFile
  <2> HIDE DEF files
  <2>4. \A v \in 1 .. MaxVersion : WellFormed(frozen'[v]) BY <2>1, <2>2
  <2> QED BY <1>6, <2>1, <2>3, <2>4 DEF CopyFile, freeze
<1>7. CASE Touch BY <1>7, NoFilesIsWellFormed DEF Touch, EndFreeze
<1>8. CASE Interrupt BY <1>8, NoFilesIsWellFormed DEF Interrupt, EndFreeze
<1>9. CASE Build BY <1>9 DEF Build, freeze
<1>10. CASE UNCHANGED vars BY <1>10 DEF vars, freeze
<1> QED BY <1>1, <1>2, <1>3, <1>4, <1>5, <1>6, <1>7, <1>8, <1>9, <1>10 DEF Next

\* Every step keeps what was shipped in place and compatible.
LEMMA ShippedInvStep ==
  ASSUME IInv, FreezeInv', [Next]_vars PROVE ShippedInv'
<1> USE DEF IInv
<1>1. ASSUME UNCHANGED <<versions, frozen, shipped, tip>>,
             step' = "copy" => step = "copy" /\ version' = version
      PROVE  ShippedInv'
  BY <1>1 DEF ShippedInv
<1>2. ASSUME NEW api \in Source, Edit(api) PROVE ShippedInv'
  BY <1>1, <1>2 DEF Edit, freeze
<1>3. CASE Release BY <1>1, <1>3 DEF Release, freeze
<1>4. CASE DumpApi BY <1>1, <1>4 DEF DumpApi
<1>5. CASE Clear
  <2>1. \A s \in shipped : s[1] # version /\ step' # "copy"
    BY <1>5 DEF Clear, ShippedInv, FreezeInv
  <2>2. \A s \in shipped : frozen'[s[1]] = frozen[s[1]]
    BY <1>5, <2>1 DEF Clear, FreezeInv, ShippedInv
  <2> QED BY <1>5, <2>1, <2>2 DEF Clear, ShippedInv
<1>6. CASE List
  <2>1. version = Len(versions) + 1 BY <1>6 DEF List, FreezeInv
  <2>2. Len(versions') = Len(versions) + 1 BY <1>6 DEF List, FreezeInv
  <2>3. Len(versions) \in Nat BY DEF FreezeInv
  <2>4. ASSUME NEW s \in shipped
        PROVE  s[1] \in 1 .. Len(versions') /\ s[1] # version'
    BY <1>6, <2>1, <2>2, <2>3, <2>4 DEF List, ShippedInv
  <2> QED BY <1>6, <2>4 DEF List, ShippedInv
<1>7. ASSUME NEW t \in DOMAIN dump, CopyFile(t) PROVE ShippedInv'
  <2>1. \A s \in shipped : s[1] # version
    BY <1>7 DEF CopyFile, ShippedInv
  <2>2. \A s \in shipped : frozen'[s[1]] = frozen[s[1]]
    BY <1>7, <2>1 DEF CopyFile, FreezeInv, ShippedInv
  <2> QED BY <1>7, <2>1, <2>2 DEF CopyFile, freeze, ShippedInv
<1>8. CASE Touch BY <1>1, <1>8 DEF Touch, EndFreeze
<1>9. CASE Interrupt BY <1>1, <1>9 DEF Interrupt, EndFreeze
<1>10. CASE Build
  <2>1. /\ shipped' = shipped \cup {<<versions[i], frozen[versions[i]]>> : i \in DOMAIN versions}
        /\ tip' = source /\ ChecksPass /\ Valid(source)
        /\ UNCHANGED <<versions, frozen, step, version>> /\ step = "idle"
    BY <1>10 DEF Build, freeze
  <2>2. ASSUME NEW s \in shipped'
        PROVE  s = <<s[1], frozen[s[1]]>> /\ s[1] \in 1 .. Len(versions)
    <3>1. CASE s \in shipped BY <3>1 DEF ShippedInv
    <3>2. CASE s \notin shipped
      <4>1. PICK i \in DOMAIN versions : s = <<versions[i], frozen[versions[i]]>>
        BY <2>1, <3>2
      <4>2. i \in 1 .. Len(versions) /\ versions[i] = i BY DEF FreezeInv
      <4> QED BY <4>1, <4>2
    <3> QED BY <3>1, <3>2
  <2>3. CASE versions = <<>>
    <3>1. Len(versions) = 0 BY <2>3
    <3>2. shipped' = {} BY <2>2, <3>1
    <3> QED BY <3>2 DEF ShippedInv
  <2>4. CASE versions # <<>>
    <3>1. /\ \A i \in 1 .. Len(versions) :
               /\ DOMAIN frozen[i] # {}
               /\ Loads(frozen[i])
               /\ Compatible(frozen[i], DumpOf(source))
          /\ \A i, j \in 1 .. Len(versions) : i <= j => Compatible(frozen[i], frozen[j])
      BY <2>1, <2>4, ChecksCertify
    <3>2. ASSUME NEW s \in shipped'
          PROVE  /\ s[2] = frozen[s[1]] /\ DOMAIN s[2] # {} /\ Loads(s[2])
                 /\ Compatible(s[2], DumpOf(tip'))
      <4>1. s[2] = frozen[s[1]] /\ s[1] \in 1 .. Len(versions) BY <2>2
      <4> QED BY <4>1, <3>1, <2>1
    <3>3. ASSUME NEW s \in shipped', NEW t \in shipped', s[1] <= t[1]
          PROVE  Compatible(s[2], t[2])
      <4>1. s[1] \in 1 .. Len(versions) /\ t[1] \in 1 .. Len(versions) BY <2>2
      <4>2. Compatible(frozen[s[1]], frozen[t[1]]) BY <3>1, <3>3, <4>1
      <4> QED BY <3>2, <4>2
    <3>4. tip' \in Source /\ Loads(tip') BY <2>1 DEF FreezeInv, Valid
    <3> QED BY <2>1, <2>2, <3>2, <3>3, <3>4 DEF ShippedInv
  <2> QED BY <2>3, <2>4
<1>11. CASE UNCHANGED vars BY <1>1, <1>11 DEF vars, freeze
<1> QED BY <1>2, <1>3, <1>4, <1>5, <1>6, <1>7, <1>8, <1>9, <1>10, <1>11 DEF Next

LEMMA IInvStep == IInv /\ [Next]_vars => IInv'
BY FreezeInvStep, ShippedInvStep DEF IInv

\* IInv is an inductive invariant of the history.
THEOREM Invariance == Spec => []IInv
BY InitIInv, IInvStep, PTL DEF Spec

-----------------------------------------------------------------------------
(* The theorems, for any source and any number of versions.                *)

\* Whatever is frozen in whatever order, versions that ever passed a build
\* interoperate on the wire.
THEOREM ShippedVersionsInteroperateAlways == Spec => []ShippedVersionsInteroperate
<1>1. IInv => ShippedVersionsInteroperate
  <2> SUFFICES ASSUME IInv, NEW s \in shipped, NEW t \in shipped, s[1] <= t[1]
               PROVE  WireCompatible(s[2], t[2])
    BY DEF ShippedVersionsInteroperate
  <2>1. Compatible(s[2], t[2]) /\ Loads(t[2]) BY DEF IInv, ShippedInv
  <2>2. WellFormed(s[2]) /\ WellFormed(t[2])
    <3>1. /\ s[2] = frozen[s[1]] /\ t[2] = frozen[t[1]]
          /\ s[1] \in 1 .. MaxVersion /\ t[1] \in 1 .. MaxVersion
      <4>1. /\ s = <<s[1], frozen[s[1]]>> /\ s[1] \in 1 .. Len(versions)
            /\ t = <<t[1], frozen[t[1]]>> /\ t[1] \in 1 .. Len(versions)
        BY DEF IInv, ShippedInv
      <4>2. Len(versions) \in Nat /\ Len(versions) <= MaxVersion /\ MaxVersion \in Nat
        BY ApiHistoryAssumption DEF IInv, FreezeInv
      <4> QED BY <4>1, <4>2
    <3> QED BY <3>1 DEF IInv, FreezeInv
  <2> QED BY <2>1, <2>2, CompatibleIsWireCompatible
<1> QED BY <1>1, Invariance, PTL

\* The source the last build compiled interoperates with every version that
\* was shipped before it.
THEOREM TipInteroperatesAlways == Spec => []TipInteroperates
<1>1. IInv => TipInteroperates
  <2> SUFFICES ASSUME IInv, NEW s \in shipped PROVE WireCompatible(s[2], tip)
    BY DEF TipInteroperates
  <2>1. Compatible(s[2], DumpOf(tip)) /\ tip \in Source /\ Loads(tip)
    BY DEF IInv, ShippedInv
  <2>2. WellFormed(s[2])
    <3>1. s = <<s[1], frozen[s[1]]>> /\ s[1] \in 1 .. Len(versions)
      BY DEF IInv, ShippedInv
    <3>2. Len(versions) \in Nat /\ Len(versions) <= MaxVersion /\ MaxVersion \in Nat
      BY ApiHistoryAssumption DEF IInv, FreezeInv
    <3>3. s[2] = frozen[s[1]] /\ s[1] \in 1 .. MaxVersion BY <3>1, <3>2
    <3> QED BY <3>3 DEF IInv, FreezeInv
  <2>3. WellFormed(DumpOf(tip)) /\ Loads(DumpOf(tip)) BY <2>1, DumpIsWellFormed
  <2>4. WireCompatible(s[2], DumpOf(tip))
    BY <2>1, <2>2, <2>3, CompatibleIsWireCompatible
  <2> QED BY <2>1, <2>4, DumpKeepsTheWire
<1> QED BY <1>1, Invariance, PTL

\* No freeze, interrupted or not, writes a version that was shipped.
THEOREM ShippedIsImmutableAlways == Spec => []ShippedIsImmutable
<1>1. IInv => ShippedIsImmutable
  BY DEF IInv, ShippedInv, ShippedIsImmutable
<1> QED BY <1>1, Invariance, PTL

\* A version whose freeze was cut off before its first file is never shipped.
THEOREM NothingEmptyIsShippedAlways == Spec => []NothingEmptyIsShipped
<1>1. IInv => NothingEmptyIsShipped
  BY DEF IInv, ShippedInv, NothingEmptyIsShipped
<1> QED BY <1>1, Invariance, PTL

\* Between freezes no version is being written.
RestInv ==
  /\ released \in BOOLEAN
  /\ step = "idle" => version = 0

\* Every variable keeps its type, and the listed versions count up from 1.
THEOREM TypeOKAlways == Spec => []TypeOK
<1>1. Init => RestInv
  BY DEF Init, RestInv
<1>2. RestInv /\ [Next]_vars => RestInv'
  BY DEF RestInv, Next, vars, freeze, Edit, Release, DumpApi, Clear, List,
         CopyFile, Touch, Interrupt, EndFreeze, Build
<1>3. IInv /\ RestInv => TypeOK
  <2> SUFFICES ASSUME IInv, RestInv
               PROVE  TypeOK
    OBVIOUS
  <2> USE DEF IInv, FreezeInv, RestInv
  <2>1. Len(versions) \in Nat /\ MaxVersion \in Nat
    BY ApiHistoryAssumption
  <2>2. versions \in Seq(1 .. MaxVersion)
    <3>1. \A i \in DOMAIN versions : versions[i] \in 1 .. MaxVersion
      BY <2>1
    <3>2. versions \in [1 .. Len(versions) -> 1 .. MaxVersion]
      BY <3>1
    <3> QED BY <2>1, <3>2 DEF Seq
  <2>3. CurrentVersion = Len(versions) + 1
    BY DEF CurrentVersion
  <2>4. version \in 0 .. MaxVersion
    BY <2>1
  <2>5. step = "copy" => versions # <<>>
    BY <2>1
  <2>6. /\ \A i \in DOMAIN versions : versions[i] = i
        /\ DOMAIN frozen = 1 .. MaxVersion
    OBVIOUS
  <2> QED BY <2>2, <2>3, <2>4, <2>5, <2>6 DEF TypeOK
<1> QED BY <1>1, <1>2, <1>3, Invariance, PTL DEF Spec
==============================================================================
