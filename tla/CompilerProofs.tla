---------------------------- MODULE CompilerProofs ----------------------------
(***************************************************************************)
(* What a run of the compiler leaves on disk, for any documents, any       *)
(* options and arguments, and whatever write fails.                        *)
(***************************************************************************)
EXTENDS Compiler, CommandLineProofs

-----------------------------------------------------------------------------
(* The inductive invariant.                                                *)

Generating == Task \in {"COMPILE", "DUMP_API"}

\* What options leave before the arguments are read.
Sensible(s) ==
  /\ s.language \in Languages /\ (s.langFound \/ s.language \in {<<"JAVA">>, <<"CPP">>})
  /\ s.task = "DUMP_MAPPINGS" => s.outputFile # <<>>
  /\ prog = "aidl-cpp" => s.task # "CHECK_API"
  /\ s.inputs = <<>>

\* What accepted options ensure.
Ready ==
  /\ ~o.error /\ o.inputs # <<>>
  /\ nextInput <= Len(o.inputs) + 1
  /\ o.task = "DUMP_API" => o.outputDir # <<>>
  /\ Task = "COMPILE" => o.outputDir # <<>> \/ o.outputFile # <<>>

OptionsInv ==
  /\ prog \in Programs
  /\ phase \in {"options", "load", "write", "list", "exited", "died"}
  /\ exit \in {-1, 0, 1} /\ (exit = -1 <=> phase # "exited")
  /\ given \in Seq(OptionWith(Path))
  /\ o \in Settings(Path) /\ o.language \in Languages
  /\ prog = "aidl-cpp" => o.task # "CHECK_API"
  /\ nextInput \in Nat \ {0} /\ nextType \in Nat \ {0} /\ nextFile \in Nat \ {0}
  /\ phase = "options" =>
       /\ ~o.error /\ Sensible(o) /\ o = ReadAll(ProgramDefaults, given)
       /\ disk = <<>> /\ nextInput = 1
  /\ phase \notin {"options", "exited"} => Ready
  /\ phase = "write" => Generating /\ nextInput <= Len(o.inputs)
  /\ phase = "list" => Task = "PREPROCESS"
  /\ Succeeded => Ready /\ nextInput = Len(o.inputs) + 1

\* The files that come before the one to write.
Passed(p, n) ==
  \/ p[1] < nextInput
  \/ /\ phase = "write" /\ p[1] = nextInput
     /\ p[2] < nextType \/ (p[2] = nextType /\ n < nextFile)

GoingWell == phase \in {"load", "write"} \/ Succeeded

\* Every input that files were written for was accepted.
AcceptedInv ==
  Generating /\ GoingWell =>
    \A i \in DOMAIN o.inputs :
      i < nextInput \/ (phase = "write" /\ i = nextInput) =>
        Accepted(Document(o.inputs[i]))

\* Every file whose writing is looked at, and that was to be written, is there.
DoneInv ==
  Generating /\ GoingWell =>
    \A p \in Places : \A n \in DOMAIN Files(TypeAt(p)) :
      Passed(p, n) /\ Files(TypeAt(p))[n].check \in {"close", "abort"} =>
        /\ Files(TypeAt(p))[n].path \in DOMAIN disk
        /\ Whole(Files(TypeAt(p))[n]) \/ Shared(Files(TypeAt(p))[n])

\* Nothing else is on disk.
OriginInv ==
  phase \in {"load", "write"} /\ Generating =>
    \A path \in DOMAIN disk :
      \E p \in Places : \E n \in DOMAIN Files(TypeAt(p)) :
        /\ Passed(p, n)
        /\ Files(TypeAt(p))[n].path = path
        /\ Files(TypeAt(p))[n].of = disk[path].of
        /\ Files(TypeAt(p))[n].type = disk[path].type

Native == {"source", "RAW", "CLIENT", "SERVER", "#error"}
NativeInv ==
  phase # "died" /\ IsCppOutput(o) =>
    \A path \in DOMAIN disk : disk[path].of \in Native => disk[path].whole

DiskInv == AcceptedInv /\ DoneInv /\ OriginInv /\ NativeInv /\ SourceComesLast
IInv == OptionsInv /\ DiskInv

-----------------------------------------------------------------------------
(* What it takes for a document to be accepted.                            *)

LEMMA LeastIsIn ==
  ASSUME NEW S \in SUBSET Nat, S # {}
  PROVE  Min(S) \in S
<1>1. PICK m \in S : \A k \in S : ~(<<k, m>> \in OpToRel(<, Nat))
  BY WFMin, NatLessThanWellFounded
<1>2. \A k \in S : m <= k
  <2>1. \A k \in S : ~(k < m) /\ k \in Nat /\ m \in Nat
    BY <1>1 DEF OpToRel
  <2> QED BY <2>1
<1> QED BY <1>2 DEF Min

LEMMA NoErrorAtAll ==
  ASSUME NEW n \in Nat, NEW errors, DOMAIN errors = 1 .. n, FirstError(errors) = "OK"
  PROVE  \A i \in 1 .. n : errors[i] = "OK"
<1> DEFINE bad == {i \in DOMAIN errors : errors[i] # "OK"}
<1>1. bad \in SUBSET Nat
  OBVIOUS
<1>2. ASSUME bad # {} PROVE FALSE
  <2>1. Min(bad) \in bad
    <3> HIDE DEF bad
    <3> QED BY <1>1, <1>2, LeastIsIn
  <2>2. FirstError(errors) = errors[Min(bad)]
    BY <1>2 DEF FirstError
  <2> QED BY <2>1, <2>2
<1> QED BY <1>2

LEMMA ErrorIsOneOfThem ==
  ASSUME NEW n \in Nat, NEW errors, DOMAIN errors = 1 .. n,
         NEW E, "OK" \in E, \A i \in 1 .. n : errors[i] \in E
  PROVE  FirstError(errors) \in E
<1> DEFINE bad == {i \in DOMAIN errors : errors[i] # "OK"}
<1>1. bad \in SUBSET Nat /\ \A i \in bad : i \in 1 .. n
  OBVIOUS
<1>2. bad # {} => Min(bad) \in bad
  <2> HIDE DEF bad
  <2> QED BY <1>1, LeastIsIn
<1>3. FirstError(errors) = IF bad = {} THEN "OK" ELSE errors[Min(bad)]
  BY DEF FirstError
<1> HIDE DEF bad
<1> QED BY <1>1, <1>2, <1>3

LEMMA TwoChecks ==
  ASSUME NEW a, NEW b, FirstError(<<a, b>>) = "OK"
  PROVE  a = "OK" /\ b = "OK"
<1> DEFINE s == <<a, b>>
<1>1. DOMAIN s = 1 .. 2 /\ s[1] = a /\ s[2] = b
  OBVIOUS
<1> HIDE DEF s
<1>2. \A i \in 1 .. 2 : s[i] = "OK"
  BY <1>1, NoErrorAtAll DEF s
<1> QED BY <1>1, <1>2

LEMMA ThreeChecks ==
  ASSUME NEW a, NEW b, NEW c, FirstError(<<a, b, c>>) = "OK"
  PROVE  a = "OK" /\ b = "OK" /\ c = "OK"
<1> DEFINE s == <<a, b, c>>
<1>1. DOMAIN s = 1 .. 3 /\ s[1] = a /\ s[2] = b /\ s[3] = c
  OBVIOUS
<1> HIDE DEF s
<1>2. \A i \in 1 .. 3 : s[i] = "OK"
  BY <1>1, NoErrorAtAll DEF s
<1> QED BY <1>1, <1>2

LEMMA SevenChecks ==
  ASSUME NEW a, NEW b, NEW c, NEW d, NEW e, NEW f, NEW g,
         FirstError(<<a, b, c, d, e, f, g>>) = "OK"
  PROVE  a = "OK" /\ b = "OK" /\ c = "OK" /\ d = "OK" /\ e = "OK" /\ f = "OK" /\ g = "OK"
<1> DEFINE s == <<a, b, c, d, e, f, g>>
<1>1. /\ DOMAIN s = 1 .. 7
      /\ s[1] = a /\ s[2] = b /\ s[3] = c /\ s[4] = d /\ s[5] = e /\ s[6] = f /\ s[7] = g
  OBVIOUS
<1> HIDE DEF s
<1>2. \A i \in 1 .. 7 : s[i] = "OK"
  BY <1>1, NoErrorAtAll DEF s
<1> QED BY <1>1, <1>2

\* FOUND_PARCELABLE is none of the errors.
AnError ==
  {"OK", "PARSE_ERROR", "BAD_TYPE", "BAD_PRE_PROCESSED_FILE", "BAD_IMPORT",
   "NOT_STRUCTURED", "BAD_PACKAGE", "BAD_METHOD_ID"}

LEMMA OKIsOne == "OK" \in AnError
  BY DEF AnError

LEMMA DocumentErrors ==
  ASSUME NEW doc
  PROVE  DocumentError(doc) \in AnError
<1> DEFINE s == <<
    Check("syntax" \in doc.faults, "PARSE_ERROR"),
    Check("duplicate" \in doc.faults, "BAD_TYPE"),
    Check(Range(o.preprocessed) \cap Malformed # {}, "BAD_PRE_PROCESSED_FILE"),
    Check("reimport" \in doc.faults, "BAD_TYPE"),
    Check("import" \in doc.faults, "BAD_IMPORT"),
    Check(o.importFiles \cap Malformed # {}, "BAD_IMPORT"),
    Check(o.task # "CHECK_API" /\ "unresolved" \in doc.faults, "BAD_TYPE") >>
<1>1. DOMAIN s = 1 .. 7
  OBVIOUS
<1>2. \A i \in 1 .. 7 : s[i] \in AnError
  BY DEF Check, AnError
<1>3. DocumentError(doc) = FirstError(s)
  BY DEF DocumentError
<1> HIDE DEF s
<1> QED BY <1>1, <1>2, <1>3, OKIsOne, ErrorIsOneOfThem

LEMMA TypeErrors ==
  ASSUME NEW doc, NEW t
  PROVE  TypeError(doc, t) \in AnError
<1>1. CASE t.kind = "parcelable"
  <2> DEFINE s == << Check("invalid" \in t.faults, "BAD_TYPE"),
                     Check(o.structured /\ ~t.stable, "NOT_STRUCTURED") >>
  <2>1. DOMAIN s = 1 .. 2
    OBVIOUS
  <2>2. \A i \in 1 .. 2 : s[i] \in AnError
    BY DEF Check, AnError
  <2>3. TypeError(doc, t) = FirstError(s)
    BY <1>1 DEF TypeError
  <2> HIDE DEF s
  <2> QED BY <2>1, <2>2, <2>3, OKIsOne, ErrorIsOneOfThem
<1>2. CASE t.kind # "parcelable"
  <2> DEFINE s == << Check(Len(doc.types) = 1 /\ "package" \in t.faults, "BAD_PACKAGE"),
                     Check(o.task # "CHECK_API" /\ "invalid" \in t.faults, "BAD_TYPE"),
                     Check(t.kind = "interface" /\ "ids" \in t.faults, "BAD_METHOD_ID") >>
  <2>1. DOMAIN s = 1 .. 3
    OBVIOUS
  <2>2. \A i \in 1 .. 3 : s[i] \in AnError
    BY DEF Check, AnError
  <2>3. TypeError(doc, t) = FirstError(s)
    BY <1>2 DEF TypeError
  <2> HIDE DEF s
  <2> QED BY <2>1, <2>2, <2>3, OKIsOne, ErrorIsOneOfThem
<1> QED BY <1>1, <1>2

LEMMA Errors ==
  ASSUME NEW doc \in AidlDocument
  PROVE  Error(doc) \in AnError
<1> DEFINE n == Len(doc.types)
           errors == [k \in DOMAIN doc.types |-> TypeError(doc, doc.types[k])]
           last == Check(o.structured /\ "unstructured import" \in doc.faults, "NOT_STRUCTURED")
           s == << DocumentError(doc), FirstError(errors), last >>
<1>1. FirstError(errors) \in AnError
  <2>1. n \in Nat /\ DOMAIN errors = 1 .. n
    BY DEF AidlDocument
  <2>2. \A k \in 1 .. n : errors[k] \in AnError
    BY <2>1, TypeErrors
  <2> HIDE DEF n, errors
  <2> QED BY <2>1, <2>2, OKIsOne, ErrorIsOneOfThem
<1>2. last \in AnError
  BY DEF Check, AnError
<1>3. DOMAIN s = 1 .. 3 /\ s[1] = DocumentError(doc) /\ s[2] = FirstError(errors) /\ s[3] = last
  OBVIOUS
<1>4. Error(doc) = FirstError(s)
  BY DEF Error
<1> HIDE DEF s, last, errors
<1>5. \A i \in 1 .. 3 : s[i] \in AnError
  BY <1>1, <1>2, <1>3, DocumentErrors
<1> QED BY <1>3, <1>4, <1>5, OKIsOne, ErrorIsOneOfThem

\* Whatever load_and_validate_aidl lets pass has none of the faults it looks for.
LEMMA AcceptedMeansValid ==
  ASSUME o.task # "CHECK_API", NEW doc \in AidlDocument, Accepted(doc)
  PROVE  /\ Range(o.preprocessed) \cap Malformed = {}
         /\ doc.faults \subseteq (IF o.structured THEN {} ELSE {"unstructured import"})
         /\ \A t \in Range(doc.types) : Valid(doc, t)
<1> DEFINE n == Len(doc.types)
           errors == [k \in DOMAIN doc.types |-> TypeError(doc, doc.types[k])]
<1>0. doc.types \in Seq(DefinedType) /\ doc.faults \subseteq DocumentFault
  BY DEF AidlDocument
<1>1. n \in Nat /\ DOMAIN doc.types = 1 .. n
  BY <1>0
<1>2. Error(doc) = "OK"
  <2>1. Error(doc) # "FOUND_PARCELABLE"
    BY Errors DEF AnError
  <2> QED BY <2>1 DEF Accepted, Load
<1>3. /\ DocumentError(doc) = "OK" /\ FirstError(errors) = "OK"
      /\ Check(o.structured /\ "unstructured import" \in doc.faults, "NOT_STRUCTURED") = "OK"
  BY <1>2, ThreeChecks DEF Error
<1>4. \A k \in 1 .. n : TypeError(doc, doc.types[k]) = "OK"
  <2>1. DOMAIN errors = 1 .. n /\ \A k \in 1 .. n : errors[k] = TypeError(doc, doc.types[k])
    BY <1>1
  <2> HIDE DEF errors, n
  <2> QED BY <1>1, <1>3, <2>1, NoErrorAtAll
<1>5. /\ Range(o.preprocessed) \cap Malformed = {}
      /\ doc.faults \cap {"syntax", "duplicate", "reimport", "import", "unresolved"} = {}
  <2> DEFINE a == Check("syntax" \in doc.faults, "PARSE_ERROR")
             b == Check("duplicate" \in doc.faults, "BAD_TYPE")
             c == Check(Range(o.preprocessed) \cap Malformed # {}, "BAD_PRE_PROCESSED_FILE")
             d == Check("reimport" \in doc.faults, "BAD_TYPE")
             e == Check("import" \in doc.faults, "BAD_IMPORT")
             f == Check(o.importFiles \cap Malformed # {}, "BAD_IMPORT")
             g == Check(o.task # "CHECK_API" /\ "unresolved" \in doc.faults, "BAD_TYPE")
  <2>1. FirstError(<<a, b, c, d, e, f, g>>) = "OK"
    BY <1>3 DEF DocumentError
  <2> HIDE DEF a, b, c, d, e, f, g
  <2>2. a = "OK" /\ b = "OK" /\ c = "OK" /\ d = "OK" /\ e = "OK" /\ g = "OK"
    BY <2>1, SevenChecks
  <2> USE DEF a, b, c, d, e, g
  <2>3. "syntax" \notin doc.faults /\ "duplicate" \notin doc.faults
    BY <2>2 DEF Check
  <2>4. "reimport" \notin doc.faults /\ "import" \notin doc.faults
    BY <2>2 DEF Check
  <2>5. Range(o.preprocessed) \cap Malformed = {}
    BY <2>2 DEF Check
  <2>6. "unresolved" \notin doc.faults
    BY <2>2 DEF Check
  <2> HIDE DEF a, b, c, d, e, g
  <2> QED BY <2>3, <2>4, <2>5, <2>6
<1>6. doc.faults \subseteq (IF o.structured THEN {} ELSE {"unstructured import"})
  <2>1. ~(o.structured /\ "unstructured import" \in doc.faults)
    BY <1>3 DEF Check
  <2> QED BY <1>0, <1>5, <2>1 DEF DocumentFault
<1>7. ASSUME NEW t \in Range(doc.types) PROVE Valid(doc, t)
  <2>1. PICK k \in 1 .. n : t = doc.types[k]
    BY <1>1 DEF Range
  <2>2. TypeError(doc, t) = "OK"
    BY <1>4, <2>1
  <2>3. t \in DefinedType
    BY <1>0, <2>1, ElementOfSeq
  <2>4. /\ t.faults \subseteq TypeFault
        /\ "ids" \in t.faults => t.kind = "interface"
    BY <2>3 DEF DefinedType
  <2>5. CASE t.kind = "parcelable"
    <3>1. /\ Check("invalid" \in t.faults, "BAD_TYPE") = "OK"
          /\ Check(o.structured /\ ~t.stable, "NOT_STRUCTURED") = "OK"
      BY <2>2, <2>5, TwoChecks DEF TypeError
    <3>2. FoundParcelable(doc)
      BY <1>1, <2>1, <2>5 DEF FoundParcelable
    <3>3. Task = "COMPILE" /\ ~o.failOnParcelable
      BY <1>2, <3>2 DEF Accepted, Load
    <3> QED BY <2>5, <3>1, <3>3 DEF Valid, Check
  <2>6. CASE t.kind # "parcelable"
    <3>1. /\ Check(Len(doc.types) = 1 /\ "package" \in t.faults, "BAD_PACKAGE") = "OK"
          /\ Check(o.task # "CHECK_API" /\ "invalid" \in t.faults, "BAD_TYPE") = "OK"
          /\ Check(t.kind = "interface" /\ "ids" \in t.faults, "BAD_METHOD_ID") = "OK"
      BY <2>2, <2>6, ThreeChecks DEF TypeError
    <3>2. n > 1 \/ "package" \notin t.faults
      <4>1. ~(n = 1 /\ "package" \in t.faults)
        BY <3>1 DEF Check
      <4> HIDE DEF n
      <4>2. n >= 1
        BY <1>1, <2>1
      <4> QED BY <1>1, <4>1, <4>2
    <3>3. "invalid" \notin t.faults /\ (t.kind = "interface" => "ids" \notin t.faults)
      BY <3>1 DEF Check
    <3>4. t.faults \subseteq {"package"}
      <4>1. "ids" \notin t.faults
        BY <2>4, <3>3
      <4> QED BY <2>4, <3>3, <4>1 DEF TypeFault
    <3>5. t.faults \subseteq (IF Len(doc.types) > 1 THEN {"package"} ELSE {})
      BY <3>2, <3>4
    <3> QED BY <2>6, <3>5 DEF Valid
  <2> QED BY <2>5, <2>6
<1> QED BY <1>5, <1>6, <1>7

-----------------------------------------------------------------------------
(* The options.                                                            *)

LEMMA SinglePath ==
  ASSUME NEW name \in Names
  PROVE  <<name>> \in Path /\ <<name>> # <<>>
  BY DEF Path

LEMMA SomePaths == <<"JAVA">> \in Path /\ <<"CPP">> \in Path /\ <<>> \in Path
<1>1. "JAVA" \in Names /\ "CPP" \in Names
  BY CompilerAssumption
<1>2. <<>> \in Path
  BY DEF Path
<1> QED BY <1>1, <1>2, SinglePath

LEMMA ProgramDefaultsAreSettings ==
  /\ ProgramDefaults \in Settings(Path) /\ Sensible(ProgramDefaults)
  /\ ~ProgramDefaults.error
<1>1. <<>> \in Seq(Path)
  OBVIOUS
<1>2. ASSUME NEW language \in {<<"JAVA">>, <<"CPP">>}
      PROVE  /\ Defaults(language) \in Settings(Path) /\ Sensible(Defaults(language))
             /\ ~Defaults(language).error
  <2>1. Defaults(language) \in Settings(Path)
    BY <1>1, <1>2, SomePaths DEF Defaults, Settings, Tasks
  <2>2. Sensible(Defaults(language)) /\ ~Defaults(language).error
    BY <1>2 DEF Sensible, Defaults, Languages
  <2> QED BY <2>1, <2>2
<1> QED BY <1>2 DEF ProgramDefaults

LEMMA ApplyIsSensible ==
  ASSUME NEW s \in Settings(Path), Sensible(s), NEW p \in OptionWith(Path), Modelled(p),
         p.opt = "apimapping" => p.arg # <<>>
  PROVE  Sensible(Apply(s, p))
<1> DEFINE a == Apply(s, p)
<1>1. CASE p.opt = "lang"
  <2>1. a = SetLanguage(s, p.arg)
    BY <1>1, ZenonT(60) DEF Apply
  <2> QED BY <2>1 DEF Sensible, SetLanguage, Refused, Settings
<1>2. CASE p.opt \in {"preprocess", "dumpapi"}
  <2>1. \/ a = [s EXCEPT !.task = "PREPROCESS"]
        \/ a = [s EXCEPT !.task = "DUMP_API"]
    BY <1>2, ZenonT(60) DEF Apply
  <2> QED BY <2>1 DEF Sensible, Settings
<1>3. CASE p.opt = "checkapi"
  <2>1. a = [s EXCEPT !.task = "CHECK_API", !.structured = TRUE]
    BY <1>3, ZenonT(60) DEF Apply
  <2> QED BY <1>3, <2>1 DEF Sensible, Settings, Modelled
<1>4. CASE p.opt = "apimapping"
  <2>1. a = [s EXCEPT !.task = "DUMP_MAPPINGS", !.outputFile = p.arg]
    BY <1>4, ZenonT(60) DEF Apply
  <2> QED BY <1>4, <2>1 DEF Sensible, Settings
<1>5. CASE p.opt \notin TaskOptions
  <2>1. /\ a.language = s.language /\ a.langFound = s.langFound /\ a.task = s.task
        /\ a.outputFile = s.outputFile /\ a.inputs = s.inputs
    <3>1. CASE p.opt \notin Known
      BY <3>1, ZenonT(60) DEF Apply, Known
    <3>2. CASE p.opt = "version"
      <4>1. a = SetVersion(s, p.arg)
        BY <3>2, ZenonT(60) DEF Apply
      <4> QED BY <4>1 DEF SetVersion, Refused, Settings
    <3>3. CASE p.opt = "import"
      <4>1. a = [s EXCEPT !.importFiles = @ \cup {p.arg}]
        BY <3>3, ZenonT(60) DEF Apply
      <4> QED BY <4>1 DEF Settings
    <3>4. CASE p.opt = "preprocessed"
      <4>1. a = [s EXCEPT !.preprocessed = Append(@, p.arg)]
        BY <3>4, ZenonT(60) DEF Apply
      <4> QED BY <4>1 DEF Settings
    <3>5. CASE p.opt \in {"dep", "out", "header_out"}
      <4>1. \/ a = [s EXCEPT !.depFile = p.arg]
            \/ a = [s EXCEPT !.outputDir = p.arg]
            \/ a = [s EXCEPT !.headerDir = p.arg]
        BY <3>5, ZenonT(60) DEF Apply
      <4> QED BY <4>1 DEF Settings
    <3>6. CASE p.opt \in {"ninja", "structured"}
      <4>1. \/ a = [s EXCEPT !.ninja = TRUE]
            \/ a = [s EXCEPT !.structured = TRUE]
        BY <3>6, ZenonT(60) DEF Apply
      <4> QED BY <4>1 DEF Settings
    <3>7. CASE p.opt \in {"a", "b", "log"}
      <4>1. \/ a = [s EXCEPT !.autoDep = TRUE]
            \/ a = [s EXCEPT !.failOnParcelable = TRUE]
            \/ a = [s EXCEPT !.log = TRUE]
        BY <3>7, ZenonT(60) DEF Apply
      <4> QED BY <4>1 DEF Settings
    <3> QED BY <1>5, <3>1, <3>2, <3>3, <3>4, <3>5, <3>6, <3>7 DEF Known, TaskOptions
  <2> QED BY <2>1 DEF Sensible
<1> QED BY <1>1, <1>2, <1>3, <1>4, <1>5 DEF TaskOptions

LEMMA ReadIsSensible ==
  ASSUME NEW options \in Seq(OptionWith(Path)),
         \A i \in 1 .. Len(options) :
           /\ Modelled(options[i])
           /\ options[i].opt = "apimapping" => options[i].arg # <<>>
  PROVE  Sensible(ReadAll(ProgramDefaults, options))
<1> DEFINE Fine(s) == \A i \in 1 .. Len(s) :
             /\ Modelled(s[i])
             /\ s[i].opt = "apimapping" => s[i].arg # <<>>
           S == {n \in Nat : \A s \in Seq(OptionWith(Path)) :
                   Len(s) = n /\ Fine(s) => Sensible(ReadAll(ProgramDefaults, s))}
<1>1. 0 \in S
  <2>1. \A s \in Seq(OptionWith(Path)) : Len(s) = 0 => s = <<>>
    BY EmptySeq
  <2> QED BY <2>1, ReadNothing, ProgramDefaultsAreSettings
<1>2. ASSUME NEW n \in Nat, n \in S PROVE n + 1 \in S
  <2>1. ASSUME NEW s \in Seq(OptionWith(Path)), Len(s) = n + 1, Fine(s)
        PROVE  Sensible(ReadAll(ProgramDefaults, s))
    <3>1. s # <<>>
      BY <2>1
    <3>2. PICK t \in Seq(OptionWith(Path)), p \in OptionWith(Path) : s = Append(t, p)
      BY <3>1, SequenceEmptyOrAppend
    <3>3. /\ Len(t) = n /\ s[n + 1] = p
          /\ \A i \in 1 .. n : s[i] = t[i]
      BY <2>1, <3>2, AppendProperties
    <3>4. Fine(t) /\ Modelled(p) /\ (p.opt = "apimapping" => p.arg # <<>>)
      <4>1. n + 1 \in 1 .. Len(s) /\ \A i \in 1 .. n : i \in 1 .. Len(s)
        BY <2>1
      <4> QED BY <2>1, <3>3, <4>1
    <3>5. Sensible(ReadAll(ProgramDefaults, t))
      <4> HIDE DEF Fine
      <4> QED BY <1>2, <3>3, <3>4
    <3>6. ReadAll(ProgramDefaults, t) \in Settings(Path)
      BY ReadKeepsSettings, ProgramDefaultsAreSettings
    <3>7. ReadAll(ProgramDefaults, s) = Apply(ReadAll(ProgramDefaults, t), p)
      BY <3>2, ReadOneMore
    <3> QED BY <3>4, <3>5, <3>6, <3>7, ApplyIsSensible
  <2> QED BY <2>1
<1>3. \A n \in Nat : n \in S
  <2> HIDE DEF S
  <2> QED BY <1>1, <1>2, EveryNumber
<1> QED BY <1>3

LEMMA JavaNextToIsAPath ==
  ASSUME NEW s \in Path
  PROVE  JavaNextTo(s) \in Path /\ JavaNextTo(s) # <<>>
<1>1. "java" \in Names /\ "aidl.java" \in Names /\ s \in Seq(Names)
  BY CompilerAssumption DEF Path
<1>2. /\ Append(s, "java") \in Seq(Names) /\ Append(s, "java") # <<>>
      /\ Append(s, "aidl.java") \in Seq(Names) /\ Append(s, "aidl.java") # <<>>
  BY <1>1, AppendProperties
<1> QED BY <1>2 DEF JavaNextTo, Path

\* LegacyCpp, with its three paths.
WithPaths(s, inputs, dir, file) ==
  [s EXCEPT !.inputs = inputs, !.headerDir = dir, !.outputFile = file]

LEMMA ThreePaths ==
  ASSUME NEW s \in Settings(Path), NEW inputs \in Seq(Path), NEW dir \in Path, NEW file \in Path
  PROVE  /\ WithPaths(s, inputs, dir, file) \in Settings(Path)
         /\ WithPaths(s, inputs, dir, file).language = s.language
         /\ WithPaths(s, inputs, dir, file).task = s.task
         /\ WithPaths(s, inputs, dir, file).langFound = s.langFound
         /\ WithPaths(s, inputs, dir, file).inputs = inputs
         /\ WithPaths(s, inputs, dir, file).outputFile = file
<1> DEFINE u == [s EXCEPT !.inputs = inputs, !.headerDir = dir, !.outputFile = file]
<1>1. u \in Settings(Path)
  BY DEF Settings
<1>2. /\ u.language = s.language /\ u.task = s.task /\ u.langFound = s.langFound
      /\ u.inputs = inputs /\ u.outputFile = file
  BY DEF Settings
<1>3. WithPaths(s, inputs, dir, file) = u
  BY DEF WithPaths
<1> HIDE DEF u
<1> QED BY <1>1, <1>2, <1>3

\* Accepted or refused, the arguments leave the language and the task alone.
\* When they are accepted there is an input, and an output for everything.
LEMMA FinishedOptions ==
  ASSUME NEW s \in Settings(Path), Sensible(s), NEW args \in Seq(Path \ {<<>>})
  PROVE  /\ Finished(s, args) \in Settings(Path)
         /\ Finished(s, args).language = s.language
         /\ Finished(s, args).task = s.task
         /\ ~Finished(s, args).error =>
              /\ Finished(s, args).inputs # <<>>
              /\ s.task = "DUMP_API" => Finished(s, args).outputDir # <<>>
              /\ s.task # "CHECK_API" =>
                   \/ Finished(s, args).outputDir # <<>>
                   \/ Finished(s, args).outputFile # <<>>
<1> DEFINE u == Positional(s, args)
           n == Len(args)
<1>1. /\ n \in Nat /\ args \in Seq(Path)
      /\ \A i \in 1 .. n : /\ args[i] \in Path /\ args[i] # <<>>
                          /\ <<args[i]>> \in Seq(Path) /\ <<args[i]>> # <<>>
      /\ n >= 1 => args # <<>>
  <2>1. \A i \in 1 .. n : args[i] \in Path /\ args[i] # <<>>
    OBVIOUS
  <2>2. ASSUME NEW i \in 1 .. n
        PROVE  <<args[i]>> \in Seq(Path) /\ <<args[i]>> # <<>>
    <3> DEFINE a == args[i]
    <3>1. a \in Path
      BY <2>1
    <3> HIDE DEF a
    <3>2. <<a>> \in Seq(Path) /\ Len(<<a>>) = 1 /\ Len(<<>>) = 0
      BY <3>1
    <3> QED BY <3>2 DEF a
  <2>3. Len(<<>>) = 0
    OBVIOUS
  <2>4. n >= 1 => args # <<>>
    BY <2>3
  <2>5. args \in Seq(Path)
    OBVIOUS
  <2> QED BY <2>1, <2>2, <2>4, <2>5
<1>2. /\ u \in Settings(Path) /\ u.language = s.language /\ u.task = s.task
      /\ ~u.error =>
           /\ u.inputs # <<>>
           /\ s.task = "COMPILE" =>
                u.outputDir # <<>> \/ u.outputFile # <<>> \/ s.langFound
           /\ s.task \in {"PREPROCESS", "DUMP_MAPPINGS"} => u.outputFile # <<>>
           /\ u.langFound = s.langFound
  <2>1. CASE ~s.langFound /\ s.task = "COMPILE" /\ s.language = <<"JAVA">>
    <3>1. u = LegacyJava(s, args)
      BY <2>1 DEF Positional
    <3>2. CASE n = 1
      <4>0. args[1] \in Path /\ args # <<>>
        <5>1. 1 \in 1 .. n /\ n >= 1
          BY <3>2
        <5> HIDE DEF n
        <5> QED BY <1>1, <5>1
      <4>1. /\ JavaNextTo(args[1]) \in Path /\ JavaNextTo(args[1]) # <<>>
            /\ args # <<>>
        BY <4>0, JavaNextToIsAPath
      <4>2. u = [s EXCEPT !.inputs = args,
                          !.outputFile = IF s.outputDir = <<>> THEN JavaNextTo(args[1])
                                                               ELSE s.outputFile]
        BY <3>1, <3>2 DEF LegacyJava, Settings
      <4> QED BY <1>1, <2>1, <4>1, <4>2 DEF Settings
    <3>3. CASE n = 2
      <4>0. 1 \in 1 .. n /\ 2 \in 1 .. n
        BY <3>3
      <4>1. u = [s EXCEPT !.inputs = <<args[1]>>, !.outputFile = args[2]]
        BY <3>1, <3>3 DEF LegacyJava
      <4>2. /\ args[2] \in Path /\ args[2] # <<>>
            /\ <<args[1]>> \in Seq(Path) /\ <<args[1]>> # <<>>
        BY <1>1, <4>0
      <4> QED BY <2>1, <4>1, <4>2 DEF Settings
    <3>4. CASE n # 1 /\ n # 2
      <4>1. u = Refused(s)
        BY <3>1, <3>4 DEF LegacyJava
      <4> QED BY <4>1 DEF Refused, Settings
    <3> QED BY <3>2, <3>3, <3>4
  <2>2. CASE ~s.langFound /\ s.task = "COMPILE" /\ s.language # <<"JAVA">>
    <3>1. u = LegacyCpp(s, args)
      BY <2>2 DEF Positional
    <3>2. CASE n = 3
      <4>1. u = [s EXCEPT !.inputs = <<args[1]>>, !.headerDir = args[2],
                          !.outputFile = args[3]]
        BY <3>1, <3>2 DEF LegacyCpp
      <4>0. 1 \in 1 .. n /\ 2 \in 1 .. n /\ 3 \in 1 .. n
        BY <3>2
      <4>2. /\ args[2] \in Path /\ args[3] \in Path /\ args[3] # <<>>
            /\ <<args[1]>> \in Seq(Path) /\ <<args[1]>> # <<>>
        BY <1>1, <4>0
      <4> DEFINE inputs == <<args[1]>>
                 dir == args[2]
                 file == args[3]
      <4>3. /\ dir \in Path /\ file \in Path /\ file # <<>>
            /\ inputs \in Seq(Path) /\ inputs # <<>>
            /\ u = WithPaths(s, inputs, dir, file)
        BY <4>1, <4>2 DEF WithPaths
      <4> HIDE DEF inputs, dir, file, u
      <4>4. /\ u \in Settings(Path) /\ u.language = s.language /\ u.task = s.task
            /\ u.inputs = inputs /\ u.outputFile = file /\ u.langFound = s.langFound
        <5>1. s \in Settings(Path) /\ inputs \in Seq(Path) /\ dir \in Path /\ file \in Path
          BY <4>3
        <5>2. /\ WithPaths(s, inputs, dir, file) \in Settings(Path)
              /\ WithPaths(s, inputs, dir, file).language = s.language
              /\ WithPaths(s, inputs, dir, file).task = s.task
              /\ WithPaths(s, inputs, dir, file).langFound = s.langFound
              /\ WithPaths(s, inputs, dir, file).inputs = inputs
              /\ WithPaths(s, inputs, dir, file).outputFile = file
          BY <5>1, ThreePaths
        <5> QED BY <4>3, <5>2
      <4> QED BY <2>2, <4>3, <4>4
    <3>3. CASE n # 3
      <4>1. u = Refused(s)
        BY <3>1, <3>3 DEF LegacyCpp
      <4> QED BY <4>1 DEF Refused, Settings
    <3> QED BY <3>2, <3>3
  <2>3. CASE s.langFound \/ s.task # "COMPILE"
    <3>1. u = NewFormat(s, args)
      BY <2>3 DEF Positional
    <3>2. CASE s.task \in {"COMPILE", "DUMP_API", "CHECK_API", "DUMP_MAPPINGS"}
      <4>1. u = Refused(s) \/ (n >= 1 /\ u = [s EXCEPT !.inputs = args])
        BY <1>1, <3>1, <3>2 DEF NewFormat
      <4>2. n >= 1 => args # <<>>
        BY <1>1
      <4> QED BY <1>1, <2>3, <3>2, <4>1, <4>2 DEF Refused, Settings, Sensible
    <3>3. CASE s.task = "PREPROCESS"
      <4>1. u = Refused(s)
            \/ (n >= 2 /\ u = [s EXCEPT !.outputFile = Head(args), !.inputs = Tail(args)])
        BY <1>1, <3>1, <3>3 DEF NewFormat
      <4>2. n >= 2 => /\ Head(args) \in Path /\ Head(args) # <<>>
                      /\ Tail(args) \in Seq(Path) /\ Tail(args) # <<>>
        <5> SUFFICES ASSUME n >= 2
                     PROVE  /\ Head(args) \in Path /\ Head(args) # <<>>
                            /\ Tail(args) \in Seq(Path) /\ Tail(args) # <<>>
          OBVIOUS
        <5>1. Head(args) = args[1] /\ args # <<>>
          BY <1>1
        <5>2. Tail(args) \in Seq(Path \ {<<>>}) /\ Len(Tail(args)) = n - 1
          BY <5>1, HeadTailProperties
        <5>3. Tail(args) # <<>>
          <6> DEFINE rest == Tail(args)
          <6>1. rest \in Seq(Path \ {<<>>}) /\ Len(rest) # 0
            BY <1>1, <5>2
          <6> HIDE DEF rest
          <6>2. rest # <<>>
            BY <6>1, EmptySeq
          <6> QED BY <6>2 DEF rest
        <5>4. Tail(args) \in Seq(Path)
          BY <5>2
        <5> QED BY <1>1, <5>1, <5>3, <5>4
      <4> QED BY <3>3, <4>1, <4>2 DEF Refused, Settings
    <3> QED BY <3>2, <3>3 DEF Settings, Tasks
  <2> QED BY <2>1, <2>2, <2>3
<1>3. Finished(s, args) = IF u.error \/ Invalid(u) THEN Refused(u) ELSE u
  BY DEF Finished
<1> HIDE DEF u
<1>4. CASE u.error \/ Invalid(u)
  BY <1>2, <1>3, <1>4 DEF Refused, Settings
<1>5. CASE ~(u.error \/ Invalid(u))
  <2>1. u.langFound /\ u.task = "COMPILE" => u.outputDir # <<>>
    BY <1>5 DEF Invalid, InvalidDirs
  <2>2. u.task = "DUMP_API" => u.outputDir # <<>>
    BY <1>5 DEF Invalid
  <2>3. s.task \in Tasks
    BY DEF Settings
  <2>4. Finished(s, args) = u /\ ~u.error
    BY <1>3, <1>5
  <2>5. s.task # "CHECK_API" => u.outputDir # <<>> \/ u.outputFile # <<>>
    <3>1. u.langFound = s.langFound /\ u.task = s.task
      BY <1>2, <2>4
    <3>2. CASE s.task = "COMPILE"
      <4>1. u.outputDir # <<>> \/ u.outputFile # <<>> \/ s.langFound
        BY <1>2, <2>4, <3>2
      <4> QED BY <2>1, <3>1, <3>2, <4>1
    <3>3. CASE s.task = "PREPROCESS"
      BY <1>2, <2>4, <3>3
    <3>4. CASE s.task = "DUMP_MAPPINGS"
      BY <1>2, <2>4, <3>4
    <3>5. CASE s.task = "DUMP_API"
      BY <2>2, <3>1, <3>5
    <3> QED BY <2>3, <3>2, <3>3, <3>4, <3>5 DEF Tasks
  <2> QED BY <1>2, <2>2, <2>4, <2>5
<1> QED BY <1>4, <1>5

LEMMA InputsAreCounted ==
  ASSUME OptionsInv
  PROVE  /\ o.inputs \in Seq(Path) /\ Len(o.inputs) \in Nat
         /\ DOMAIN o.inputs = 1 .. Len(o.inputs)
         /\ \A i \in DOMAIN o.inputs : o.inputs[i] \in Path
<1>1. o.inputs \in Seq(Path)
  BY DEF OptionsInv, Settings
<1> QED BY <1>1, LenProperties, ElementOfSeq

LEMMA OptionsInit ==
  ASSUME Init PROVE OptionsInv
<1>1. given \in Seq(OptionWith(Path))
  BY CompilerAssumption DEF Init
<1>2. \A i \in 1 .. Len(given) :
        Modelled(given[i]) /\ (given[i].opt = "apimapping" => given[i].arg # <<>>)
  <2>1. DOMAIN given = 1 .. Len(given) /\ given \in Beginnings
    BY <1>1 DEF Init
  <2>2. \A i \in 1 .. Len(given) : given[i] \in UNION {Range(s) : s \in Beginnings}
    BY <2>1 DEF Range
  <2>3. \A i \in 1 .. Len(given) : Modelled(given[i])
    BY <2>1 DEF Init
  <2> QED BY <2>2, <2>3, CompilerAssumption
<1>3. o \in Settings(Path) /\ Sensible(o)
  BY <1>1, <1>2, ReadIsSensible, ReadKeepsSettings, ProgramDefaultsAreSettings DEF Init
<1>4. ~Succeeded
  BY DEF Init, Succeeded
<1> QED BY <1>1, <1>3, <1>4 DEF Init, OptionsInv, Sensible

\* A step past the options leaves them alone.
Onward ==
  /\ UNCHANGED <<prog, given, o>>
  /\ nextInput' \in {nextInput, nextInput + 1}
  /\ nextType' \in Nat \ {0} /\ nextFile' \in Nat \ {0}

LEMMA OptionsOnward ==
  ASSUME OptionsInv, phase \notin {"options", "exited", "died"}, Onward,
         phase' \in {"load", "write", "list", "exited", "died"},
         exit' \in {-1, 0, 1}, exit' = -1 <=> phase' # "exited",
         nextInput' <= Len(o.inputs) + 1,
         phase' = "write" => Generating /\ nextInput' <= Len(o.inputs),
         phase' = "list" => Task = "PREPROCESS",
         phase' = "exited" /\ exit' = 0 /\ Generating => nextInput' = Len(o.inputs) + 1
  PROVE  OptionsInv'
<1>1. Task' = Task
  BY DEF Onward, Task
<1>2. Generating' <=> Generating
  BY <1>1 DEF Generating
<1>3. Ready'
  BY <1>1 DEF Ready, OptionsInv, Onward
<1>4. Succeeded' => nextInput' = Len(o.inputs) + 1
  BY <1>1 DEF Succeeded, Generating
<1> QED BY <1>1, <1>2, <1>3, <1>4 DEF OptionsInv, Onward

LEMMA OptionsStep ==
  ASSUME OptionsInv, [Next]_vars
  PROVE  OptionsInv'
<1>0. /\ Len(o.inputs) \in Nat /\ nextInput \in Nat \ {0}
      /\ nextType \in Nat \ {0} /\ nextFile \in Nat \ {0}
  BY InputsAreCounted DEF OptionsInv
<1>00. /\ phase \notin {"options", "exited"} => nextInput <= Len(o.inputs) + 1
       /\ phase = "write" => Generating /\ nextInput <= Len(o.inputs)
       /\ phase = "list" => Task = "PREPROCESS"
       /\ phase # "exited" <=> exit = -1
  BY DEF OptionsInv, Ready
<1>1. CASE Option
  <2>1. PICK option \in OptionSet :
          /\ Modelled(option)
          /\ given' = Append(given, option)
          /\ o' = Apply(o, option)
          /\ IF o'.error THEN Exit(1) ELSE UNCHANGED <<phase, exit>>
    BY <1>1 DEF Option
  <2>2. option \in OptionWith(Path) /\ (option.opt = "apimapping" => option.arg # <<>>)
    BY CompilerAssumption
  <2>3. /\ phase = "options" /\ given \in Seq(OptionWith(Path))
        /\ o \in Settings(Path) /\ Sensible(o) /\ o = ReadAll(ProgramDefaults, given)
        /\ UNCHANGED <<prog, positions, disk>>
    BY <1>1 DEF Option, OptionsInv
  <2>4. given' \in Seq(OptionWith(Path))
    BY <2>1, <2>2, <2>3, AppendProperties
  <2>5. o' \in Settings(Path) /\ Sensible(o')
    BY <2>1, <2>2, <2>3, ApplyKeepsSettings, ApplyIsSensible
  <2>6. o' = ReadAll(ProgramDefaults, given')
    BY <2>1, <2>2, <2>3, ReadOneMore
  <2>7. Sensible(o)' /\ (o = ReadAll(ProgramDefaults, given))'
    BY <2>3, <2>5, <2>6 DEF Sensible, ProgramDefaults
  <2>8. o'.language \in Languages /\ (prog' = "aidl-cpp" => o'.task # "CHECK_API")
    BY <2>3, <2>5 DEF Sensible
  <2>9. CASE o'.error
    <3>1. phase' = "exited" /\ exit' = 1
      BY <2>1, <2>9 DEF Exit
    <3>2. ~Succeeded'
      BY <3>1 DEF Succeeded
    <3> QED BY <2>3, <2>4, <2>5, <2>8, <3>1, <3>2 DEF OptionsInv, positions
  <2>10. CASE ~o'.error
    <3>1. UNCHANGED <<phase, exit>>
      BY <2>1, <2>10
    <3>2. ~Succeeded'
      BY <2>3, <3>1 DEF Succeeded
    <3> QED BY <2>3, <2>4, <2>5, <2>7, <2>8, <2>10, <3>1, <3>2 DEF OptionsInv, positions
  <2> QED BY <2>9, <2>10
<1>2. CASE Usage
  <2>1. /\ o.inputs = <<>> /\ phase' = "exited" /\ exit' \in {0, 1}
        /\ UNCHANGED <<prog, given, o, positions, disk>>
    BY <1>2 DEF Usage, Exit, OptionsInv, Sensible
  <2>2. ~Succeeded'
    BY <2>1 DEF Succeeded
  <2> QED BY <2>1, <2>2 DEF OptionsInv, positions
<1>3. CASE NoMoreOptions
  <2>1. PICK args \in Arguments : o' = Finished(o, args)
    BY <1>3 DEF NoMoreOptions
  <2>2. args \in Seq(Path \ {<<>>})
    BY CompilerAssumption
  <2>3. /\ phase = "options" /\ o \in Settings(Path) /\ Sensible(o) /\ nextInput = 1
        /\ UNCHANGED <<prog, given, positions, disk>>
        /\ IF o'.error THEN Exit(1) ELSE phase' = "load" /\ UNCHANGED exit
    BY <1>3 DEF NoMoreOptions, OptionsInv
  <2>4. /\ o' \in Settings(Path) /\ o'.language \in Languages
        /\ prog' = "aidl-cpp" => o'.task # "CHECK_API"
    BY <2>1, <2>2, <2>3, FinishedOptions DEF Sensible
  <2>5. CASE o'.error
    <3>1. phase' = "exited" /\ exit' = 1
      BY <2>3, <2>5 DEF Exit
    <3>2. ~Succeeded'
      BY <3>1 DEF Succeeded
    <3> QED BY <2>3, <2>4, <3>1, <3>2 DEF OptionsInv, positions
  <2>6. CASE ~o'.error
    <3>1. phase' = "load" /\ UNCHANGED exit
      BY <2>3, <2>6
    <3>2. /\ o'.inputs # <<>> /\ (o'.task = "DUMP_API" => o'.outputDir # <<>>)
          /\ o'.task # "CHECK_API" => o'.outputDir # <<>> \/ o'.outputFile # <<>>
      BY <2>1, <2>2, <2>3, <2>6, FinishedOptions
    <3>3. Len(o'.inputs) \in Nat
      BY <2>4 DEF Settings
    <3>4. Task' = "COMPILE" => o'.task # "CHECK_API"
      BY <2>3, <2>4 DEF Task, OptionsInv, Programs
    <3>5. Ready'
      BY <2>3, <2>6, <3>2, <3>3, <3>4 DEF Ready, positions
    <3>6. ~Succeeded'
      BY <3>1 DEF Succeeded
    <3> QED BY <2>3, <2>4, <3>1, <3>5, <3>6 DEF OptionsInv, positions
  <2> QED BY <2>5, <2>6
<1>4. CASE CheckApi
  BY <1>0, <1>00, <1>4, OptionsOnward DEF CheckApi, Exit, Onward, Generating, positions
<1>5. CASE LoadInput
  BY <1>0, <1>00, <1>5, OptionsOnward DEF LoadInput, More, Exit, Onward, Generating, positions
<1>6. CASE AllDone
  BY <1>0, <1>00, <1>6, OptionsOnward DEF AllDone, More, Exit, Onward, Generating, positions
<1>7. CASE TypeDone
  BY <1>0, <1>00, <1>7, OptionsOnward DEF TypeDone, MoreTypes, Onward, positions
<1>8. CASE InputDone
  BY <1>0, <1>00, <1>8, OptionsOnward DEF InputDone, NextInput, Onward, positions
<1>9. CASE WriteFile
  BY <1>0, <1>00, <1>9, OptionsOnward DEF WriteFile, MoreFiles, MoreTypes, NextFile, Onward
<1>10. CASE NoDirectory
  BY <1>0, <1>00, <1>10, OptionsOnward
     DEF NoDirectory, MoreFiles, MoreTypes, Exit, Die, Onward, positions
<1>11. CASE WriteFails
  <2>1. phase = "write" /\ UNCHANGED <<prog, given, o>>
    BY <1>11 DEF WriteFails, MoreFiles, MoreTypes
  <2>2. \/ NextFile /\ UNCHANGED <<phase, exit>>
        \/ Exit(1) /\ UNCHANGED positions
        \/ Die /\ UNCHANGED positions
    BY <1>11 DEF WriteFails
  <2> QED BY <1>0, <1>00, <2>1, <2>2, OptionsOnward DEF NextFile, Exit, Die, Onward, positions
<1>12. CASE OpenList
  <2>1. /\ phase = "load" /\ Task = "PREPROCESS" /\ ~Generating
        /\ UNCHANGED <<prog, given, o, positions>>
    BY <1>12 DEF OpenList, Generating
  <2>2. \/ phase' = "list" /\ UNCHANGED exit
        \/ Exit(1)
        \/ Die
    BY <1>12 DEF OpenList
  <2> QED BY <1>0, <1>00, <2>1, <2>2, OptionsOnward DEF Exit, Die, Onward, positions
<1>13. CASE ListInput
  BY <1>0, <1>00, <1>13, OptionsOnward DEF ListInput, More, NextInput, Exit, Onward, Generating
<1>14. CASE CloseList
  <2>1. /\ phase = "list" /\ ~Generating
        /\ UNCHANGED <<prog, given, o, positions>>
    BY <1>00, <1>14 DEF CloseList, Generating
  <2>2. Exit(0) \/ Exit(1)
    BY <1>14 DEF CloseList
  <2> QED BY <1>0, <1>00, <2>1, <2>2, OptionsOnward DEF Exit, Onward, positions
<1>15. CASE MapInput
  BY <1>0, <1>00, <1>15, OptionsOnward DEF MapInput, More, NextInput, Onward
<1>16. CASE WriteMappings
  BY <1>0, <1>00, <1>16, OptionsOnward
     DEF WriteMappings, Exit, Die, Onward, Generating, positions
<1>17. CASE UNCHANGED vars
  BY <1>17 DEF vars, positions, OptionsInv, Sensible, Ready, Task, Generating, Succeeded,
     ProgramDefaults
<1> QED BY <1>1, <1>2, <1>3, <1>4, <1>5, <1>6, <1>7, <1>8, <1>9, <1>10, <1>11, <1>12,
           <1>13, <1>14, <1>15, <1>16, <1>17 DEF Next

-----------------------------------------------------------------------------
(* The files of one type.                                                  *)

FileRecord ==
  [path : Path \ {<<>>}, of : Native \cup {"blank", "dep", "dump"}, type : Names,
   check : {"close", "abort", "ignore", "notice"}]
Looked == {"close", "abort"}

LEMMA DocumentsAreTyped ==
  ASSUME NEW path PROVE Document(path) \in AidlDocument
<1>1. [faults |-> {"syntax"}, types |-> <<>>] \in AidlDocument
  <2>1. <<>> \in Seq(DefinedType) /\ {"syntax"} \subseteq DocumentFault
    BY DEF DocumentFault
  <2> QED BY <2>1 DEF AidlDocument
<1> QED BY <1>1, CompilerAssumption DEF Document

LEMMA TypesAreTyped ==
  ASSUME NEW path, NEW k \in DOMAIN Document(path).types
  PROVE  Document(path).types[k] \in DefinedType
<1>1. Document(path).types \in Seq(DefinedType)
  BY DocumentsAreTyped DEF AidlDocument
<1> QED BY <1>1, ElementOfSeq, LenProperties

LEMMA PlacesAreTyped ==
  ASSUME NEW p \in Places
  PROVE  /\ TypeAt(p) \in DefinedType
         /\ p[1] \in DOMAIN o.inputs /\ p[2] \in DOMAIN Document(o.inputs[p[1]]).types
         /\ p = <<p[1], p[2]>>
  BY TypesAreTyped DEF Places, TypeAt

LEMMA PlaceOf ==
  ASSUME NEW i \in DOMAIN o.inputs, NEW k \in DOMAIN Document(o.inputs[i]).types
  PROVE  /\ <<i, k>> \in Places
         /\ TypeAt(<<i, k>>) = Document(o.inputs[i]).types[k]
  BY DEF Places, TypeAt

\* What a class is called depends on the name of its type only.
LEMMA BaseOfName ==
  ASSUME NEW p \in Places, NEW q \in Places, TypeAt(p).name = TypeAt(q).name
  PROVE  TypeAt(p).base = TypeAt(q).base
<1>1. ASSUME NEW r \in Places
      PROVE  \E path \in DOMAIN Sources : TypeAt(r) \in Range(Sources[path].types)
  <2>1. r[2] \in DOMAIN Document(o.inputs[r[1]]).types
    BY PlacesAreTyped
  <2>2. DOMAIN <<>> = {}
    OBVIOUS
  <2>3. o.inputs[r[1]] \in DOMAIN Sources
    BY <2>1, <2>2 DEF Document
  <2> QED BY <2>1, <2>3 DEF TypeAt, Document, Range
<1> QED BY <1>1, CompilerAssumption

LEMMA JoinedPath ==
  ASSUME NEW a \in Path, NEW b \in Path, b # <<>>
  PROVE  a \o b \in Path /\ a \o b # <<>>
<1>1. a \in Seq(Names) /\ b \in Seq(Names)
  BY DEF Path
<1> QED BY <1>1, ConcatProperties, ConcatEqualIffEmpty DEF Path

LEMMA PairIsPath ==
  ASSUME NEW a \in Names, NEW b \in Names
  PROVE  <<a, b>> \in Path /\ <<a, b>> # <<>>
  BY DEF Path

LEMMA ClassNameIsPath ==
  ASSUME NEW t \in DefinedType, NEW class
  PROVE  ClassName(t, class) \in Path
<1>1. t.name \in Names /\ t.base \in Names /\ "Bp" \in Names /\ "Bn" \in Names
  BY CompilerAssumption DEF DefinedType
<1> QED BY <1>1, PairIsPath, SinglePath DEF ClassName

LEMMA HeaderFileIsPath ==
  ASSUME NEW t \in DefinedType, NEW class
  PROVE  HeaderFile(t, class) \in Path /\ HeaderFile(t, class) # <<>>
<1>1. <<"h">> \in Path /\ <<"h">> # <<>>
  BY SinglePath, CompilerAssumption
<1> QED BY <1>1, ClassNameIsPath, JoinedPath DEF HeaderFile

LEMMA OutputFileIsPath ==
  ASSUME OptionsInv, Ready, Task = "COMPILE", NEW t \in DefinedType
  PROVE  OutputFile(t) \in Path \ {<<>>}
<1>1. t.name \in Names /\ "cpp" \in Names /\ "java" \in Names
  BY CompilerAssumption DEF DefinedType
<1>2. o.outputDir \in Path /\ o.outputFile \in Path /\ (o.outputDir # <<>> \/ o.outputFile # <<>>)
  BY DEF OptionsInv, Settings, Ready
<1>3. CASE o.outputFile # <<>>
  BY <1>2, <1>3 DEF OutputFile
<1>4. CASE o.outputFile = <<>>
  <2> DEFINE rest == <<t.name, IF IsCppOutput(o) THEN "cpp" ELSE "java">>
  <2>1. rest \in Path /\ rest # <<>>
    BY <1>1, PairIsPath
  <2>2. OutputFile(t) = o.outputDir \o rest
    BY <1>2, <1>4 DEF OutputFile, generate_outputFileName
  <2> HIDE DEF rest
  <2> QED BY <1>2, <2>1, <2>2, JoinedPath
<1> QED BY <1>3, <1>4

ClassAt(i) == <<"RAW", "CLIENT", "SERVER">>[i]
Below == IF o.language = <<"NDK">> THEN NdkHeaders ELSE <<>>
HeaderPath(t, i) == o.headerDir \o Below \o HeaderFile(t, ClassAt(i))

LEMMA HeaderPathIsPath ==
  ASSUME OptionsInv, NEW t \in DefinedType, NEW i
  PROVE  HeaderPath(t, i) \in Path \ {<<>>}
<1>1. Below \in Seq(Names)
  <2>1. <<"aidl">> \in Path /\ <<>> \in Seq(Names)
    BY SinglePath, CompilerAssumption
  <2> QED BY <2>1 DEF Below, NdkHeaders, Path
<1>2. o.headerDir \in Seq(Names)
  BY DEF OptionsInv, Settings, Path
<1>3. o.headerDir \o Below \in Path
  BY <1>1, <1>2, ConcatProperties DEF Path
<1>4. HeaderPath(t, i) = (o.headerDir \o Below) \o HeaderFile(t, ClassAt(i))
  BY DEF HeaderPath
<1> QED BY <1>3, <1>4, HeaderFileIsPath, JoinedPath

LEMMA JoinedAt ==
  ASSUME NEW S, NEW a \in Seq(S), NEW b \in Seq(S)
  PROVE  /\ a \o b \in Seq(S) /\ Len(a \o b) = Len(a) + Len(b)
         /\ Len(a) \in Nat /\ Len(b) \in Nat
         /\ \A i \in 1 .. Len(a) : (a \o b)[i] = a[i]
         /\ \A i \in 1 .. Len(b) : (a \o b)[Len(a) + i] = b[i]
<1>1. Len(a) \in Nat /\ Len(b) \in Nat
  OBVIOUS
<1>2. /\ a \o b \in Seq(S) /\ Len(a \o b) = Len(a) + Len(b)
      /\ \A i \in 1 .. Len(a) + Len(b) :
           (a \o b)[i] = IF i <= Len(a) THEN a[i] ELSE b[i - Len(a)]
  BY ConcatProperties
<1>3. ASSUME NEW i \in 1 .. Len(a) PROVE (a \o b)[i] = a[i]
  <2>1. i \in 1 .. Len(a) + Len(b) /\ i <= Len(a)
    BY <1>1
  <2> QED BY <1>2, <2>1
<1>4. ASSUME NEW i \in 1 .. Len(b) PROVE (a \o b)[Len(a) + i] = b[i]
  <2>1. Len(a) + i \in 1 .. Len(a) + Len(b) /\ ~(Len(a) + i <= Len(a)) /\ (Len(a) + i) - Len(a) = i
    BY <1>1
  <2> QED BY <1>2, <2>1
<1> QED BY <1>1, <1>2, <1>3, <1>4

\* Three headers and then the source.
LEMMA HeadersThenSource ==
  ASSUME OptionsInv, Ready, Task = "COMPILE", NEW t \in DefinedType,
         NEW of, of \in {InterfaceHeaders, ParcelHeaders}, NEW check \in Looked
  PROVE  LET files == Headers(t, of, Below, check)
                      \o <<File(OutputFile(t), "source", t, check)>>
         IN  /\ files \in Seq(FileRecord) /\ Len(files) = 4
             /\ files[4] = File(OutputFile(t), "source", t, check)
             /\ \A i \in 1 .. 3 : files[i] = File(HeaderPath(t, i), of[i], t, check)
<1> DEFINE headers == Headers(t, of, Below, check)
           source == File(OutputFile(t), "source", t, check)
<1>1. t.name \in Names
  BY DEF DefinedType
<1>2. \A i \in 1 .. 3 : of[i] \in Native
  BY DEF InterfaceHeaders, ParcelHeaders, Native
<1>3. source \in FileRecord
  BY <1>1, OutputFileIsPath DEF File, FileRecord, Native, Looked
<1>4. headers = [i \in 1 .. 3 |-> File(HeaderPath(t, i), of[i], t, check)]
  BY DEF Headers, HeaderPath, ClassAt
<1>5. \A i \in 1 .. 3 : File(HeaderPath(t, i), of[i], t, check) \in FileRecord
  BY <1>1, <1>2, HeaderPathIsPath DEF File, FileRecord, Looked
<1>6. headers \in Seq(FileRecord) /\ Len(headers) = 3
  <2> DEFINE header(i) == File(HeaderPath(t, i), of[i], t, check)
  <2>1. headers = [i \in 1 .. 3 |-> header(i)] /\ \A i \in 1 .. 3 : header(i) \in FileRecord
    BY <1>4, <1>5
  <2> HIDE DEF headers, header
  <2>2. headers \in [1 .. 3 -> FileRecord] /\ 3 \in Nat
    BY <2>1
  <2>3. headers \in Seq(FileRecord)
    BY <2>2, SeqDef
  <2> QED BY <2>2, <2>3, LenProperties
<1>7. <<source>> \in Seq(FileRecord) /\ Len(<<source>>) = 1 /\ <<source>>[1] = source
  <2> HIDE DEF source
  <2> QED BY <1>3
<1>8. /\ headers \o <<source>> \in Seq(FileRecord) /\ Len(headers \o <<source>>) = 4
      /\ \A i \in 1 .. 3 : (headers \o <<source>>)[i] = headers[i]
      /\ (headers \o <<source>>)[4] = source
  <2> HIDE DEF headers, source
  <2>1. /\ headers \o <<source>> \in Seq(FileRecord)
        /\ Len(headers \o <<source>>) = Len(headers) + Len(<<source>>)
        /\ \A i \in 1 .. Len(headers) : (headers \o <<source>>)[i] = headers[i]
        /\ \A i \in 1 .. Len(<<source>>) :
             (headers \o <<source>>)[Len(headers) + i] = <<source>>[i]
    <3> DEFINE last == <<source>>
    <3>1. headers \in Seq(FileRecord) /\ last \in Seq(FileRecord)
      BY <1>6, <1>7
    <3> HIDE DEF last
    <3>2. /\ headers \o last \in Seq(FileRecord)
          /\ Len(headers \o last) = Len(headers) + Len(last)
          /\ \A i \in 1 .. Len(headers) : (headers \o last)[i] = headers[i]
          /\ \A i \in 1 .. Len(last) : (headers \o last)[Len(headers) + i] = last[i]
      BY <3>1, JoinedAt
    <3> QED BY <3>2 DEF last
  <2> DEFINE single == <<source>>
             joined == headers \o single
  <2>2. /\ joined \in Seq(FileRecord) /\ Len(joined) = Len(headers) + Len(single)
        /\ \A i \in 1 .. Len(headers) : joined[i] = headers[i]
        /\ \A i \in 1 .. Len(single) : joined[Len(headers) + i] = single[i]
        /\ Len(headers) = 3 /\ Len(single) = 1 /\ single[1] = source
    BY <1>6, <1>7, <2>1
  <2> HIDE DEF single, joined
  <2>3. joined[3 + 1] = source
    BY <2>2
  <2>4. /\ joined \in Seq(FileRecord) /\ Len(joined) = 4
        /\ \A i \in 1 .. 3 : joined[i] = headers[i]
        /\ joined[4] = source
    BY <2>2, <2>3
  <2> QED BY <2>4 DEF single, joined
<1> QED BY <1>4, <1>8

LEMMA OneFile ==
  ASSUME NEW f \in FileRecord
  PROVE  <<f>> \in Seq(FileRecord) /\ Len(<<f>>) = 1 /\ <<f>>[1] = f
  OBVIOUS

\* What is generated for a native type that is not only declared.
FourFiles(t, files) ==
  \E of \in {InterfaceHeaders, ParcelHeaders}, check \in Looked :
    /\ Len(files) = 4
    /\ files[4] = File(OutputFile(t), "source", t, check)
    /\ \A i \in 1 .. 3 : files[i] = File(HeaderPath(t, i), of[i], t, check)

LEMMA NativeFiles ==
  ASSUME OptionsInv, Ready, Task = "COMPILE", IsCppOutput(o), NEW t \in DefinedType
  PROVE  /\ Generate(t) \in Seq(FileRecord)
         /\ t.kind # "parcelable" => FourFiles(t, Generate(t))
         /\ t.kind = "parcelable" =>
              Len(Generate(t)) = 1 /\ Generate(t)[1].of = "blank" /\ Generate(t)[1].type = t.name
<1> DEFINE Four(of, check) == Headers(t, of, Below, check)
                              \o <<File(OutputFile(t), "source", t, check)>>
<1>1. ASSUME NEW of \in {InterfaceHeaders, ParcelHeaders}, NEW check \in Looked
      PROVE  Four(of, check) \in Seq(FileRecord) /\ FourFiles(t, Four(of, check))
  <2> DEFINE files == Four(of, check)
  <2>1. /\ files \in Seq(FileRecord) /\ Len(files) = 4
        /\ files[4] = File(OutputFile(t), "source", t, check)
        /\ \A i \in 1 .. 3 : files[i] = File(HeaderPath(t, i), of[i], t, check)
    BY HeadersThenSource
  <2> HIDE DEF files
  <2>2. FourFiles(t, files)
    BY <2>1 DEF FourFiles
  <2> QED BY <2>1, <2>2 DEF files
<1>2. ASSUME NEW check \in {"ignore", "abort"}
      PROVE  File(OutputFile(t), "blank", t, check) \in FileRecord
  BY OutputFileIsPath DEF File, FileRecord, Native, DefinedType
<1>3. t.kind \in {"interface", "structured", "parcelable"}
  BY DEF DefinedType
<1>4. <<"CPP">> # <<"NDK">>
  OBVIOUS
<1>5. CASE t.kind # "parcelable"
  <2>1. \E of \in {InterfaceHeaders, ParcelHeaders}, check \in Looked :
          Generate(t) = Four(of, check)
    <3>1. CASE o.language = <<"CPP">> /\ t.kind = "interface"
      BY <1>4, <3>1 DEF Generate, GenerateCpp, Below, Looked
    <3>2. CASE o.language = <<"CPP">> /\ t.kind = "structured"
      BY <1>4, <3>2 DEF Generate, GenerateCpp, Below, Looked
    <3>3. CASE o.language = <<"NDK">> /\ t.kind = "interface"
      BY <1>4, <3>3 DEF Generate, GenerateNdk, Below, Looked
    <3>4. CASE o.language = <<"NDK">> /\ t.kind = "structured"
      BY <1>4, <3>4 DEF Generate, GenerateNdk, Below, Looked
    <3> QED BY <1>3, <1>5, <3>1, <3>2, <3>3, <3>4 DEF IsCppOutput
  <2> HIDE DEF Four
  <2> QED BY <1>1, <1>5, <2>1
<1>6. CASE t.kind = "parcelable"
  <2>1. PICK check \in {"ignore", "abort"} :
          Generate(t) = <<File(OutputFile(t), "blank", t, check)>>
    <3>1. CASE o.language = <<"CPP">>
      BY <1>4, <1>6, <3>1 DEF Generate, GenerateCpp
    <3>2. CASE o.language = <<"NDK">>
      BY <1>4, <1>6, <3>2 DEF Generate, GenerateNdk
    <3> QED BY <3>1, <3>2 DEF IsCppOutput
  <2> DEFINE f == File(OutputFile(t), "blank", t, check)
  <2>2. f.of = "blank" /\ f.type = t.name /\ f \in FileRecord
    BY <1>2 DEF File
  <2>3. Generate(t) = <<f>>
    BY <2>1
  <2> HIDE DEF f
  <2> QED BY <1>6, <2>2, <2>3, OneFile
<1> QED BY <1>5, <1>6

LEMMA JavaFile ==
  ASSUME OptionsInv, Ready, Task = "COMPILE", ~IsCppOutput(o), NEW t \in DefinedType
  PROVE  /\ Generate(t) \in Seq(FileRecord) /\ Len(Generate(t)) = 1
         /\ Generate(t)[1].type = t.name
<1>1. PICK of \in {"blank", "source"} :
        Generate(t) = <<File(OutputFile(t), of, t, "ignore")>>
  BY DEF Generate, GenerateJava, IsCppOutput
<1> DEFINE f == File(OutputFile(t), of, t, "ignore")
<1>2. f.type = t.name /\ f \in FileRecord
  BY OutputFileIsPath DEF File, FileRecord, Native, DefinedType
<1>3. Generate(t) = <<f>>
  BY <1>1
<1> HIDE DEF f
<1> QED BY <1>2, <1>3, OneFile

LEMMA GeneratedFiles ==
  ASSUME OptionsInv, Ready, Task = "COMPILE", NEW t \in DefinedType
  PROVE  /\ Generate(t) \in Seq(FileRecord)
         /\ \A i \in 1 .. Len(Generate(t)) : Generate(t)[i].type = t.name
<1>1. CASE IsCppOutput(o) /\ t.kind # "parcelable"
  <2>1. PICK of \in {InterfaceHeaders, ParcelHeaders}, check \in Looked :
          /\ Len(Generate(t)) = 4
          /\ Generate(t)[4] = File(OutputFile(t), "source", t, check)
          /\ \A i \in 1 .. 3 : Generate(t)[i] = File(HeaderPath(t, i), of[i], t, check)
    BY <1>1, NativeFiles DEF FourFiles
  <2>2. \A i \in 1 .. 4 : i \in 1 .. 3 \/ i = 4
    OBVIOUS
  <2>3. \A i \in 1 .. 4 : Generate(t)[i].type = t.name
    BY <2>1, <2>2 DEF File
  <2> QED BY <1>1, <2>1, <2>3, NativeFiles
<1>2. CASE IsCppOutput(o) /\ t.kind = "parcelable"
  BY <1>2, NativeFiles
<1>3. CASE ~IsCppOutput(o)
  BY <1>3, JavaFile
<1> QED BY <1>1, <1>2, <1>3

LEMMA DependencyFile ==
  ASSUME OptionsInv, Ready, Task = "COMPILE", NEW t \in DefinedType
  PROVE  /\ WriteDepFile(t) \in Seq(FileRecord) /\ Len(WriteDepFile(t)) \in {0, 1}
         /\ \A i \in 1 .. Len(WriteDepFile(t)) :
              /\ WriteDepFile(t)[i].of = "dep" /\ WriteDepFile(t)[i].type = t.name
              /\ WriteDepFile(t)[i].check = "notice"
<1>1. CASE DepFile(t) = <<>>
  <2>1. WriteDepFile(t) = <<>>
    BY <1>1 DEF WriteDepFile
  <2>2. <<>> \in Seq(FileRecord) /\ Len(<<>>) = 0 /\ 1 .. 0 = {}
    OBVIOUS
  <2> QED BY <2>1, <2>2
<1>2. CASE DepFile(t) # <<>>
  <2> DEFINE f == File(DepFile(t), "dep", t, "notice")
  <2>1. DepFile(t) \in Path
    <3>1. Append(OutputFile(t), "d") \in Path
      BY OutputFileIsPath, CompilerAssumption, AppendProperties DEF Path
    <3> QED BY <1>2, <3>1 DEF DepFile, OptionsInv, Settings
  <2>2. /\ f \in FileRecord /\ f.of = "dep" /\ f.type = t.name /\ f.check = "notice"
    BY <1>2, <2>1 DEF File, FileRecord, DefinedType
  <2>3. WriteDepFile(t) = <<f>>
    BY <1>2 DEF WriteDepFile
  <2> HIDE DEF f
  <2> QED BY <2>2, <2>3, OneFile
<1> QED BY <1>1, <1>2

LEMMA FilesOfAType ==
  ASSUME OptionsInv, Ready, NEW t \in DefinedType
  PROVE  /\ Files(t) \in Seq(FileRecord)
         /\ DOMAIN Files(t) = 1 .. Len(Files(t)) /\ Len(Files(t)) \in Nat
         /\ \A n \in DOMAIN Files(t) : Files(t)[n] \in FileRecord /\ Files(t)[n].type = t.name
         /\ Task = "COMPILE" =>
              \E d \in {0, 1} :
                /\ Len(Files(t)) = d + Len(Generate(t))
                /\ \A i \in 1 .. Len(Generate(t)) : Files(t)[d + i] = Generate(t)[i]
                /\ \A i \in 1 .. d : Files(t)[i].of = "dep"
         /\ Task # "COMPILE" => \A n \in DOMAIN Files(t) : Files(t)[n].of = "dump"
<1>1. CASE Task = "COMPILE"
  <2> DEFINE first == WriteDepFile(t)
             rest == Generate(t)
             files == first \o rest
  <2>1. /\ first \in Seq(FileRecord) /\ Len(first) \in {0, 1}
        /\ \A i \in 1 .. Len(first) : first[i].of = "dep" /\ first[i].type = t.name
        /\ rest \in Seq(FileRecord)
        /\ \A i \in 1 .. Len(rest) : rest[i].type = t.name
    BY <1>1, DependencyFile, GeneratedFiles
  <2> HIDE DEF first, rest
  <2>2. /\ files \in Seq(FileRecord) /\ Len(files) = Len(first) + Len(rest)
        /\ Len(first) \in Nat /\ Len(rest) \in Nat
        /\ \A i \in 1 .. Len(first) : files[i] = first[i]
        /\ \A i \in 1 .. Len(rest) : files[Len(first) + i] = rest[i]
    BY <2>1, JoinedAt
  <2> HIDE DEF files
  <2>3. DOMAIN files = 1 .. Len(files) /\ Len(files) \in Nat
        /\ \A n \in 1 .. Len(files) : files[n] \in FileRecord
    BY <2>2, LenProperties, ElementOfSeq
  <2>4. ASSUME NEW n \in 1 .. Len(files) PROVE files[n].type = t.name
    <3>1. CASE n <= Len(first)
      BY <2>1, <2>2, <2>3, <3>1
    <3>2. CASE ~(n <= Len(first))
      <4>1. n - Len(first) \in 1 .. Len(rest) /\ Len(first) + (n - Len(first)) = n
        BY <2>2, <2>3, <3>2
      <4>2. files[n] = rest[n - Len(first)]
        BY <2>2, <4>1
      <4> QED BY <2>1, <4>1, <4>2
    <3> QED BY <3>1, <3>2
  <2>5. Files(t) = files
    BY <1>1 DEF Files, files, first, rest
  <2>6. \E d \in {0, 1} :
          /\ Len(files) = d + Len(rest)
          /\ \A i \in 1 .. Len(rest) : files[d + i] = rest[i]
          /\ \A i \in 1 .. d : files[i].of = "dep"
    BY <2>1, <2>2
  <2>7. rest = Generate(t)
    BY DEF rest
  <2> QED BY <1>1, <2>2, <2>3, <2>4, <2>5, <2>6, <2>7
<1>2. CASE Task # "COMPILE"
  <2> DEFINE path == o.outputDir \o <<t.name, "aidl">>
             f == File(path, "dump", t, "ignore")
  <2>1. path \in Path /\ path # <<>>
    <3> DEFINE name == <<t.name, "aidl">>
    <3>1. name \in Path /\ name # <<>> /\ o.outputDir \in Path
      BY PairIsPath, CompilerAssumption DEF DefinedType, OptionsInv, Settings
    <3> HIDE DEF name
    <3>2. o.outputDir \o name \in Path /\ o.outputDir \o name # <<>>
      BY <3>1, JoinedPath
    <3> QED BY <3>2 DEF name
  <2> HIDE DEF path
  <2>2. f \in FileRecord /\ f.type = t.name /\ f.of = "dump"
    BY <2>1 DEF File, FileRecord, DefinedType
  <2>3. Files(t) = <<f>>
    BY <1>2 DEF Files, Dump, path
  <2> HIDE DEF f
  <2>4. /\ <<f>> \in Seq(FileRecord) /\ Len(<<f>>) = 1 /\ <<f>>[1] = f
        /\ DOMAIN <<f>> = 1 .. 1
    BY <2>2
  <2> QED BY <1>2, <2>2, <2>3, <2>4
<1> QED BY <1>1, <1>2

LEMMA GeneratedAreFiles ==
  ASSUME OptionsInv, Ready, Task = "COMPILE", NEW t \in DefinedType, NEW g \in Range(Generate(t))
  PROVE  g \in Range(Files(t))
<1>1. PICK i \in DOMAIN Generate(t) : g = Generate(t)[i]
  BY DEF Range
<1>2. DOMAIN Generate(t) = 1 .. Len(Generate(t)) /\ Len(Generate(t)) \in Nat
  BY GeneratedFiles, LenProperties
<1>3. PICK d \in {0, 1} :
        /\ Len(Files(t)) = d + Len(Generate(t))
        /\ \A j \in 1 .. Len(Generate(t)) : Files(t)[d + j] = Generate(t)[j]
  BY FilesOfAType
<1>4. i \in 1 .. Len(Generate(t)) /\ Files(t)[d + i] = g
  BY <1>1, <1>2, <1>3
<1>5. DOMAIN Files(t) = 1 .. (d + Len(Generate(t)))
  BY <1>3, FilesOfAType
<1>6. d + i \in DOMAIN Files(t)
  BY <1>2, <1>4, <1>5
<1> QED BY <1>4, <1>6 DEF Range

\* Where the files of a native type are.
LEMMA NativeAt ==
  ASSUME OptionsInv, Ready, Task = "COMPILE", IsCppOutput(o), NEW t \in DefinedType,
         t.kind # "parcelable"
  PROVE  \E d \in {0, 1}, check \in Looked, of \in {InterfaceHeaders, ParcelHeaders} :
           /\ Len(Files(t)) = d + 4
           /\ Files(t)[d + 4] = File(OutputFile(t), "source", t, check)
           /\ \A i \in 1 .. 3 : Files(t)[d + i] = File(HeaderPath(t, i), of[i], t, check)
           /\ \A i \in 1 .. d : Files(t)[i].of = "dep"
<1>1. PICK of \in {InterfaceHeaders, ParcelHeaders}, check \in Looked :
        /\ Len(Generate(t)) = 4
        /\ Generate(t)[4] = File(OutputFile(t), "source", t, check)
        /\ \A i \in 1 .. 3 : Generate(t)[i] = File(HeaderPath(t, i), of[i], t, check)
  BY NativeFiles DEF FourFiles
<1>2. PICK d \in {0, 1} :
        /\ Len(Files(t)) = d + Len(Generate(t))
        /\ \A i \in 1 .. Len(Generate(t)) : Files(t)[d + i] = Generate(t)[i]
        /\ \A i \in 1 .. d : Files(t)[i].of = "dep"
  BY FilesOfAType
<1>3. Len(Files(t)) = d + 4 /\ \A i \in 1 .. 4 : Files(t)[d + i] = Generate(t)[i]
  BY <1>1, <1>2
<1>4. 4 \in 1 .. 4 /\ \A i \in 1 .. 3 : i \in 1 .. 4
  OBVIOUS
<1>5. Files(t)[d + 4] = File(OutputFile(t), "source", t, check)
  BY <1>1, <1>3, <1>4
<1>6. \A i \in 1 .. 3 : Files(t)[d + i] = File(HeaderPath(t, i), of[i], t, check)
  BY <1>1, <1>3, <1>4
<1> QED BY <1>2, <1>3, <1>5, <1>6

LEMMA HeadersAreNoSource ==
  ASSUME NEW of \in {InterfaceHeaders, ParcelHeaders}, NEW i \in 1 .. 3
  PROVE  of[i] # "source" /\ of[i] \in Native
  BY DEF InterfaceHeaders, ParcelHeaders, Native

\* A file of native code is written last, or it is a header.
LEMMA FilesOfANative ==
  ASSUME OptionsInv, Ready, Task = "COMPILE", IsCppOutput(o), NEW t \in DefinedType,
         NEW n \in DOMAIN Files(t), Files(t)[n].of \in Native
  PROVE  /\ t.kind # "parcelable" /\ Files(t)[n].check \in Looked
         /\ Files(t)[n].of = "source" => n = Len(Files(t))
         /\ Files(t)[n].of # "source" => \E i \in 1 .. 3 : Files(t)[n].path = HeaderPath(t, i)
<1>1. CASE t.kind = "parcelable"
  <2>1. Len(Generate(t)) = 1 /\ Generate(t)[1].of = "blank"
    BY <1>1, NativeFiles
  <2>2. PICK d \in {0, 1} :
          /\ Len(Files(t)) = d + Len(Generate(t))
          /\ \A i \in 1 .. Len(Generate(t)) : Files(t)[d + i] = Generate(t)[i]
          /\ \A i \in 1 .. d : Files(t)[i].of = "dep"
    BY FilesOfAType
  <2>3. DOMAIN Files(t) = 1 .. (d + 1) /\ Files(t)[d + 1] = Generate(t)[1]
    BY <2>1, <2>2, FilesOfAType
  <2>4. n \in 1 .. d \/ n = d + 1
    BY <2>3
  <2>5. Files(t)[n].of \in {"dep", "blank"}
    BY <2>1, <2>2, <2>3, <2>4
  <2> QED BY <2>5 DEF Native
<1>2. CASE t.kind # "parcelable"
  <2>1. PICK d \in {0, 1}, check \in Looked, of \in {InterfaceHeaders, ParcelHeaders} :
           /\ Len(Files(t)) = d + 4
           /\ Files(t)[d + 4] = File(OutputFile(t), "source", t, check)
           /\ \A i \in 1 .. 3 : Files(t)[d + i] = File(HeaderPath(t, i), of[i], t, check)
           /\ \A i \in 1 .. d : Files(t)[i].of = "dep"
    BY <1>2, NativeAt
  <2>2. DOMAIN Files(t) = 1 .. (d + 4)
    BY <2>1, FilesOfAType
  <2>3. n \in 1 .. d \/ n = d + 4 \/ n - d \in 1 .. 3
    BY <2>2
  <2>4. CASE n \in 1 .. d
    BY <2>1, <2>4 DEF Native
  <2>5. CASE n = d + 4
    BY <1>2, <2>1, <2>5 DEF File
  <2>6. CASE n - d \in 1 .. 3
    <3>1. Files(t)[n] = File(HeaderPath(t, n - d), of[n - d], t, check)
      <4>1. d + (n - d) = n
        BY <2>2
      <4> QED BY <2>1, <2>6, <4>1
    <3>2. /\ Files(t)[n].of # "source" /\ Files(t)[n].check = check
          /\ Files(t)[n].path = HeaderPath(t, n - d)
      BY <2>6, <3>1, HeadersAreNoSource DEF File
    <3> QED BY <1>2, <2>6, <3>2
  <2> QED BY <2>3, <2>4, <2>5, <2>6
<1> QED BY <1>1, <1>2

\* Every header of a native type is written before its source.
LEMMA HeadersAreWritten ==
  ASSUME OptionsInv, Ready, Task = "COMPILE", IsCppOutput(o), NEW t \in DefinedType,
         t.kind # "parcelable", NEW i \in 1 .. 3
  PROVE  \E n \in DOMAIN Files(t) :
           /\ n < Len(Files(t)) /\ Files(t)[n].path = HeaderPath(t, i)
           /\ Files(t)[n].of # "source" /\ Files(t)[n].check \in Looked
<1>1. PICK d \in {0, 1}, check \in Looked, of \in {InterfaceHeaders, ParcelHeaders} :
         /\ Len(Files(t)) = d + 4
         /\ \A j \in 1 .. 3 : Files(t)[d + j] = File(HeaderPath(t, j), of[j], t, check)
  BY NativeAt
<1>2. DOMAIN Files(t) = 1 .. (d + 4) /\ d + i \in 1 .. (d + 4) /\ d + i < d + 4
  BY <1>1, FilesOfAType
<1>3. /\ Files(t)[d + i].path = HeaderPath(t, i) /\ Files(t)[d + i].of # "source"
      /\ Files(t)[d + i].check \in Looked
  BY <1>1, HeadersAreNoSource DEF File
<1> QED BY <1>1, <1>2, <1>3

LEMMA SamePath ==
  ASSUME NEW t \in DefinedType, NEW u \in DefinedType, t.name = u.name, t.base = u.base,
         NEW i
  PROVE  HeaderPath(t, i) = HeaderPath(u, i)
  BY DEF HeaderPath, HeaderFile, ClassName

-----------------------------------------------------------------------------
(* What a step does to the files.                                          *)

LEMMA SameFiles ==
  ASSUME UNCHANGED <<prog, o>>
  PROVE  /\ Task' = Task /\ Generating' = Generating /\ IsCppOutput(o)' = IsCppOutput(o)
         /\ Places' = Places /\ AllTypes' = AllTypes /\ AllFiles' = AllFiles
         /\ \A p : TypeAt(p)' = TypeAt(p)
         /\ \A t : Files(t)' = Files(t) /\ Generate(t)' = Generate(t)
         /\ \A f : Shared(f)' = Shared(f) /\ Repeated(f)' = Repeated(f)
         /\ \A doc : Accepted(doc)' = Accepted(doc)
<1>1. Task' = Task /\ Generating' = Generating /\ IsCppOutput(o)' = IsCppOutput(o)
  BY DEF Task, Generating
<1>2. \A t : OutputFile(t)' = OutputFile(t)
  BY DEF OutputFile
<1>3. \A t, of, below, check : Headers(t, of, below, check)' = Headers(t, of, below, check)
  BY DEF Headers
<1>4. \A t : Generate(t)' = Generate(t)
  BY <1>2, <1>3 DEF Generate, GenerateCpp, GenerateNdk, GenerateJava
<1>5. \A t : Files(t)' = Files(t)
  BY <1>1, <1>2, <1>4 DEF Files, WriteDepFile, DepFile, Dump
<1>6. Places' = Places /\ \A p : TypeAt(p)' = TypeAt(p)
  BY DEF Places, TypeAt
<1>7. AllTypes' = AllTypes /\ AllFiles' = AllFiles
  BY <1>5, <1>6 DEF AllTypes, AllFiles
<1>8. \A f : Shared(f)' = Shared(f) /\ Repeated(f)' = Repeated(f)
  BY <1>5, <1>6, <1>7 DEF Shared, Repeated
<1>9. \A doc : Accepted(doc)' = Accepted(doc)
  <2>1. \A doc : Error(doc)' = Error(doc)
    BY DEF Error, DocumentError, TypeError
  <2> QED BY <1>1, <2>1 DEF Accepted, Load
<1> QED BY <1>1, <1>4, <1>5, <1>6, <1>7, <1>8, <1>9

LEMMA StoredDisk ==
  ASSUME NEW f, NEW w, disk' = Stored(f, w)
  PROVE  /\ DOMAIN disk' = DOMAIN disk \cup {f.path}
         /\ disk'[f.path] = [of |-> f.of, type |-> f.type, whole |-> w]
         /\ \A path \in DOMAIN disk : path # f.path => disk'[path] = disk[path]
  BY DEF Stored

LEMMA RemovedDisk ==
  ASSUME NEW path, disk' = Removed(path)
  PROVE  /\ DOMAIN disk' = DOMAIN disk \ {path}
         /\ \A p \in DOMAIN disk' : disk'[p] = disk[p]
  BY DEF Removed

LEMMA TypesOfPlaces ==
  ASSUME NEW p \in Places, NEW n \in DOMAIN Files(TypeAt(p))
  PROVE  TypeAt(p) \in AllTypes /\ Files(TypeAt(p))[n] \in AllFiles
<1>1. TypeAt(p) \in AllTypes
  BY DEF AllTypes
<1> QED BY <1>1 DEF AllFiles, Range

\* The file to write next.
LEMMA TheOutput ==
  ASSUME OptionsInv, MoreFiles
  PROVE  /\ Ready /\ Generating /\ phase = "write"
         /\ <<nextInput, nextType>> \in Places /\ TypeAt(<<nextInput, nextType>>) = Type
         /\ Type \in DefinedType /\ nextFile \in DOMAIN Files(Type)
         /\ Output = Files(Type)[nextFile] /\ Output \in FileRecord
         /\ Output.type = Type.name /\ Output \in AllFiles
         /\ ~Passed(<<nextInput, nextType>>, nextFile)
<1>1. phase = "write" /\ nextType <= Len(Input.types) /\ nextFile <= Len(Files(Type))
  BY DEF MoreFiles, MoreTypes
<1>2. Ready /\ Generating /\ nextInput <= Len(o.inputs)
  BY <1>1 DEF OptionsInv
<1>3. nextInput \in DOMAIN o.inputs
  BY <1>2, InputsAreCounted DEF OptionsInv
<1>4. nextType \in DOMAIN Document(o.inputs[nextInput]).types
  <2>1. Document(o.inputs[nextInput]).types \in Seq(DefinedType)
    BY DocumentsAreTyped DEF AidlDocument
  <2>2. DOMAIN Document(o.inputs[nextInput]).types = 1 .. Len(Document(o.inputs[nextInput]).types)
    BY <2>1, LenProperties
  <2> QED BY <1>1, <2>2 DEF OptionsInv, Input
<1>5. /\ <<nextInput, nextType>> \in Places
      /\ TypeAt(<<nextInput, nextType>>) = Type
  BY <1>3, <1>4, PlaceOf DEF Type, Input
<1>6. Type \in DefinedType
  BY <1>5, PlacesAreTyped
<1>7. nextFile \in DOMAIN Files(Type)
  BY <1>1, <1>2, <1>6, FilesOfAType DEF OptionsInv
<1>8. Output = Files(Type)[nextFile] /\ Output \in FileRecord /\ Output.type = Type.name
  BY <1>2, <1>6, <1>7, FilesOfAType DEF Output
<1>9. Output \in AllFiles
  BY <1>5, <1>7, <1>8, TypesOfPlaces
<1>10. ~Passed(<<nextInput, nextType>>, nextFile)
  BY DEF Passed, OptionsInv
<1> QED BY <1>1, <1>2, <1>5, <1>6, <1>7, <1>8, <1>9, <1>10

\* A file that was stored over is not the only one with its path.
LEMMA StoredOver ==
  ASSUME NEW f \in AllFiles, NEW g \in AllFiles, f.path = g.path, f # g
  PROVE  Shared(f) /\ Shared(g)
  BY DEF Shared

\* What is whole stays, or was stored over by a file with the same path.
LEMMA WholeAfterStored ==
  ASSUME NEW f \in AllFiles, NEW g \in AllFiles, NEW w \in BOOLEAN, disk' = Stored(f, w)
  PROVE  /\ Whole(g) => Whole(g)' \/ Shared(g) \/ (g = f /\ ~w)
         /\ Whole(g)' => Whole(g) \/ (g.path = f.path /\ g.of = f.of /\ g.type = f.type /\ w)
<1>1. /\ DOMAIN disk' = DOMAIN disk \cup {f.path}
      /\ disk'[f.path] = [of |-> f.of, type |-> f.type, whole |-> w]
      /\ \A path \in DOMAIN disk : path # f.path => disk'[path] = disk[path]
  BY StoredDisk
<1>2. CASE g.path # f.path
  BY <1>1, <1>2 DEF Whole
<1>3. CASE g.path = f.path /\ w = TRUE
  <2>1. Whole(g)' => g.of = f.of /\ g.type = f.type
    <3>1. Whole(g)' => disk'[f.path] = [of |-> g.of, type |-> g.type, whole |-> TRUE]
      BY <1>3 DEF Whole
    <3>2. disk'[f.path] = [of |-> f.of, type |-> f.type, whole |-> TRUE]
      BY <1>1, <1>3
    <3> QED BY <3>1, <3>2
  <2>2. g = f => Whole(g)'
    BY <1>1, <1>3 DEF Whole
  <2> QED BY <1>3, <2>1, <2>2, StoredOver
<1>4. CASE g.path = f.path /\ w = FALSE
  <2>1. ~Whole(g)'
    <3>1. disk'[g.path].whole = FALSE
      BY <1>1, <1>4
    <3> QED BY <3>1 DEF Whole
  <2> QED BY <1>4, <2>1, StoredOver
<1>5. w = TRUE \/ w = FALSE
  OBVIOUS
<1> QED BY <1>2, <1>3, <1>4, <1>5

LEMMA WholeAfterRemoved ==
  ASSUME NEW f \in AllFiles, NEW g \in AllFiles, disk' = Removed(f.path)
  PROVE  /\ Whole(g) => Whole(g)' \/ Shared(g) \/ g = f
         /\ Whole(g)' => Whole(g)
<1>1. /\ DOMAIN disk' = DOMAIN disk \ {f.path}
      /\ \A p \in DOMAIN disk' : disk'[p] = disk[p]
  BY RemovedDisk
<1>2. CASE g.path # f.path
  BY <1>1, <1>2 DEF Whole
<1>3. CASE g.path = f.path
  BY <1>1, <1>3, StoredOver DEF Whole
<1> QED BY <1>2, <1>3

LEMMA StoredIsWhole ==
  ASSUME NEW f, disk' = Stored(f, TRUE)
  PROVE  Whole(f)'
  BY StoredDisk DEF Whole

Current == <<nextInput, nextType>>

LEMMA PassedNext ==
  ASSUME OptionsInv, MoreFiles, NextFile, UNCHANGED phase,
         NEW p \in Places, NEW n \in DOMAIN Files(TypeAt(p))
  PROVE  Passed(p, n)' <=> Passed(p, n) \/ (p = Current /\ n = nextFile)
<1>1. Ready /\ phase = "write" /\ nextInput \in Nat /\ nextType \in Nat /\ nextFile \in Nat
  BY TheOutput DEF OptionsInv
<1>2. p = <<p[1], p[2]>> /\ n \in Nat
  BY <1>1, PlacesAreTyped, FilesOfAType
<1>3. p = Current <=> p[1] = nextInput /\ p[2] = nextType
  BY <1>2 DEF Current
<1>4. Passed(p, n)' <=>
        \/ p[1] < nextInput
        \/ p[1] = nextInput /\ (p[2] < nextType \/ (p[2] = nextType /\ n < nextFile + 1))
  BY <1>1 DEF Passed, NextFile
<1>5. Passed(p, n) <=>
        \/ p[1] < nextInput
        \/ p[1] = nextInput /\ (p[2] < nextType \/ (p[2] = nextType /\ n < nextFile))
  BY <1>1 DEF Passed
<1>6. n < nextFile + 1 <=> n < nextFile \/ n = nextFile
  BY <1>1, <1>2
<1> QED BY <1>3, <1>4, <1>5, <1>6

\* The files generated for a native type with a source.
LEMMA AroundASource ==
  ASSUME OptionsInv, Ready, Task = "COMPILE", IsCppOutput(o), NEW t \in AllTypes,
         NEW s \in Range(Generate(t)), s.of = "source", NEW g \in Range(Generate(t))
  PROVE  /\ t \in DefinedType /\ t.kind # "parcelable"
         /\ s \in AllFiles /\ s.type = t.name
         /\ g \in AllFiles /\ g.type = t.name /\ g.check \in Looked
         /\ g.of = "source" => g = s
         /\ g.of # "source" => \E i \in 1 .. 3 : g.path = HeaderPath(t, i)
<1>1. PICK p \in Places : t = TypeAt(p)
  BY DEF AllTypes
<1>2. t \in DefinedType
  BY <1>1, PlacesAreTyped
<1>3. PICK n \in DOMAIN Files(t), m \in DOMAIN Files(t) : s = Files(t)[n] /\ g = Files(t)[m]
  BY <1>2, GeneratedAreFiles DEF Range
<1>4. "source" \in Native /\ s.of \in Native
  BY DEF Native
<1>5. t.kind # "parcelable"
  BY <1>2, <1>3, <1>4, FilesOfANative
<1>6. /\ s \in AllFiles /\ g \in AllFiles
      /\ s.type = t.name /\ g.type = t.name
  BY <1>1, <1>2, <1>3, TypesOfPlaces, FilesOfAType
<1>7. g.of \in Native
  <2>1. PICK of \in {InterfaceHeaders, ParcelHeaders}, check \in Looked :
          /\ Len(Generate(t)) = 4
          /\ Generate(t)[4] = File(OutputFile(t), "source", t, check)
          /\ \A i \in 1 .. 3 : Generate(t)[i] = File(HeaderPath(t, i), of[i], t, check)
    BY <1>2, <1>5, NativeFiles DEF FourFiles
  <2>2. DOMAIN Generate(t) = 1 .. 4
    BY <1>2, <2>1, GeneratedFiles, LenProperties
  <2>3. PICK i \in 1 .. 4 : g = Generate(t)[i]
    BY <2>2 DEF Range
  <2>4. i = 4 \/ i \in 1 .. 3
    OBVIOUS
  <2> QED BY <2>1, <2>3, <2>4, <1>4, HeadersAreNoSource DEF File
<1>8. /\ g.check \in Looked
      /\ g.of # "source" => \E i \in 1 .. 3 : g.path = HeaderPath(t, i)
  BY <1>2, <1>3, <1>7, FilesOfANative
<1>9. g.of = "source" => g = s
  BY <1>2, <1>3, <1>4, <1>7, FilesOfANative
<1> QED BY <1>2, <1>5, <1>6, <1>8, <1>9

\* A header of a type is written for every type of that name, before its source.
LEMMA HeadersOfAName ==
  ASSUME OptionsInv, Ready, Task = "COMPILE", IsCppOutput(o),
         NEW p \in Places, TypeAt(p).kind # "parcelable",
         NEW q \in Places, TypeAt(q).name = TypeAt(p).name, NEW i \in 1 .. 3
  PROVE  \E n \in DOMAIN Files(TypeAt(p)) :
           /\ n < Len(Files(TypeAt(p))) /\ Files(TypeAt(p))[n].path = HeaderPath(TypeAt(q), i)
           /\ Files(TypeAt(p))[n].of # "source" /\ Files(TypeAt(p))[n].check \in Looked
<1>1. TypeAt(p) \in DefinedType /\ TypeAt(q) \in DefinedType
  BY PlacesAreTyped
<1>2. HeaderPath(TypeAt(q), i) = HeaderPath(TypeAt(p), i)
  BY <1>1, BaseOfName, SamePath
<1> QED BY <1>1, <1>2, HeadersAreWritten

LEMMA WritesKeepSourceLast ==
  ASSUME OptionsInv, DoneInv, SourceComesLast, WriteFile
  PROVE  SourceComesLast'
<1>1. MoreFiles /\ disk' = Stored(Output, TRUE) /\ UNCHANGED <<prog, o>>
  BY DEF WriteFile
<1>2. /\ Ready /\ Generating /\ phase = "write" /\ Current \in Places
      /\ TypeAt(Current) = Type /\ Type \in DefinedType /\ nextFile \in DOMAIN Files(Type)
      /\ Output = Files(Type)[nextFile] /\ Output.type = Type.name /\ Output \in AllFiles
  BY <1>1, TheOutput DEF Current
<1>3. PICK f \in AllFiles, p \in Places : f = Output /\ p = Current
  BY <1>2
<1>4. \A g \in AllFiles :
        /\ Whole(g) => Whole(g)' \/ Shared(g)
        /\ Whole(g)' => Whole(g) \/ (g.path = f.path /\ g.of = f.of /\ g.type = f.type)
  BY <1>1, <1>3, WholeAfterStored
<1> SUFFICES ASSUME Task = "COMPILE", IsCppOutput(o), NEW t \in AllTypes,
                    NEW s \in Range(Generate(t)), s.of = "source", Whole(s)',
                    NEW g \in Range(Generate(t))
             PROVE  Whole(g)' \/ Shared(g) \/ Repeated(g)
  BY <1>1, SameFiles DEF SourceComesLast
<1>5. /\ t \in DefinedType /\ t.kind # "parcelable" /\ s \in AllFiles /\ s.type = t.name
      /\ g \in AllFiles /\ g.type = t.name
      /\ g.of = "source" => g = s
      /\ g.of # "source" => \E i \in 1 .. 3 : g.path = HeaderPath(t, i)
  BY <1>2, AroundASource
<1>6. CASE Whole(s)
  BY <1>4, <1>5, <1>6 DEF SourceComesLast
<1>7. CASE s.path = f.path /\ f.of = "source" /\ f.type = t.name /\ g = s
  BY <1>7
<1>8. CASE f.of = "source" /\ f.type = t.name /\ g.of # "source"
  <2>1. PICK q \in Places : t = TypeAt(q)
    BY DEF AllTypes
  <2>2. PICK i \in 1 .. 3 : g.path = HeaderPath(t, i)
    BY <1>5, <1>8
  <2>3. f.of \in Native
    BY <1>8 DEF Native
  <2>4. TypeAt(p).kind # "parcelable" /\ nextFile = Len(Files(TypeAt(p)))
    BY <1>2, <1>3, <1>8, <2>3, FilesOfANative
  <2>5. TypeAt(q).name = TypeAt(p).name
    BY <1>2, <1>3, <1>5, <1>8, <2>1
  <2>6. PICK n \in DOMAIN Files(TypeAt(p)) :
          /\ n < Len(Files(TypeAt(p))) /\ Files(TypeAt(p))[n].path = HeaderPath(TypeAt(q), i)
          /\ Files(TypeAt(p))[n].of # "source" /\ Files(TypeAt(p))[n].check \in Looked
    BY <1>2, <2>4, <2>5, HeadersOfAName
  <2>7. PICK h \in AllFiles : h = Files(TypeAt(p))[n]
    BY TypesOfPlaces
  <2>8. Passed(p, n)
    BY <1>2, <1>3, <2>4, <2>6 DEF Passed, Current
  <2>9. Whole(h) \/ Shared(h)
    BY <1>2, <2>6, <2>7, <2>8 DEF DoneInv, GoingWell, Looked
  <2>10. Whole(h)' \/ Shared(h)
    BY <1>4, <2>9
  <2>11. h.path = g.path
    BY <2>1, <2>2, <2>6, <2>7
  <2> QED BY <1>5, <2>10, <2>11, StoredOver
<1> QED BY <1>4, <1>5, <1>6, <1>7, <1>8

LEMMA WholeAfterFailure ==
  ASSUME OptionsInv, WriteFails, NEW f \in AllFiles, f = Output, NEW g \in AllFiles
  PROVE  /\ Whole(g) => Whole(g)' \/ Shared(g) \/ g = f
         /\ Whole(g)' => Whole(g)
<1>1. disk' = disk \/ disk' = Stored(f, FALSE) \/ disk' = Removed(f.path)
  BY DEF WriteFails
<1>2. CASE disk' = disk
  BY <1>2 DEF Whole
<1>3. CASE disk' = Stored(f, FALSE)
  BY <1>3, WholeAfterStored
<1>4. CASE disk' = Removed(f.path)
  BY <1>4, WholeAfterRemoved
<1> QED BY <1>1, <1>2, <1>3, <1>4

LEMMA FailuresKeepSourceLast ==
  ASSUME OptionsInv, OriginInv, SourceComesLast, WriteFails
  PROVE  SourceComesLast'
<1>1. MoreFiles /\ UNCHANGED <<prog, o>>
  BY DEF WriteFails
<1>2. /\ Ready /\ Generating /\ phase = "write" /\ Current \in Places
      /\ TypeAt(Current) = Type /\ Type \in DefinedType /\ nextFile \in DOMAIN Files(Type)
      /\ Output = Files(Type)[nextFile] /\ Output.type = Type.name /\ Output \in AllFiles
      /\ ~Passed(Current, nextFile)
  BY <1>1, TheOutput DEF Current
<1>3. PICK f \in AllFiles, p \in Places : f = Output /\ p = Current
  BY <1>2
<1>4. \A g \in AllFiles :
        /\ Whole(g) => Whole(g)' \/ Shared(g) \/ g = f
        /\ Whole(g)' => Whole(g)
  BY <1>3, WholeAfterFailure
<1> SUFFICES ASSUME Task = "COMPILE", IsCppOutput(o), NEW t \in AllTypes,
                    NEW s \in Range(Generate(t)), s.of = "source", Whole(s)',
                    NEW g \in Range(Generate(t))
             PROVE  Whole(g)' \/ Shared(g) \/ Repeated(g)
  BY <1>1, SameFiles DEF SourceComesLast
<1>5. /\ t \in DefinedType /\ t.kind # "parcelable" /\ s \in AllFiles /\ s.type = t.name
      /\ g \in AllFiles /\ g.type = t.name
      /\ g.of = "source" => g = s
      /\ g.of # "source" => \E i \in 1 .. 3 : g.path = HeaderPath(t, i)
  BY <1>2, AroundASource
<1>6. Whole(s) /\ (Whole(g) \/ Shared(g) \/ Repeated(g))
  BY <1>4, <1>5 DEF SourceComesLast
<1>7. CASE g = f /\ g.of # "source"
  <2>1. PICK i \in 1 .. 3 : g.path = HeaderPath(t, i)
    BY <1>5, <1>7
  <2>2. PICK r \in Places : t = TypeAt(r)
    BY DEF AllTypes
  <2>3. s.path \in DOMAIN disk /\ disk[s.path].of = "source" /\ disk[s.path].type = t.name
    BY <1>5, <1>6 DEF Whole
  <2>4. PICK q \in Places : \E n \in DOMAIN Files(TypeAt(q)) :
          /\ Passed(q, n) /\ Files(TypeAt(q))[n].of = "source"
          /\ Files(TypeAt(q))[n].type = t.name
    BY <1>2, <2>3 DEF OriginInv
  <2>5. PICK n \in DOMAIN Files(TypeAt(q)) :
          /\ Passed(q, n) /\ Files(TypeAt(q))[n].of = "source"
          /\ Files(TypeAt(q))[n].type = t.name
    BY <2>4
  <2>6. TypeAt(q) \in DefinedType /\ "source" \in Native
    BY PlacesAreTyped DEF Native
  <2>7. /\ TypeAt(q).kind # "parcelable" /\ n = Len(Files(TypeAt(q)))
        /\ TypeAt(q).name = TypeAt(r).name
    BY <1>2, <2>2, <2>5, <2>6, FilesOfANative, FilesOfAType
  <2>8. p # q
    <3>1. SUFFICES ASSUME p = q PROVE FALSE
      OBVIOUS
    <3>2. Passed(Current, Len(Files(Type))) /\ nextFile \in 1 .. Len(Files(Type))
      BY <1>2, <1>3, <2>5, <2>7, <3>1, FilesOfAType
    <3> QED BY <1>2, <3>2 DEF Passed, Current, OptionsInv
  <2>9. PICK m \in DOMAIN Files(TypeAt(q)) : Files(TypeAt(q))[m].path = HeaderPath(TypeAt(r), i)
    BY <1>2, <2>7, HeadersOfAName
  <2>10. PICK h \in AllFiles : h = Files(TypeAt(q))[m]
    BY TypesOfPlaces
  <2>11. CASE h # g
    BY <1>5, <2>1, <2>2, <2>9, <2>10, <2>11, StoredOver
  <2>12. CASE h = g
    <3>1. g \in Range(Files(TypeAt(q)))
      BY <2>10, <2>12 DEF Range
    <3>2. g \in Range(Files(TypeAt(p)))
      BY <1>2, <1>3, <1>7 DEF Range
    <3> QED BY <2>8, <3>1, <3>2 DEF Repeated
  <2> QED BY <2>11, <2>12
<1>8. CASE g = s
  BY <1>8
<1> QED BY <1>4, <1>5, <1>6, <1>7, <1>8

-----------------------------------------------------------------------------
(* Every step preserves the invariant.                                     *)

\* An action that writes a file, or fails to and goes on.
LEMMA AcceptedStays ==
  ASSUME AcceptedInv, phase = "write", NextFile, UNCHANGED <<prog, o, phase>>
  PROVE  AcceptedInv'
<1>1. Generating' = Generating /\ \A doc : Accepted(doc)' = Accepted(doc)
  BY SameFiles
<1>2. \A i : Document(o.inputs[i])' = Document(o.inputs[i])
  BY DEF Document
<1> QED BY <1>1, <1>2 DEF AcceptedInv, NextFile, GoingWell

LEMMA OriginStays ==
  ASSUME OptionsInv, OriginInv, MoreFiles, NextFile, UNCHANGED <<prog, o, phase>>,
         NEW f \in AllFiles, f = Output, NEW w \in BOOLEAN,
         disk' = disk \/ disk' = Stored(f, w)
  PROVE  OriginInv'
<1>1. PICK p \in Places : p = Current
  BY TheOutput DEF Current
<1>2. /\ Generating /\ phase = "write" /\ nextFile \in DOMAIN Files(TypeAt(p))
      /\ f = Files(TypeAt(p))[nextFile]
  BY <1>1, TheOutput DEF Current
<1>3. PICK k \in DOMAIN Files(TypeAt(p)) : k = nextFile
  BY <1>2
<1> SUFFICES ASSUME NEW path \in DOMAIN disk'
             PROVE  \E q \in Places : \E n \in DOMAIN Files(TypeAt(q)) :
                      /\ Passed(q, n)'
                      /\ Files(TypeAt(q))[n].path = path
                      /\ Files(TypeAt(q))[n].of = disk'[path].of
                      /\ Files(TypeAt(q))[n].type = disk'[path].type
  BY SameFiles DEF OriginInv
<1>4. CASE path \in DOMAIN disk /\ disk'[path] = disk[path]
  <2>1. PICK q \in Places : \E n \in DOMAIN Files(TypeAt(q)) :
          /\ Passed(q, n) /\ Files(TypeAt(q))[n].path = path
          /\ Files(TypeAt(q))[n].of = disk[path].of
          /\ Files(TypeAt(q))[n].type = disk[path].type
    BY <1>2, <1>4 DEF OriginInv
  <2>2. PICK n \in DOMAIN Files(TypeAt(q)) :
          /\ Passed(q, n) /\ Files(TypeAt(q))[n].path = path
          /\ Files(TypeAt(q))[n].of = disk[path].of
          /\ Files(TypeAt(q))[n].type = disk[path].type
    BY <2>1
  <2>3. Passed(q, n)'
    BY <2>2, PassedNext
  <2> QED BY <1>4, <2>2, <2>3
<1>5. CASE path = f.path /\ disk'[path].of = f.of /\ disk'[path].type = f.type
  <2>1. Passed(p, k)'
    BY <1>1, <1>3, PassedNext
  <2> QED BY <1>2, <1>3, <1>5, <2>1
<1>6. CASE disk' = Stored(f, w)
  <2>1. /\ DOMAIN disk' = DOMAIN disk \cup {f.path}
        /\ disk'[f.path] = [of |-> f.of, type |-> f.type, whole |-> w]
        /\ \A q \in DOMAIN disk : q # f.path => disk'[q] = disk[q]
    BY <1>6, StoredDisk
  <2>2. disk'[f.path].of = f.of /\ disk'[f.path].type = f.type
    BY <2>1
  <2> QED BY <1>4, <1>5, <2>1, <2>2
<1>7. CASE disk' = disk
  BY <1>4, <1>7
<1> QED BY <1>6, <1>7

LEMMA WriteStep ==
  ASSUME OptionsInv, DiskInv, WriteFile
  PROVE  DiskInv'
<1>1. /\ MoreFiles /\ disk' = Stored(Output, TRUE) /\ NextFile
      /\ UNCHANGED <<prog, o, phase>>
  BY DEF WriteFile
<1>2. /\ Ready /\ Generating /\ phase = "write" /\ Output \in AllFiles /\ Current \in Places
      /\ Output = Files(TypeAt(Current))[nextFile]
  BY <1>1, TheOutput DEF Current
<1>3. PICK f \in AllFiles : f = Output
  BY <1>2
<1>4. /\ DOMAIN disk' = DOMAIN disk \cup {f.path}
      /\ disk'[f.path] = [of |-> f.of, type |-> f.type, whole |-> TRUE]
      /\ \A path \in DOMAIN disk : path # f.path => disk'[path] = disk[path]
  BY <1>1, <1>3, StoredDisk
<1>5. DoneInv'
  <2>1. SUFFICES ASSUME NEW p \in Places, NEW n \in DOMAIN Files(TypeAt(p)), Passed(p, n)',
                        NEW g \in AllFiles, g = Files(TypeAt(p))[n], g.check \in Looked
                 PROVE  g.path \in DOMAIN disk' /\ (Whole(g)' \/ Shared(g))
    BY <1>1, SameFiles, TypesOfPlaces DEF DoneInv, Looked
  <2>2. Passed(p, n) \/ (p = Current /\ n = nextFile)
    BY <1>1, <2>1, PassedNext
  <2>3. CASE Passed(p, n)
    <3>1. g.path \in DOMAIN disk /\ (Whole(g) \/ Shared(g))
      BY <1>2, <2>1, <2>3 DEF DiskInv, DoneInv, GoingWell, Looked
    <3>2. Whole(g) => Whole(g)' \/ Shared(g)
      BY <1>1, <1>3, WholeAfterStored
    <3> QED BY <1>4, <3>1, <3>2
  <2>4. CASE p = Current /\ n = nextFile
    <3>1. g = f
      BY <1>2, <1>3, <2>1, <2>4
    <3>2. Whole(f)'
      BY <1>1, <1>3, StoredIsWhole
    <3> QED BY <1>4, <3>1, <3>2
  <2> QED BY <2>2, <2>3, <2>4
<1>6. AcceptedInv'
  BY <1>1, <1>2, AcceptedStays DEF DiskInv
<1>7. OriginInv'
  BY <1>1, <1>3, OriginStays DEF DiskInv
<1>8. NativeInv'
  <2>1. SUFFICES ASSUME IsCppOutput(o), NEW path \in DOMAIN disk', disk'[path].of \in Native
                 PROVE  disk'[path].whole
    BY <1>1, SameFiles DEF NativeInv
  <2>2. CASE path = f.path
    BY <1>4, <2>2
  <2>3. CASE path # f.path
    BY <1>2, <1>4, <2>1, <2>3 DEF DiskInv, NativeInv
  <2> QED BY <2>2, <2>3
<1>9. SourceComesLast'
  BY WritesKeepSourceLast DEF DiskInv
<1> QED BY <1>5, <1>6, <1>7, <1>8, <1>9 DEF DiskInv

\* No write whose failure goes unnoticed is one of native code.
LEMMA UnnoticedIsNotNative ==
  ASSUME OptionsInv, MoreFiles, IsCppOutput(o), Output.check \in {"ignore", "notice"}
  PROVE  Output.of \notin Native
<1>1. /\ Ready /\ Generating /\ Type \in DefinedType /\ nextFile \in DOMAIN Files(Type)
      /\ Output = Files(Type)[nextFile]
  BY TheOutput
<1>2. CASE Task = "COMPILE"
  BY <1>1, <1>2, FilesOfANative DEF Looked
<1>3. CASE Task # "COMPILE"
  BY <1>1, <1>3, FilesOfAType DEF Native
<1> QED BY <1>2, <1>3

LEMMA FailureStep ==
  ASSUME OptionsInv, DiskInv, WriteFails
  PROVE  DiskInv'
<1>1. /\ MoreFiles /\ UNCHANGED <<prog, o>>
      /\ \/ /\ Output.check \in {"ignore", "notice"} /\ NextFile /\ UNCHANGED <<phase, exit>>
            /\ disk' = disk \/ disk' = Stored(Output, FALSE)
         \/ disk' = Removed(Output.path) /\ Exit(1)
         \/ Die
  BY DEF WriteFails
<1>2. /\ Ready /\ Generating /\ phase = "write" /\ Output \in AllFiles /\ Current \in Places
      /\ Output = Files(TypeAt(Current))[nextFile]
  BY <1>1, TheOutput DEF Current
<1>3. PICK f \in AllFiles : f = Output
  BY <1>2
<1>4. SourceComesLast'
  BY FailuresKeepSourceLast DEF DiskInv
<1>5. CASE Output.check \in {"ignore", "notice"} /\ NextFile /\ UNCHANGED <<phase, exit>>
           /\ (disk' = disk \/ disk' = Stored(Output, FALSE))
  <2>1. AcceptedInv'
    BY <1>1, <1>2, <1>5, AcceptedStays DEF DiskInv
  <2>2. OriginInv'
    BY <1>1, <1>3, <1>5, OriginStays DEF DiskInv
  <2>3. disk' = Stored(f, FALSE) =>
          /\ DOMAIN disk' = DOMAIN disk \cup {f.path}
          /\ disk'[f.path] = [of |-> f.of, type |-> f.type, whole |-> FALSE]
          /\ \A path \in DOMAIN disk : path # f.path => disk'[path] = disk[path]
    BY StoredDisk
  <2>4. NativeInv'
    <3>1. SUFFICES ASSUME IsCppOutput(o), NEW path \in DOMAIN disk', disk'[path].of \in Native
                   PROVE  disk'[path].whole
      BY <1>1, SameFiles DEF NativeInv
    <3>2. f.of \notin Native
      BY <1>1, <1>3, <1>5, <3>1, UnnoticedIsNotNative
    <3>3. path \in DOMAIN disk /\ disk'[path] = disk[path]
      <4>1. CASE disk' = disk
        BY <3>1, <4>1
      <4>2. CASE disk' = Stored(f, FALSE)
        <5>1. disk'[f.path] = [of |-> f.of, type |-> f.type, whole |-> FALSE]
          BY <2>3, <4>2
        <5>2. disk'[f.path].of = f.of
          BY <5>1
        <5>3. path # f.path
          BY <3>1, <3>2, <5>2
        <5> QED BY <2>3, <3>1, <4>2, <5>3
      <4> QED BY <1>3, <1>5, <4>1, <4>2
    <3> QED BY <1>2, <3>1, <3>3 DEF DiskInv, NativeInv
  <2>5. DoneInv'
    <3>1. SUFFICES ASSUME NEW p \in Places, NEW n \in DOMAIN Files(TypeAt(p)), Passed(p, n)',
                          NEW g \in AllFiles, g = Files(TypeAt(p))[n], g.check \in Looked
                   PROVE  g.path \in DOMAIN disk' /\ (Whole(g)' \/ Shared(g))
      BY <1>1, SameFiles, TypesOfPlaces DEF DoneInv, Looked
    <3>2. f.check \notin Looked /\ g # f
      BY <1>3, <1>5, <3>1 DEF Looked
    <3>3. ~(p = Current /\ n = nextFile)
      BY <1>2, <1>3, <3>1, <3>2
    <3>4. Passed(p, n)
      BY <1>1, <1>5, <3>1, <3>3, PassedNext
    <3>5. g.path \in DOMAIN disk /\ (Whole(g) \/ Shared(g))
      BY <1>2, <3>1, <3>4 DEF DiskInv, DoneInv, GoingWell, Looked
    <3>6. Whole(g) => Whole(g)' \/ Shared(g)
      BY <1>3, <3>2, WholeAfterFailure
    <3> QED BY <1>3, <1>5, <2>3, <3>5, <3>6
  <2> QED BY <1>4, <2>1, <2>2, <2>4, <2>5 DEF DiskInv
<1>6. CASE Exit(1) /\ disk' = Removed(Output.path)
  <2>1. phase' = "exited" /\ ~GoingWell'
    BY <1>6 DEF Exit, GoingWell, Succeeded
  <2>2. NativeInv'
    <3>1. \A path \in DOMAIN disk' : path \in DOMAIN disk /\ disk'[path] = disk[path]
      BY <1>3, <1>6, RemovedDisk
    <3> QED BY <1>1, <1>2, <3>1 DEF DiskInv, NativeInv
  <2> QED BY <1>4, <2>1, <2>2 DEF DiskInv, AcceptedInv, DoneInv, OriginInv
<1>7. CASE Die
  <2>1. phase' = "died" /\ ~GoingWell'
    BY <1>7 DEF Die, GoingWell, Succeeded
  <2> QED BY <1>4, <2>1 DEF DiskInv, AcceptedInv, DoneInv, OriginInv, NativeInv
<1> QED BY <1>1, <1>5, <1>6, <1>7

\* A step that writes nothing, after which the same files come before the next.
LEMMA QuietStep ==
  ASSUME DiskInv, UNCHANGED <<prog, o, disk>>,
         phase = "died" => phase' = "died",
         Generating /\ GoingWell' => GoingWell,
         Generating /\ phase' \in {"load", "write"} => phase \in {"load", "write"},
         Generating /\ GoingWell' =>
           \A p \in Places : \A n \in DOMAIN Files(TypeAt(p)) : Passed(p, n)' <=> Passed(p, n),
         Generating /\ GoingWell' =>
           \A i \in DOMAIN o.inputs :
             i < nextInput' \/ (phase' = "write" /\ i = nextInput') =>
               Accepted(Document(o.inputs[i]))
  PROVE  DiskInv'
<1>1. /\ Generating' = Generating
      /\ Places' = Places /\ AllTypes' = AllTypes /\ Task' = Task
      /\ \A p : TypeAt(p)' = TypeAt(p)
      /\ \A t : Files(t)' = Files(t) /\ Generate(t)' = Generate(t)
      /\ \A f : Shared(f)' = Shared(f) /\ Repeated(f)' = Repeated(f)
      /\ \A doc : Accepted(doc)' = Accepted(doc)
  BY SameFiles
<1>2. \A f : Whole(f)' = Whole(f)
  BY DEF Whole
<1>3. AcceptedInv'
  <2>1. \A i : Document(o.inputs[i])' = Document(o.inputs[i])
    BY DEF Document
  <2> QED BY <1>1, <2>1 DEF AcceptedInv
<1>4. DoneInv'
  BY <1>1, <1>2 DEF DiskInv, DoneInv
<1>5. OriginInv'
  BY <1>1 DEF DiskInv, OriginInv, GoingWell
<1>6. NativeInv'
  BY DEF DiskInv, NativeInv
<1>7. SourceComesLast'
  BY <1>1, <1>2 DEF DiskInv, SourceComesLast
<1> QED BY <1>3, <1>4, <1>5, <1>6, <1>7 DEF DiskInv

\* Before anything is written.
LEMMA NothingWritten ==
  OptionsInv /\ disk = <<>> /\ nextInput = 1 /\ phase # "write" /\ ~Succeeded => DiskInv
<1> SUFFICES ASSUME OptionsInv, disk = <<>>, nextInput = 1, phase # "write", ~Succeeded
             PROVE  DiskInv
  OBVIOUS
<1>1. DOMAIN disk = {}
  OBVIOUS
<1>2. \A i \in DOMAIN o.inputs : ~(i < nextInput)
  BY InputsAreCounted
<1>3. \A p \in Places : \A n : ~Passed(p, n)
  BY <1>2, PlacesAreTyped DEF Passed
<1>4. \A f : ~Whole(f)
  BY <1>1 DEF Whole
<1> QED BY <1>1, <1>2, <1>3, <1>4
        DEF DiskInv, AcceptedInv, DoneInv, OriginInv, NativeInv, SourceComesLast

LEMMA OtherTasks ==
  ASSUME DiskInv, ~Generating, UNCHANGED <<prog, o>>, phase # "died",
         NEW f, f.of \notin Native, NEW w \in BOOLEAN, disk' = disk \/ disk' = Stored(f, w)
  PROVE  DiskInv'
<1>1. ~Generating' /\ Task' # "COMPILE" /\ ~Succeeded'
  BY SameFiles DEF Generating, Succeeded
<1>2. NativeInv'
  <2>1. CASE disk' = disk
    BY <2>1 DEF DiskInv, NativeInv
  <2>2. CASE disk' = Stored(f, w)
    <3>1. /\ DOMAIN disk' = DOMAIN disk \cup {f.path}
          /\ disk'[f.path] = [of |-> f.of, type |-> f.type, whole |-> w]
          /\ \A path \in DOMAIN disk : path # f.path => disk'[path] = disk[path]
      BY <2>2, StoredDisk
    <3>2. [of |-> f.of, type |-> f.type, whole |-> w].of = f.of
      OBVIOUS
    <3>3. disk'[f.path].of \notin Native
      BY <3>1, <3>2, Zenon
    <3> QED BY <3>1, <3>3 DEF DiskInv, NativeInv
  <2> QED BY <2>1, <2>2
<1> QED BY <1>1, <1>2 DEF DiskInv, AcceptedInv, DoneInv, OriginInv, SourceComesLast

LEMMA PlaceIsPositive ==
  ASSUME NEW p \in Places
  PROVE  /\ p[2] \in Nat \ {0}
         /\ p[2] \in 1 .. Len(Document(o.inputs[p[1]]).types)
         /\ Len(Document(o.inputs[p[1]]).types) \in Nat
<1>1. Document(o.inputs[p[1]]).types \in Seq(DefinedType)
  BY DocumentsAreTyped DEF AidlDocument
<1>2. p[2] \in 1 .. Len(Document(o.inputs[p[1]]).types)
  BY <1>1, PlacesAreTyped, LenProperties
<1> QED BY <1>1, <1>2, LenProperties

LEMMA DiskStep ==
  ASSUME IInv, [Next]_vars
  PROVE  DiskInv'
<1>0. OptionsInv /\ DiskInv
  BY DEF IInv
<1>1. OptionsInv'
  BY <1>0, OptionsStep
<1>2. (OptionsInv /\ disk = <<>> /\ nextInput = 1 /\ phase # "write" /\ ~Succeeded => DiskInv)'
  BY NothingWritten, PTL
<1>3. CASE Option \/ Usage \/ NoMoreOptions
  <2>1. phase = "options" /\ disk' = disk /\ nextInput' = nextInput
    BY <1>3 DEF Option, Usage, NoMoreOptions, positions
  <2>2. disk' = <<>> /\ nextInput' = 1 /\ o.inputs = <<>>
    BY <1>0, <2>1 DEF OptionsInv, Sensible
  <2>3. phase' # "write" /\ ~Succeeded'
    <3>1. CASE Option
      BY <2>1, <3>1 DEF Option, Exit, Succeeded
    <3>2. CASE Usage
      BY <2>1, <2>2, <3>2 DEF Usage, Exit, Succeeded
    <3>3. CASE NoMoreOptions
      <4>1. phase' = "load" \/ (phase' = "exited" /\ exit' = 1)
        BY <3>3 DEF NoMoreOptions, Exit
      <4> QED BY <4>1 DEF Succeeded
    <3> QED BY <1>3, <3>1, <3>2, <3>3
  <2> QED BY <1>1, <1>2, <2>2, <2>3
<1>4. CASE CheckApi \/ OpenList \/ ListInput \/ CloseList \/ MapInput \/ WriteMappings
  <2>1. phase # "died" /\ ~Generating /\ UNCHANGED <<prog, o>>
    BY <1>0, <1>4 DEF CheckApi, OpenList, ListInput, CloseList, MapInput, WriteMappings,
       Generating, OptionsInv, positions
  <2> DEFINE list == File(o.outputFile, "list", [name |-> "types"], "close")
             mappings == File(o.outputFile, "mappings", [name |-> "methods"], "ignore")
  <2>2. list.of \notin Native /\ mappings.of \notin Native
    BY DEF File, Native
  <2>3. \E f \in {list, mappings}, w \in BOOLEAN : disk' = disk \/ disk' = Stored(f, w)
    BY <1>4 DEF CheckApi, OpenList, ListInput, CloseList, MapInput, WriteMappings, List
  <2> HIDE DEF list, mappings
  <2> QED BY <1>0, <2>1, <2>2, <2>3, OtherTasks
<1>5. CASE LoadInput
  <2>1. /\ phase = "load" /\ Generating /\ More /\ UNCHANGED <<prog, o, disk>>
        /\ \/ /\ Accepted(Input) /\ phase' = "write" /\ UNCHANGED exit
              /\ nextType' = 1 /\ nextFile' = 1 /\ UNCHANGED nextInput
           \/ phase' = "exited" /\ exit' = 1
    BY <1>5 DEF LoadInput, Generating, Exit
  <2>2. CASE phase' = "exited" /\ exit' = 1
    BY <1>0, <2>1, <2>2, QuietStep DEF GoingWell, Succeeded
  <2>3. CASE /\ Accepted(Input) /\ phase' = "write" /\ UNCHANGED exit
             /\ nextType' = 1 /\ nextFile' = 1 /\ UNCHANGED nextInput
    <3>1. ASSUME NEW p \in Places, NEW n \in DOMAIN Files(TypeAt(p))
          PROVE  Passed(p, n)' <=> Passed(p, n)
      <4>1. p[2] \in Nat \ {0} /\ n \in Nat \ {0}
        <5>1. Ready
          BY <1>0, <2>1 DEF OptionsInv
        <5>2. n \in Nat \ {0}
          BY <1>0, <5>1, PlacesAreTyped, FilesOfAType
        <5> QED BY <5>2, PlaceIsPositive
      <4> QED BY <2>1, <2>3, <4>1 DEF Passed
    <3>2. \A i \in DOMAIN o.inputs :
            i < nextInput' \/ (phase' = "write" /\ i = nextInput') =>
              Accepted(Document(o.inputs[i]))
      BY <1>0, <2>1, <2>3 DEF DiskInv, AcceptedInv, GoingWell, Input
    <3> QED BY <1>0, <2>1, <2>3, <3>1, <3>2, QuietStep DEF GoingWell
  <2> QED BY <2>1, <2>2, <2>3
<1>6. CASE AllDone
  <2>1. /\ phase = "load" /\ Generating /\ UNCHANGED <<prog, o, disk, nextInput>>
        /\ phase' = "exited"
    BY <1>6 DEF AllDone, Generating, Exit, positions
  <2>2. \A p, n : Passed(p, n)' <=> Passed(p, n)
    BY <2>1 DEF Passed
  <2>3. \A i \in DOMAIN o.inputs : i < nextInput => Accepted(Document(o.inputs[i]))
    BY <1>0, <2>1 DEF DiskInv, AcceptedInv, GoingWell
  <2> QED BY <1>0, <2>1, <2>2, <2>3, QuietStep DEF GoingWell
<1>7. CASE TypeDone
  <2>1. /\ phase = "write" /\ MoreTypes /\ ~MoreFiles /\ UNCHANGED <<prog, o, disk, phase, nextInput>>
        /\ nextType' = nextType + 1 /\ nextFile' = 1
    BY <1>7 DEF TypeDone, MoreTypes
  <2>2. Ready /\ Generating /\ nextType \in Nat /\ nextFile \in Nat
    BY <1>0, <2>1 DEF OptionsInv
  <2>3. ASSUME NEW p \in Places, NEW n \in DOMAIN Files(TypeAt(p))
        PROVE  Passed(p, n)' <=> Passed(p, n)
    <3>1. n \in 1 .. Len(Files(TypeAt(p))) /\ Len(Files(TypeAt(p))) \in Nat
      BY <1>0, <2>2, PlacesAreTyped, FilesOfAType
    <3>2. p[2] \in Nat
      BY PlaceIsPositive
    <3>3. p[1] = nextInput /\ p[2] = nextType => n < nextFile
      <4>1. p[1] = nextInput /\ p[2] = nextType => TypeAt(p) = Type
        BY DEF TypeAt, Type, Input
      <4>2. nextFile > Len(Files(Type))
        <5>1. ~(nextFile <= Len(Files(Type)))
          BY <2>1 DEF MoreFiles
        <5> QED BY <2>2, <5>1
      <4> QED BY <2>2, <3>1, <4>1, <4>2
    <3> QED BY <2>1, <2>2, <3>1, <3>2, <3>3 DEF Passed
  <2>4. \A i \in DOMAIN o.inputs :
          i < nextInput \/ (phase = "write" /\ i = nextInput) => Accepted(Document(o.inputs[i]))
    BY <1>0, <2>1, <2>2 DEF DiskInv, AcceptedInv, GoingWell
  <2> QED BY <1>0, <2>1, <2>3, <2>4, QuietStep DEF GoingWell
<1>8. CASE InputDone
  <2>1. /\ phase = "write" /\ ~MoreTypes /\ UNCHANGED <<prog, o, disk>>
        /\ nextInput' = nextInput + 1 /\ phase' = "load"
    BY <1>8 DEF InputDone, NextInput
  <2>2. /\ Ready /\ Generating /\ nextType \in Nat /\ nextInput \in Nat
        /\ DOMAIN o.inputs = 1 .. Len(o.inputs)
    BY <1>0, <2>1, InputsAreCounted DEF OptionsInv
  <2>3. ASSUME NEW p \in Places, NEW n \in DOMAIN Files(TypeAt(p))
        PROVE  Passed(p, n)' <=> Passed(p, n)
    <3>1. p[1] \in Nat /\ p[2] \in 1 .. Len(Document(o.inputs[p[1]]).types)
          /\ Len(Document(o.inputs[p[1]]).types) \in Nat
      BY <1>0, PlaceIsPositive, InputsAreCounted, PlacesAreTyped
    <3>2. p[1] = nextInput => p[2] < nextType
      <4>1. ~(nextType <= Len(Input.types))
        BY <2>1 DEF MoreTypes
      <4>2. p[1] = nextInput => Len(Document(o.inputs[p[1]]).types) = Len(Input.types)
        BY DEF Input
      <4> QED BY <2>2, <3>1, <4>1, <4>2
    <3> QED BY <2>1, <2>2, <3>1, <3>2 DEF Passed
  <2>4. \A i \in DOMAIN o.inputs : i < nextInput + 1 => Accepted(Document(o.inputs[i]))
    BY <1>0, <2>1, <2>2 DEF DiskInv, AcceptedInv, GoingWell
  <2> QED BY <1>0, <2>1, <2>3, <2>4, QuietStep DEF GoingWell
<1>9. CASE WriteFile
  BY <1>0, <1>9, WriteStep
<1>10. CASE NoDirectory
  <2>1. /\ phase = "write" /\ UNCHANGED <<prog, o, disk>>
        /\ phase' = "died" \/ (phase' = "exited" /\ exit' = 1)
    BY <1>10 DEF NoDirectory, MoreFiles, MoreTypes, Exit, Die
  <2>2. ~GoingWell' /\ phase' \notin {"load", "write"}
    BY <2>1 DEF GoingWell, Succeeded
  <2> QED BY <1>0, <2>1, <2>2, QuietStep
<1>11. CASE WriteFails
  BY <1>0, <1>11, FailureStep
<1>12. CASE UNCHANGED vars
  <2>1. UNCHANGED <<prog, o, disk, phase, nextInput, nextType, nextFile, exit>>
    BY <1>12 DEF vars, positions
  <2>2. \A p, n : Passed(p, n)' <=> Passed(p, n)
    BY <2>1 DEF Passed
  <2>3. GoingWell' <=> GoingWell
    BY <2>1, SameFiles DEF GoingWell, Succeeded
  <2>4. Generating /\ GoingWell =>
          \A i \in DOMAIN o.inputs :
            i < nextInput \/ (phase = "write" /\ i = nextInput) =>
              Accepted(Document(o.inputs[i]))
    BY <1>0 DEF DiskInv, AcceptedInv
  <2> QED BY <1>0, <2>1, <2>2, <2>3, <2>4, QuietStep
<1> QED BY <1>3, <1>4, <1>5, <1>6, <1>7, <1>8, <1>9, <1>10, <1>11, <1>12 DEF Next

LEMMA InvariantInit == Init => IInv
<1> SUFFICES ASSUME Init PROVE IInv
  OBVIOUS
<1>1. OptionsInv
  BY OptionsInit
<1>2. disk = <<>> /\ nextInput = 1 /\ phase # "write" /\ ~Succeeded
  BY DEF Init, Succeeded
<1> QED BY <1>1, <1>2, NothingWritten DEF IInv

LEMMA InvariantStep == IInv /\ [Next]_vars => IInv'
  BY OptionsStep, DiskStep DEF IInv

THEOREM Invariant == Spec => []IInv
  BY InvariantInit, InvariantStep, PTL DEF Spec

-----------------------------------------------------------------------------
(* What follows for the files that are left.                               *)

\* Options, positions and exit codes keep their types; once options were
\* accepted there is an input and every file that may be written has a name.
THEOREM TypeOKAlways == Spec => []TypeOK
<1>1. IInv => TypeOK
  <2> SUFFICES ASSUME IInv PROVE TypeOK
    OBVIOUS
  <2>1. OptionsInv
    BY DEF IInv
  <2>2. ASSUME phase \notin {"options", "exited"}
        PROVE  /\ ~o.error /\ o.inputs # <<>> /\ nextInput \in 1 .. Len(o.inputs) + 1
               /\ o.task = "DUMP_API" => o.outputDir # <<>>
               /\ \A file \in AllFiles : file.path # <<>>
    <3>1. Ready
      BY <2>1, <2>2 DEF OptionsInv
    <3>2. nextInput \in 1 .. Len(o.inputs) + 1
      BY <2>1, <3>1, InputsAreCounted DEF OptionsInv, Ready
    <3>3. ASSUME NEW file \in AllFiles PROVE file.path # <<>>
      <4>1. PICK t \in AllTypes : file \in Range(Files(t))
        BY DEF AllFiles
      <4>2. t \in DefinedType
        BY PlacesAreTyped DEF AllTypes
      <4>3. file \in FileRecord
        BY <2>1, <3>1, <4>1, <4>2, FilesOfAType DEF Range
      <4> QED BY <4>3 DEF FileRecord
    <3> QED BY <3>1, <3>2, <3>3 DEF Ready
  <2> QED BY <2>1, <2>2 DEF TypeOK, OptionsInv
<1> QED BY <1>1, Invariant, PTL

\* A run that reports success found nothing wrong with any input.
THEOREM SuccessMeansValidAlways == Spec => []SuccessMeansValid
<1>1. IInv => SuccessMeansValid
  <2> SUFFICES ASSUME IInv, Succeeded
               PROVE  /\ Range(o.preprocessed) \cap Malformed = {}
                      /\ \A doc \in AllDocuments :
                           /\ doc.faults \subseteq
                                (IF o.structured THEN {} ELSE {"unstructured import"})
                           /\ \A t \in Range(doc.types) : Valid(doc, t)
    BY DEF SuccessMeansValid
  <2>1. OptionsInv /\ AcceptedInv /\ Generating /\ GoingWell /\ o.inputs # <<>>
    BY DEF IInv, DiskInv, Succeeded, Generating, GoingWell
  <2>2. nextInput = Len(o.inputs) + 1 /\ DOMAIN o.inputs = 1 .. Len(o.inputs)
        /\ Len(o.inputs) \in Nat
    BY <2>1, InputsAreCounted DEF OptionsInv
  <2>3. \A i \in DOMAIN o.inputs : Accepted(Document(o.inputs[i]))
    BY <2>1, <2>2 DEF AcceptedInv
  <2>4. o.task # "CHECK_API"
    BY <2>1 DEF OptionsInv, Generating, Task, Programs
  <2>5. 1 \in DOMAIN o.inputs
    <3>1. o.inputs \in Seq(Path)
      BY <2>1, InputsAreCounted
    <3>2. Len(o.inputs) # 0
      BY <2>1, <3>1
    <3> QED BY <2>2, <3>2
  <2>6. \A i \in DOMAIN o.inputs :
          /\ Range(o.preprocessed) \cap Malformed = {}
          /\ Document(o.inputs[i]).faults \subseteq
               (IF o.structured THEN {} ELSE {"unstructured import"})
          /\ \A t \in Range(Document(o.inputs[i]).types) : Valid(Document(o.inputs[i]), t)
    BY <2>3, <2>4, DocumentsAreTyped, AcceptedMeansValid
  <2> QED BY <2>5, <2>6 DEF AllDocuments
<1> QED BY <1>1, Invariant, PTL

LEMMA AllWritten ==
  ASSUME IInv, Succeeded, NEW t \in AllTypes
  PROVE  /\ OptionsInv /\ Ready /\ t \in DefinedType
         /\ \A file \in Range(Files(t)) :
              file.check \in Looked => file.path \in DOMAIN disk /\ (Whole(file) \/ Shared(file))
<1>1. OptionsInv /\ DoneInv /\ Generating /\ GoingWell
  BY DEF IInv, DiskInv, Succeeded, Generating, GoingWell
<1>2. PICK p \in Places : t = TypeAt(p)
  BY DEF AllTypes
<1>3. nextInput = Len(o.inputs) + 1 /\ p[1] \in 1 .. Len(o.inputs) /\ Len(o.inputs) \in Nat
  BY <1>1, InputsAreCounted, PlacesAreTyped DEF OptionsInv
<1>4. \A n : Passed(p, n)
  BY <1>3 DEF Passed
<1>5. Ready /\ t \in DefinedType
  BY <1>1, <1>2, PlacesAreTyped DEF OptionsInv
<1>6. ASSUME NEW file \in Range(Files(t)), file.check \in Looked
      PROVE  file.path \in DOMAIN disk /\ (Whole(file) \/ Shared(file))
  <2>1. PICK n \in DOMAIN Files(TypeAt(p)) : file = Files(TypeAt(p))[n]
    BY <1>2, <1>6 DEF Range
  <2> QED BY <1>1, <1>4, <1>6, <2>1 DEF DoneInv, Looked
<1> QED BY <1>1, <1>5, <1>6

\* A run that reports success left every native file whole.
THEOREM SuccessIsCompleteAlways == Spec => []SuccessIsComplete
<1>1. IInv => SuccessIsComplete
  BY AllWritten DEF SuccessIsComplete, AllFiles, Looked
<1> QED BY <1>1, Invariant, PTL

\* A part of a native file is removed, or the process died.
THEOREM NothingTruncatedIsKeptAlways == Spec => []NothingTruncatedIsKept
<1>1. IInv => NothingTruncatedIsKept
  BY DEF IInv, DiskInv, NativeInv, NothingTruncatedIsKept, Native
<1> QED BY <1>1, Invariant, PTL

\* Where the source of a native type is, its headers are, whatever failed.
THEOREM SourceComesLastAlways == Spec => []SourceComesLast
<1>1. IInv => SourceComesLast
  BY DEF IInv, DiskInv
<1> QED BY <1>1, Invariant, PTL

\* What a dependency file names exists when the compiler reports success.
THEOREM DepTargetsExistAlways == Spec => []DepTargetsExist
<1>1. IInv => DepTargetsExist
  <2> SUFFICES ASSUME IInv, Succeeded, IsCppOutput(o), Task = "COMPILE",
                      NEW t \in AllTypes, t.kind # "parcelable",
                      NEW path \in DepTargets(t), path \notin DOMAIN disk
               PROVE  o.language = <<"NDK">> /\ path # OutputFile(t)
    BY DEF DepTargetsExist
  <2>1. /\ OptionsInv /\ Ready /\ t \in DefinedType
        /\ \A file \in Range(Files(t)) : file.check \in Looked => file.path \in DOMAIN disk
    BY AllWritten
  <2>2. PICK d \in {0, 1}, check \in Looked, of \in {InterfaceHeaders, ParcelHeaders} :
          /\ Len(Files(t)) = d + 4
          /\ Files(t)[d + 4] = File(OutputFile(t), "source", t, check)
          /\ \A i \in 1 .. 3 : Files(t)[d + i] = File(HeaderPath(t, i), of[i], t, check)
    BY <2>1, NativeAt
  <2>3. DOMAIN Files(t) = 1 .. d + 4
    BY <2>1, <2>2, FilesOfAType
  <2>4. OutputFile(t) \in DOMAIN disk
    <3>1. d + 4 \in DOMAIN Files(t)
      BY <2>3
    <3>2. File(OutputFile(t), "source", t, check) \in Range(Files(t))
      BY <2>2, <3>1 DEF Range
    <3> QED BY <2>1, <2>2, <3>2 DEF File
  <2>5. ASSUME NEW i \in 1 .. 3 PROVE HeaderPath(t, i) \in DOMAIN disk
    <3>1. d + i \in DOMAIN Files(t)
      BY <2>3
    <3>2. File(HeaderPath(t, i), of[i], t, check) \in Range(Files(t))
      BY <2>2, <3>1 DEF Range
    <3> QED BY <2>1, <2>2, <3>2 DEF File
  <2>6. ASSUME o.language = <<"CPP">>, path # OutputFile(t) PROVE FALSE
    <3>1. PICK class \in {"RAW", "CLIENT", "SERVER"} :
            path = o.headerDir \o HeaderFile(t, class)
      BY <2>6 DEF DepTargets
    <3>2. ClassAt(1) = "RAW" /\ ClassAt(2) = "CLIENT" /\ ClassAt(3) = "SERVER"
      BY DEF ClassAt
    <3>3. PICK i \in 1 .. 3 : class = ClassAt(i)
      BY <3>2
    <3>4. Below = <<>>
      BY <2>6 DEF Below
    <3>5. HeaderPath(t, i) = o.headerDir \o HeaderFile(t, class)
      <4>1. o.headerDir \o <<>> = o.headerDir
        BY <2>1, SomePaths, ConcatEmptySeq DEF OptionsInv, Settings, Path
      <4> QED BY <3>3, <3>4, <4>1 DEF HeaderPath
    <3> QED BY <2>5, <3>1, <3>5
  <2> QED BY <2>4, <2>6 DEF IsCppOutput
<1> QED BY <1>1, Invariant, PTL

\* However the options are ordered, the same is done.
THEOREM OrderIsIrrelevantAlways == Spec => []OrderIsIrrelevant
<1>1. IInv => OrderIsIrrelevant
  <2> SUFFICES ASSUME IInv, phase = "options",
                      \A i, j \in DOMAIN given : i # j => ~Conflict(given[i], given[j])
               PROVE  o = ReadAll(ProgramDefaults, Reverse(given))
    BY DEF OrderIsIrrelevant
  <2>1. given \in Seq(OptionWith(Path)) /\ o = ReadAll(ProgramDefaults, given)
    BY DEF IInv, OptionsInv
  <2> QED BY <2>1, ProgramDefaultsAreSettings, OrderDoesNotMatter
<1> QED BY <1>1, Invariant, PTL
==============================================================================
