-------------------------------- MODULE Compiler --------------------------------
(***************************************************************************)
(* One run of aidl or aidl-cpp: the options, the documents loaded one      *)
(* after another, the files written for each of their types, and what      *)
(* remains on disk when a document is bad or a file cannot be written.     *)
(***************************************************************************)
EXTENDS CommandLine, FiniteSets, SequencesExt

CONSTANTS
  Names,       \* the strings that paths and other arguments consist of
  Sources,     \* the .aidl files: a function from paths to Document
  Malformed,   \* the preprocessed and imported files that cannot be read
  Beginnings,  \* sequences of options that command lines begin with
  OptionSet,   \* options that may follow, at most MaxOptions of them
  MaxOptions,
  Arguments    \* sequences of paths that follow the options

Programs == {"aidl", "aidl-cpp"}
Path == Seq(Names)
\* What can be wrong with a document, or with one type it defines.
DocumentFault == {"syntax", "duplicate", "import", "reimport", "unresolved",
                  "unstructured import"}
TypeFault == {"invalid", "package", "ids"}
\* base is the name without its I; only methods have ids.
DefinedType ==
  {t \in [name : Names, base : Names, stable : BOOLEAN,
          kind : {"interface", "structured", "parcelable"},
          faults : SUBSET TypeFault] :
     "ids" \in t.faults => t.kind = "interface"}
AidlDocument == [types : Seq(DefinedType), faults : SUBSET DocumentFault]

\* The names of files are not empty.
ASSUME CompilerAssumption ==
  /\ {"JAVA", "CPP", "java", "aidl.java", "cpp", "h", "aidl", "d", "Bp", "Bn"}
       \subseteq Names
  /\ Sources \in [DOMAIN Sources -> AidlDocument]
  /\ \A p, q \in DOMAIN Sources :
       \A t \in Range(Sources[p].types), u \in Range(Sources[q].types) :
         t.name = u.name => t.base = u.base
  /\ Beginnings \subseteq Seq(OptionWith(Path)) /\ OptionSet \subseteq OptionWith(Path)
  /\ \A option \in OptionSet \cup UNION {Range(s) : s \in Beginnings} :
       option.opt = "apimapping" => option.arg # <<>>
  /\ Arguments \subseteq Seq(Path \ {<<>>})

VARIABLES
  prog,
  given,     \* the options read so far
  o,         \* the Options
  phase,
  nextInput, \* positions: the input to load or generate from, its type to
  nextType,  \* generate, and the file of that type to write
  nextFile,
  disk,      \* the files written: a function from paths
  exit       \* -1 before main returns

positions == <<nextInput, nextType, nextFile>>
vars == <<prog, given, o, phase, positions, disk, exit>>

\* aidl-cpp compiles, whatever the task.
Task == IF prog = "aidl-cpp" THEN "COMPILE" ELSE o.task

-----------------------------------------------------------------------------
(* load_and_validate_aidl: the first of its checks that fails.             *)

Check(bad, error) == IF bad THEN error ELSE "OK"
FirstError(errors) ==
  LET bad == {i \in DOMAIN errors : errors[i] # "OK"}
  IN  IF bad = {} THEN "OK" ELSE errors[Min(bad)]

\* What is parsed and imported before types are looked at.
DocumentError(doc) ==
  FirstError(<<
    Check("syntax" \in doc.faults, "PARSE_ERROR"),
    Check("duplicate" \in doc.faults, "BAD_TYPE"),
    Check(Range(o.preprocessed) \cap Malformed # {}, "BAD_PRE_PROCESSED_FILE"),
    Check("reimport" \in doc.faults, "BAD_TYPE"),
    Check("import" \in doc.faults, "BAD_IMPORT"),
    Check(o.importFiles \cap Malformed # {}, "BAD_IMPORT"),
    Check(o.task # "CHECK_API" /\ "unresolved" \in doc.faults, "BAD_TYPE") >>)

\* One defined type; checking an API does without other types.
TypeError(doc, t) ==
  IF t.kind = "parcelable"
  THEN FirstError(<<
         Check("invalid" \in t.faults, "BAD_TYPE"),
         Check(o.structured /\ ~t.stable, "NOT_STRUCTURED") >>)
  ELSE FirstError(<<
         Check(Len(doc.types) = 1 /\ "package" \in t.faults, "BAD_PACKAGE"),
         Check(o.task # "CHECK_API" /\ "invalid" \in t.faults, "BAD_TYPE"),
         Check(t.kind = "interface" /\ "ids" \in t.faults, "BAD_METHOD_ID") >>)

Error(doc) ==
  FirstError(<<
    DocumentError(doc),
    FirstError([k \in DOMAIN doc.types |-> TypeError(doc, doc.types[k])]),
    Check(o.structured /\ "unstructured import" \in doc.faults, "NOT_STRUCTURED") >>)

FoundParcelable(doc) == \E k \in DOMAIN doc.types : doc.types[k].kind = "parcelable"
LoadParcelableFirst(doc) ==  \* a mutant: returns at the first parcelable
  IF DocumentError(doc) = "OK" /\ FoundParcelable(doc) THEN "FOUND_PARCELABLE"
  ELSE Error(doc)
\* A declared parcelable is not an error until nothing else is.
Load(doc) ==
  IF Error(doc) = "OK" /\ FoundParcelable(doc) THEN "FOUND_PARCELABLE" ELSE Error(doc)

\* compile_aidl lets a declared parcelable pass, dump_api does not.
Accepted(doc) ==
  \/ Load(doc) = "OK"
  \/ Task = "COMPILE" /\ Load(doc) = "FOUND_PARCELABLE" /\ ~o.failOnParcelable

-----------------------------------------------------------------------------
(* The files written for one type.                                         *)

\* A name without its I and with the prefix of the class, then an extension.
ClassName(t, class) ==
  CASE class = "CLIENT" -> <<"Bp", t.base>>
    [] class = "SERVER" -> <<"Bn", t.base>>
    [] OTHER -> <<t.name>>
HeaderFile(t, class) == ClassName(t, class) \o <<"h">>
\* NdkHeaderFile: the same, in a directory of its own.
NdkHeaders == <<"aidl">>

generate_outputFileName(t) ==
  o.outputDir \o <<t.name, IF IsCppOutput(o) THEN "cpp" ELSE "java">>
OutputFile(t) ==
  CASE o.outputFile # <<>> -> o.outputFile
    [] o.outputFile = <<>> /\ o.outputDir # <<>> -> generate_outputFileName(t)
    [] OTHER -> <<>>

\* What becomes of a write that fails: the stream is closed, the file removed
\* and false returned ("close"); CHECK aborts the process; nobody looks
\* ("ignore"); or a missing directory is noticed, but not a failed write.
File(path, of, t, check) ==
  [path |-> path, of |-> of, type |-> t.name, check |-> check]

Headers(t, of, below, check) ==
  [i \in 1 .. 3 |->
     LET class == <<"RAW", "CLIENT", "SERVER">>[i]
     IN  File(o.headerDir \o below \o HeaderFile(t, class), of[i], t, check)]
InterfaceHeaders == <<"RAW", "CLIENT", "SERVER">>
\* A parcelable has no such classes: their headers hold an #error.
ParcelHeaders == <<"RAW", "#error", "#error">>

GenerateCpp(t) ==
  CASE t.kind = "interface" ->
         Headers(t, InterfaceHeaders, <<>>, "close")
         \o <<File(OutputFile(t), "source", t, "close")>>
    [] t.kind = "structured" ->
         Headers(t, ParcelHeaders, <<>>, "abort")
         \o <<File(OutputFile(t), "source", t, "abort")>>
    [] OTHER -> <<File(OutputFile(t), "blank", t, "ignore")>>
GenerateNdkSourceFirst(t) ==  \* a mutant: the source before the headers
  <<File(OutputFile(t), "source", t, "abort")>>
  \o Headers(t, InterfaceHeaders, NdkHeaders, "abort")
GenerateNdk(t) ==
  CASE t.kind = "interface" ->
         Headers(t, InterfaceHeaders, NdkHeaders, "abort")
         \o <<File(OutputFile(t), "source", t, "abort")>>
    [] t.kind = "structured" ->
         Headers(t, ParcelHeaders, NdkHeaders, "abort")
         \o <<File(OutputFile(t), "source", t, "abort")>>
    [] OTHER -> <<File(OutputFile(t), "blank", t, "abort")>>
GenerateJava(t) ==
  <<File(OutputFile(t), IF t.kind = "parcelable" THEN "blank" ELSE "source",
         t, "ignore")>>
Generate(t) ==
  CASE o.language = <<"CPP">> -> GenerateCpp(t)
    [] o.language = <<"NDK">> -> GenerateNdk(t)
    [] OTHER -> GenerateJava(t)

\* write_dep_file, before anything is generated; its targets are the output
\* and, for make, three headers.
DepFile(t) == CASE o.depFile # <<>> -> o.depFile
                [] o.depFile = <<>> /\ o.autoDep -> Append(OutputFile(t), "d")
                [] OTHER -> <<>>
WriteDepFile(t) ==
  IF DepFile(t) = <<>> THEN <<>> ELSE <<File(DepFile(t), "dep", t, "notice")>>
DepTargetsBase(t) ==  \* a mutant: CLIENT and SERVER of the full name
  {OutputFile(t)} \cup
  (IF IsCppOutput(o) /\ ~o.ninja
   THEN {o.headerDir \o <<prefix, t.name, "h">> : prefix \in {"Bp", "Bn"}}
   ELSE {})
DepTargets(t) ==
  {OutputFile(t)} \cup
  (IF IsCppOutput(o) /\ ~o.ninja
   THEN {o.headerDir \o HeaderFile(t, class) : class \in {"RAW", "CLIENT", "SERVER"}}
   ELSE {})

Dump(t) == <<File(o.outputDir \o <<t.name, "aidl">>, "dump", t, "ignore")>>

Files(t) == IF Task = "COMPILE" THEN WriteDepFile(t) \o Generate(t) ELSE Dump(t)

-----------------------------------------------------------------------------
ProgramDefaults == Defaults(IF prog = "aidl" THEN <<"JAVA">> ELSE <<"CPP">>)
\* (A command line of aidl-cpp with --checkapi, which would generate code
\* without resolving types, is left out.)
Modelled(option) == prog = "aidl-cpp" => option.opt # "checkapi"

Init ==
  /\ prog \in Programs
  /\ given \in Beginnings /\ \A i \in DOMAIN given : Modelled(given[i])
  /\ o = ReadAll(ProgramDefaults, given)
  /\ ~o.error
  /\ phase = "options"
  /\ nextInput = 1 /\ nextType = 1 /\ nextFile = 1
  /\ disk = <<>>
  /\ exit = -1

\* main returns, or the process dies.
Exit(code) == phase' = "exited" /\ exit' = code
Die == phase' = "died" /\ UNCHANGED exit

\* An option of the command line.
Option ==
  /\ phase = "options"
  /\ \E option \in OptionSet :
       /\ Modelled(option)
       /\ Cardinality({i \in DOMAIN given : given[i] \in OptionSet}) < MaxOptions
       /\ given' = Append(given, option)
       /\ o' = Apply(o, option)
       /\ IF o'.error THEN Exit(1) ELSE UNCHANGED <<phase, exit>>
  /\ UNCHANGED <<prog, positions, disk>>

\* --help, or an option getopt_long does not know.
Usage ==
  /\ phase = "options"
  /\ \E code \in {0, 1} : Exit(code)
  /\ UNCHANGED <<prog, given, o, positions, disk>>

NoMoreOptions ==
  /\ phase = "options"
  /\ \E args \in Arguments : o' = Finished(o, args)
  /\ IF o'.error THEN Exit(1) ELSE phase' = "load" /\ UNCHANGED exit
  /\ UNCHANGED <<prog, given, positions, disk>>

\* Parser::Parse: a file that cannot be read is one that cannot be parsed.
Document(path) == IF path \in DOMAIN Sources THEN Sources[path]
                  ELSE [faults |-> {"syntax"}, types |-> <<>>]
More == nextInput <= Len(o.inputs)
Input == Document(o.inputs[nextInput])
NextInput == nextInput' = nextInput + 1 /\ UNCHANGED <<nextType, nextFile>>

\* The verdict of check_api is the subject of ApiCheck.
CheckApi ==
  /\ phase = "load" /\ Task = "CHECK_API"
  /\ \E code \in {0, 1} : Exit(code)
  /\ UNCHANGED <<prog, given, o, positions, disk>>

\* compile_aidl and dump_api: a fresh name space for every input.
LoadInput ==
  /\ phase = "load" /\ Task \in {"COMPILE", "DUMP_API"} /\ More
  /\ IF Accepted(Input)
     THEN /\ phase' = "write" /\ UNCHANGED exit
          /\ nextType' = 1 /\ nextFile' = 1 /\ UNCHANGED nextInput
     ELSE Exit(1) /\ UNCHANGED positions
  /\ UNCHANGED <<prog, given, o, disk>>
AllDone ==
  /\ phase = "load" /\ Task \in {"COMPILE", "DUMP_API"} /\ ~More
  /\ Exit(0)
  /\ UNCHANGED <<prog, given, o, positions, disk>>

\* The loop over the types of an input, and the files of each.
MoreTypes == phase = "write" /\ nextType <= Len(Input.types)
Type == Input.types[nextType]
MoreFiles == MoreTypes /\ nextFile <= Len(Files(Type))
Output == Files(Type)[nextFile]
NextFile == nextFile' = nextFile + 1 /\ UNCHANGED <<nextInput, nextType>>

TypeDone ==
  /\ MoreTypes /\ ~MoreFiles
  /\ nextType' = nextType + 1 /\ nextFile' = 1
  /\ UNCHANGED <<prog, given, o, phase, nextInput, disk, exit>>
InputDone ==
  /\ phase = "write" /\ ~MoreTypes
  /\ phase' = "load"
  /\ NextInput
  /\ UNCHANGED <<prog, given, o, disk, exit>>

Stored(file, whole) ==
  [p \in DOMAIN disk \cup {file.path} |->
     IF p = file.path THEN [of |-> file.of, type |-> file.type, whole |-> whole]
                      ELSE disk[p]]
Removed(path) == [p \in DOMAIN disk \ {path} |-> disk[p]]

WriteFile ==
  /\ MoreFiles
  /\ disk' = Stored(Output, TRUE)
  /\ NextFile
  /\ UNCHANGED <<prog, given, o, phase, exit>>
\* No directory for the file: GetCodeWriter returns a null pointer.
NoDirectory ==
  /\ MoreFiles
  /\ IF Output.check = "notice" THEN Exit(1) ELSE Die
  /\ UNCHANGED <<prog, given, o, positions, disk>>

WriteFailsUnnoticed ==  \* a mutant: the file is removed, true is returned
  /\ MoreFiles
  /\ \E left \in {disk, Stored(Output, FALSE)} :
       IF Output.check # "abort"
       THEN /\ disk' = IF Output.check = "close" THEN Removed(Output.path) ELSE left
            /\ NextFile
            /\ UNCHANGED <<phase, exit>>
       ELSE disk' = left /\ Die /\ UNCHANGED positions
  /\ UNCHANGED <<prog, given, o>>
WriteFailsKept ==  \* a mutant: the file is not removed
  /\ MoreFiles
  /\ \E left \in {disk, Stored(Output, FALSE)} :
       /\ disk' = left
       /\ CASE Output.check \in {"ignore", "notice"} -> NextFile /\ UNCHANGED <<phase, exit>>
            [] Output.check = "close" -> Exit(1) /\ UNCHANGED positions
            [] OTHER -> Die /\ UNCHANGED positions
  /\ UNCHANGED <<prog, given, o>>
\* The file cannot be opened, or only a part of it is written. Nobody looks whether
\* a file could be removed; it is assumed to be.
WriteFails ==
  /\ MoreFiles
  /\ \E left \in {disk, Stored(Output, FALSE)} :
       CASE Output.check \in {"ignore", "notice"} ->
              disk' = left /\ NextFile /\ UNCHANGED <<phase, exit>>
         [] Output.check = "close" ->
              disk' = Removed(Output.path) /\ Exit(1) /\ UNCHANGED positions
         [] OTHER -> disk' = left /\ Die /\ UNCHANGED positions
  /\ UNCHANGED <<prog, given, o>>

\* preprocess_aidl opens its output before it parses the first input.
List(whole) == Stored(File(o.outputFile, "list", [name |-> "types"], "close"), whole)
OpenList ==
  /\ phase = "load" /\ Task = "PREPROCESS"
  /\ \/ phase' = "list" /\ disk' = List(FALSE) /\ UNCHANGED exit
     \/ Exit(1) /\ UNCHANGED disk
     \/ "syntax" \notin Input.faults /\ Die /\ UNCHANGED disk
  /\ UNCHANGED <<prog, given, o, positions>>
ListInput ==
  /\ phase = "list" /\ More
  /\ \/ "syntax" \notin Input.faults /\ UNCHANGED <<phase, exit>>
     \/ Exit(1)
  /\ NextInput
  /\ UNCHANGED <<prog, given, o, disk>>
CloseList ==
  /\ phase = "list" /\ ~More
  /\ \/ disk' = List(TRUE) /\ Exit(0)
     \/ Exit(1) /\ UNCHANGED disk
  /\ UNCHANGED <<prog, given, o, positions>>

\* dump_mappings skips what it cannot load, and reports success.
MapInput ==
  /\ phase = "load" /\ Task = "DUMP_MAPPINGS" /\ More
  /\ NextInput
  /\ UNCHANGED <<prog, given, o, phase, disk, exit>>
WriteMappings ==
  /\ phase = "load" /\ Task = "DUMP_MAPPINGS" /\ ~More
  /\ \/ /\ \E whole \in BOOLEAN :
             disk' = Stored(File(o.outputFile, "mappings", [name |-> "methods"],
                                 "ignore"), whole)
        /\ Exit(0)
     \/ Exit(0) /\ UNCHANGED disk
     \/ Die /\ UNCHANGED disk
  /\ UNCHANGED <<prog, given, o, positions>>

Next ==
  \/ Option \/ Usage \/ NoMoreOptions
  \/ CheckApi
  \/ LoadInput \/ AllDone
  \/ TypeDone \/ InputDone
  \/ WriteFile \/ NoDirectory \/ WriteFails
  \/ OpenList \/ ListInput \/ CloseList
  \/ MapInput \/ WriteMappings

Spec == Init /\ [][Next]_vars

-----------------------------------------------------------------------------
\* Where types are defined: an input, and a position among its types.
Places == UNION {{i} \X DOMAIN Document(o.inputs[i]).types : i \in DOMAIN o.inputs}
TypeAt(place) == Document(o.inputs[place[1]]).types[place[2]]
AllDocuments == {Document(o.inputs[i]) : i \in DOMAIN o.inputs}
AllTypes == {TypeAt(place) : place \in Places}
AllFiles == UNION {Range(Files(t)) : t \in AllTypes}

\* Past the options there is something to do, and every file has a name: the
\* combinations without an output directory were filtered out, as the CHECK of
\* GetApiDumpPathFor has it.
TypeOK ==
  /\ prog \in Programs
  /\ phase \in {"options", "load", "write", "list", "exited", "died"}
  /\ exit \in {-1, 0, 1} /\ (exit = -1 <=> phase # "exited")
  /\ o \in Settings(Path) /\ o.language \in Languages
  /\ phase \notin {"options", "exited"} =>
       /\ ~o.error /\ o.inputs # <<>> /\ nextInput \in 1 .. Len(o.inputs) + 1
       /\ o.task = "DUMP_API" => o.outputDir # <<>>
       /\ \A file \in AllFiles : file.path # <<>>

\* Types with one -o path, or with names that differ only in their I.
Shared(file) == \E other \in AllFiles : other.path = file.path /\ other # file
\* An input given twice, or a type defined by two of them.
Repeated(file) ==
  \E p, q \in Places :
    p # q /\ file \in Range(Files(TypeAt(p))) \cap Range(Files(TypeAt(q)))
Whole(file) ==
  /\ file.path \in DOMAIN disk
  /\ disk[file.path] = [of |-> file.of, type |-> file.type, whole |-> TRUE]
Succeeded ==
  phase = "exited" /\ exit = 0 /\ o.inputs # <<>> /\ Task \in {"COMPILE", "DUMP_API"}

\* Nothing is generated from, and no dump made of, a set of inputs one of
\* which is wrong. The name of the file is only compared with that of a type
\* declared alone.
Valid(doc, t) ==
  IF t.kind = "parcelable"
  THEN /\ "invalid" \notin t.faults
       /\ Task = "COMPILE" /\ ~o.failOnParcelable
       /\ o.structured => t.stable
  ELSE t.faults \subseteq (IF Len(doc.types) > 1 THEN {"package"} ELSE {})
SuccessMeansValid ==
  Succeeded =>
    /\ Range(o.preprocessed) \cap Malformed = {}
    /\ \A doc \in AllDocuments :
         /\ doc.faults \subseteq (IF o.structured THEN {} ELSE {"unstructured import"})
         /\ \A t \in Range(doc.types) : Valid(doc, t)

\* A compilation that reports success has left every C++ and NDK file whole,
\* unless two types share the file. (Nobody looks whether Java is written.)
SuccessIsComplete ==
  Succeeded =>
    \A file \in AllFiles :
      file.check \in {"close", "abort"} => Whole(file) \/ Shared(file)

\* If main returns at all, a part of a native source or header is not left for
\* a later build to take for the whole.
NothingTruncatedIsKept ==
  phase = "exited" /\ IsCppOutput(o) =>
    \A path \in DOMAIN disk :
      disk[path].of \in {"source", "RAW", "CLIENT", "SERVER", "#error"} =>
        disk[path].whole

\* Whenever the source of a native type is there, so are its headers: whatever
\* fails, a build that waits for the source does not miss the others. (When a
\* type is generated for the second time its old source is still there.)
SourceComesLast ==
  Task = "COMPILE" /\ IsCppOutput(o) =>
    \A t \in AllTypes :
      (\E file \in Range(Generate(t)) : file.of = "source" /\ Whole(file)) =>
        \A file \in Range(Generate(t)) :
          Whole(file) \/ Shared(file) \/ Repeated(file)

\* The targets of a dependency file exist when the compiler reports success,
\* but for Java, and for headers named for make that are not generated: those
\* of a declared parcelable, and those of the NDK, which go below "aidl".
DepTargetsExist ==
  Succeeded /\ Task = "COMPILE" /\ IsCppOutput(o) =>
    \A t \in AllTypes :
      t.kind # "parcelable" /\ (\E file \in Range(WriteDepFile(t)) : Whole(file)) =>
        \A path \in DepTargets(t) :
          path \in DOMAIN disk \/ (o.language = <<"NDK">> /\ path # OutputFile(t))

\* The order of options does not matter, except that of a repeated option and
\* that of the options that choose the task.
OrderIsIrrelevant ==
  phase = "options"
  /\ (\A i, j \in DOMAIN given : i # j => ~Conflict(given[i], given[j])) =>
    o = ReadAll(ProgramDefaults, Reverse(given))
==============================================================================
