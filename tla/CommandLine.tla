------------------------------ MODULE CommandLine ------------------------------
(***************************************************************************)
(* Options::Options: what a command line of aidl or aidl-cpp asks for.     *)
(* A path is a sequence of names, <<>> where none is given. An option is a *)
(* record of its name in getopt_long and its argument, a sequence too.     *)
(***************************************************************************)
EXTENDS Naturals, Sequences

CONSTANTS
  AidlFiles,  \* the paths that end in ".aidl"
  Positive    \* the arguments that atoi turns into a positive number

Languages == {<<"JAVA">>, <<"CPP">>, <<"NDK">>}
Tasks == {"COMPILE", "PREPROCESS", "DUMP_API", "CHECK_API", "DUMP_MAPPINGS"}

IsCppOutput(o) == o.language \in {<<"CPP">>, <<"NDK">>}

\* aidl starts from JAVA, aidl-cpp from CPP.
Defaults(language) ==
  [language |-> language, langFound |-> FALSE, task |-> "COMPILE",
   structured |-> FALSE, failOnParcelable |-> FALSE, log |-> FALSE,
   version |-> <<>>, outputFile |-> <<>>, outputDir |-> <<>>,
   headerDir |-> <<>>, depFile |-> <<>>, autoDep |-> FALSE, ninja |-> FALSE,
   preprocessed |-> <<>>, importFiles |-> {}, inputs |-> <<>>, error |-> FALSE]

\* What Options holds when paths, versions and languages are of A, and an
\* option with an argument of A.
Settings(A) ==
  [language : A, langFound : BOOLEAN, task : Tasks,
   structured : BOOLEAN, failOnParcelable : BOOLEAN, log : BOOLEAN,
   version : A, outputFile : A, outputDir : A, headerDir : A, depFile : A,
   autoDep : BOOLEAN, ninja : BOOLEAN, preprocessed : Seq(A),
   importFiles : SUBSET A, inputs : Seq(A), error : BOOLEAN]
OptionWith(A) == [opt : STRING, arg : A]

Refused(o) == [o EXCEPT !.error = TRUE]

-----------------------------------------------------------------------------
(* One turn of the loop over getopt_long.                                  *)

SetLanguageResets(o, language) ==  \* a mutant: starts over with --lang
  IF o.language = <<"CPP">> \/ language \notin Languages THEN Refused(o)
  ELSE [o EXCEPT !.langFound = TRUE, !.language = language, !.task = "COMPILE",
                 !.structured = FALSE]
SetLanguage(o, language) ==
  IF o.language = <<"CPP">> \/ language \notin Languages THEN Refused(o)
  ELSE [o EXCEPT !.langFound = TRUE, !.language = language, !.task = "COMPILE"]

SetVersion(o, version) ==
  IF version \in Positive THEN [o EXCEPT !.version = version] ELSE Refused(o)

Apply(o, option) ==
  CASE option.opt = "lang"         -> SetLanguage(o, option.arg)
    [] option.opt = "preprocess"   -> [o EXCEPT !.task = "PREPROCESS"]
    [] option.opt = "dumpapi"      -> [o EXCEPT !.task = "DUMP_API"]
    [] option.opt = "checkapi"     -> [o EXCEPT !.task = "CHECK_API",
                                               !.structured = TRUE]
    [] option.opt = "apimapping"   -> [o EXCEPT !.task = "DUMP_MAPPINGS",
                                               !.outputFile = option.arg]
    [] option.opt = "import"       -> [o EXCEPT !.importFiles =
                                                   @ \cup {option.arg}]
    [] option.opt = "preprocessed" -> [o EXCEPT !.preprocessed =
                                                   Append(@, option.arg)]
    [] option.opt = "dep"          -> [o EXCEPT !.depFile = option.arg]
    [] option.opt = "out"          -> [o EXCEPT !.outputDir = option.arg]
    [] option.opt = "header_out"   -> [o EXCEPT !.headerDir = option.arg]
    [] option.opt = "ninja"        -> [o EXCEPT !.ninja = TRUE]
    [] option.opt = "structured"   -> [o EXCEPT !.structured = TRUE]
    [] option.opt = "a"            -> [o EXCEPT !.autoDep = TRUE]
    [] option.opt = "b"            -> [o EXCEPT !.failOnParcelable = TRUE]
    [] option.opt = "version"      -> SetVersion(o, option.arg)
    [] option.opt = "log"          -> [o EXCEPT !.log = TRUE]
    [] OTHER                       -> o  \* -I, -t, --transaction_names

\* The loop, from the options a program starts with.
ReadAll(defaults, options) ==
  LET after[n \in 0 .. Len(options)] ==
        IF n = 0 THEN defaults ELSE Apply(after[n - 1], options[n])
  IN  after[Len(options)]

\* Two options whose order matters: the same one twice, with its last
\* argument kept, or two that choose the task.
TaskOptions == {"lang", "preprocess", "dumpapi", "checkapi", "apimapping"}
Conflict(p, q) == p.opt = q.opt \/ {p.opt, q.opt} \subseteq TaskOptions

-----------------------------------------------------------------------------
(* The arguments that are not options.                                     *)

\* INPUT [OUTPUT] for Java; without OUTPUT and -o, next to the input.
JavaNextTo(path) == IF path \in AidlFiles THEN Append(path, "java")
                                          ELSE Append(path, "aidl.java")
LegacyJava(o, args) ==
  CASE Len(args) = 1 ->
         [o EXCEPT !.inputs = args,
                   !.outputFile = IF o.outputDir = <<>> THEN JavaNextTo(args[1])
                                                        ELSE @]
    [] Len(args) = 2 -> [o EXCEPT !.inputs = <<args[1]>>, !.outputFile = args[2]]
    [] OTHER -> Refused(o)

\* INPUT HEADER_DIR OUTPUT for C++.
LegacyCpp(o, args) ==
  IF Len(args) = 3
  THEN [o EXCEPT !.inputs = <<args[1]>>, !.headerDir = args[2],
                 !.outputFile = args[3]]
  ELSE Refused(o)

NewFormat(o, args) ==
  CASE o.task \in {"COMPILE", "DUMP_API"} ->
         IF Len(args) < 1 THEN Refused(o) ELSE [o EXCEPT !.inputs = args]
    [] o.task \in {"CHECK_API", "DUMP_MAPPINGS"} ->
         IF Len(args) < 2 THEN Refused(o) ELSE [o EXCEPT !.inputs = args]
    [] OTHER ->
         IF Len(args) < 2 THEN Refused(o)
         ELSE [o EXCEPT !.outputFile = Head(args), !.inputs = Tail(args)]

Positional(o, args) ==
  IF ~o.langFound /\ o.task = "COMPILE"
  THEN IF o.language = <<"JAVA">> THEN LegacyJava(o, args) ELSE LegacyCpp(o, args)
  ELSE NewFormat(o, args)

\* The combinations that are filtered out.
InvalidDirsNoOut(o) ==  \* a mutant: --out is not asked for
  /\ o.langFound /\ o.task = "COMPILE"
  /\ \/ IsCppOutput(o) /\ o.headerDir = <<>>
     \/ o.language = <<"JAVA">> /\ o.headerDir # <<>>
InvalidDirs(o) ==
  /\ o.langFound /\ o.task = "COMPILE"
  /\ \/ o.outputDir = <<>>
     \/ IsCppOutput(o) /\ o.headerDir = <<>>
     \/ o.language = <<"JAVA">> /\ o.headerDir # <<>>
InvalidCompile(o) ==
  /\ o.task = "COMPILE"
  /\ \/ \E i \in DOMAIN o.inputs : o.inputs[i] \notin AidlFiles
     \/ Len(o.inputs) > 1 /\ (o.outputFile # <<>> \/ o.depFile # <<>>)
     \/ o.log /\ ~IsCppOutput(o)
Invalid(o) ==
  \/ InvalidDirs(o)
  \/ InvalidCompile(o)
  \/ o.task = "PREPROCESS" /\ o.version # <<>>
  \/ o.task = "CHECK_API" /\ Len(o.inputs) # 2
  \/ o.task = "DUMP_API" /\ o.outputDir = <<>>

Finished(o, args) ==
  LET p == Positional(o, args)
  IN  IF p.error \/ Invalid(p) THEN Refused(p) ELSE p
==============================================================================
