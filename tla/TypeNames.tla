-------------------------------- MODULE TypeNames --------------------------------
(***************************************************************************)
(* The loading phase of load_and_validate_aidl: where the names in a       *)
(* document are looked up. AidlTypenames resolves a name to a canonical    *)
(* one; the name space of the backend finds what is generated for it. Both *)
(* are filled from the document, preprocessed files, and imports; the name *)
(* space starts with the classes the backend has built in, which are not   *)
(* the same for C++ and Java.                                              *)
(*                                                                         *)
(* A name is a number, in the order of the strings. A type has two: the    *)
(* canonical one with its package, and the short one without, which is the *)
(* canonical one if there is no package. Either may be written.            *)
(***************************************************************************)
EXTENDS Naturals, Sequences, FiniteSets, SequencesExt

CONSTANTS
  Worlds,    \* records of the types, import statements and type specifiers of
             \* the main document, the lines of the preprocessed files, the
             \* documents below -I and among the inputs, and those of -m
  BuiltIns,  \* what Init() adds to the name space of each backend
  AidlName,  \* the names IsBuiltinTypename knows, and what they resolve to
  Invalid,   \* the names with a keyword in them
  Stubs      \* the Stub, Stub.Proxy and Default that Java adds for an interface

Langs == {"CPP", "JAVA"}
Name == Nat \ {0}
Classes(kinds) == [name : Name, short : Name, kind : kinds, header : BOOLEAN]
\* What a document can declare; only a parcelable names a C++ header. A helper
\* is a class that the generated code uses, and that no parcel holds.
Type == {t \in Classes({"interface", "structured", "parcelable"}) :
           t.kind = "interface" => t.name \in DOMAIN Stubs}
BuiltIn == Classes({"built_in", "helper"})
Entry == Type \cup BuiltIn \cup Classes({"generated"})
NoType == [name |-> 0, short |-> 0, kind |-> "none", header |-> FALSE]

\* A line of a preprocessed file names no header, or cannot be parsed.
Malformed == [name |-> 0, short |-> 0, kind |-> "malformed", header |-> FALSE]
Line == {t \in Type : t.kind = "parcelable" => ~t.header} \cup {Malformed}
File == [path : Name, place : Nat, types : Seq(Type)]
\* The path of an input file may end in several names: in a/b/C.aidl, in C too.
Input == [paths : SUBSET Name, types : Seq(Type)]

IsShortFor(name, t) == name = t.short
\* The name space of a backend: the full name, or the last with that short one.
FindTypeByCanonicalName(types, name) ==
  LET exact == {i \in DOMAIN types : types[i].name = name}
      short == {i \in DOMAIN types : IsShortFor(name, types[i])}
  IN  CASE exact # {} -> types[CHOOSE i \in exact : TRUE]
        [] exact = {} /\ short # {} ->
             types[CHOOSE i \in short : \A j \in short : j <= i]
        [] OTHER -> NoType

\* Documents, command lines and directories are finite, and Java has a class that
\* a parcel can hold for everything that IsBuiltinTypename knows.
ASSUME TypeNamesAssumption ==
  /\ Worlds \subseteq
       [types : Seq(Type), imports : SUBSET Name, specs : Seq(Name),
        preprocessed : Seq(Line), files : SUBSET File, inputs : Seq(Input),
        m : Seq(Seq(Type))]
  /\ \A w \in Worlds : IsFiniteSet(w.files)
  /\ BuiltIns \in [Langs -> Seq(BuiltIn)]
  /\ \A l \in Langs : \A i, j \in DOMAIN BuiltIns[l] :
       BuiltIns[l][i].name = BuiltIns[l][j].name => i = j
  /\ DOMAIN AidlName \subseteq Name
  /\ \A name \in DOMAIN AidlName :
       /\ AidlName[name] \in Name
       /\ FindTypeByCanonicalName(BuiltIns["JAVA"], AidlName[name]).kind = "built_in"
  /\ Invalid \subseteq Name
  /\ \A name \in DOMAIN Stubs :
       Stubs[name] \in Classes({"generated"}) \X Classes({"generated"})
                                             \X Classes({"generated"})

VARIABLES
  world,         \* the documents and the command line
  lang,          \* the compiler runs for C++ first, then for Java
  step,
  defined, preprocessed,  \* AidlTypenames
  space,         \* LanguageTypeNamespace: the types in the order added
  queue,         \* preprocessed lines or -m files to do
  candidates,    \* names that may have to be imported
  err,
  result         \* of each finished run

names == <<defined, preprocessed, space>>
vars == <<world, lang, step, names, queue, candidates, err, result>>

CanonicalNames(types) == {t.name : t \in types}
FirstOf(types) == CHOOSE t \in types : \A u \in types : t.name <= u.name

-----------------------------------------------------------------------------
(* Looking up.                                                             *)

TryGetPreprocessedFirst(name) ==  \* a mutant: short names prefer preprocessed
  LET exact(types) == {t \in types : t.name = name}
      short(types) == {t \in types : IsShortFor(name, t)}
  IN  CASE exact(defined) # {} -> FirstOf(exact(defined))
        [] exact(defined) = {} /\ exact(preprocessed) # {} ->
             FirstOf(exact(preprocessed))
        [] exact(defined \cup preprocessed) = {} /\ short(preprocessed) # {} ->
             FirstOf(short(preprocessed))
        [] exact(defined \cup preprocessed) = {} /\ short(preprocessed) = {}
             /\ short(defined) # {} -> FirstOf(short(defined))
        [] OTHER -> NoType
\* AidlTypenames: the full name before the short one, defined types before
\* preprocessed ones, and then the first in the order of names.
TryGetDefinedType(name) ==
  LET exact(types) == {t \in types : t.name = name}
      short(types) == {t \in types : IsShortFor(name, t)}
      choices == << exact(defined), exact(preprocessed),
                    short(defined), short(preprocessed) >>
      found == {i \in 1 .. 4 : choices[i] # {}}
  IN  IF found = {} THEN NoType
      ELSE FirstOf(choices[CHOOSE i \in found : \A j \in found : i <= j])

IsBuiltinTypename(name) == name \in DOMAIN AidlName
ResolveTypename(name) ==
  IF IsBuiltinTypename(name)
  THEN [name |-> AidlName[name], short |-> AidlName[name],
        kind |-> "built_in", header |-> FALSE]
  ELSE TryGetDefinedType(name)
HasImportType(name) == FindTypeByCanonicalName(space, name) # NoType

-----------------------------------------------------------------------------
(* Adding. The C++ backend cannot add a parcelable without a header, and   *)
(* does not look at what Add returns.                                      *)

KindOf(t) == CASE t.kind = "structured" -> "parcelable"
               [] t.kind = "helper" -> "built_in"
               [] OTHER -> t.kind
CanWriteToParcel(t) == t.kind \notin {"helper", "generated"}
Addable(l, t) == l = "CPP" => t.kind # "parcelable" \/ t.header

AddTwice(types, t) == Append(types, t)  \* a mutant: adds what is there
Add(types, t) ==
  IF FindTypeByCanonicalName(types, t.name) = NoType THEN Append(types, t) ELSE types
AcceptsNew(types, t) ==  \* a mutant: refuses what is there
  FindTypeByCanonicalName(types, t.name) = NoType
\* What Add returns: a class that was there must be a declared one of that kind.
Accepts(types, t) ==
  LET existing == FindTypeByCanonicalName(types, t.name)
  IN  existing # NoType => KindOf(existing) # "built_in" /\ KindOf(existing) = KindOf(t)

\* AddBinderType of Java: the name space after each of the four classes.
AddJavaInterface(types, t) ==
  LET stubs == Stubs[t.name]
      one == Add(types, t)
      two == Add(one, stubs[1])
      three == Add(two, stubs[2])
  IN  << one, two, three, Add(three, stubs[3]) >>
AddType(l, types, t) ==
  CASE ~Addable(l, t) -> types
    [] Addable(l, t) /\ l = "JAVA" /\ t.kind = "interface" ->
         AddJavaInterface(types, t)[4]
    [] OTHER -> Add(types, t)
\* What AddBinderType and AddParcelableType return.
Added(l, types, t) ==
  /\ Addable(l, t)
  /\ l = "JAVA" => Accepts(types, t)
  /\ l = "JAVA" /\ t.kind = "interface" =>
       \A k \in 1 .. 3 : Accepts(AddJavaInterface(types, t)[k], Stubs[t.name][k])

\* AddDefinedTypes: the name space after each type of a document.
AfterEach(types, doc) ==
  LET after[n \in 0 .. Len(doc)] ==
        IF n = 0 THEN types ELSE AddType(lang, after[n - 1], doc[n])
  IN  after
AddAll(types, doc) == AfterEach(types, doc)[Len(doc)]
AllAdded(types, doc) ==
  \A i \in DOMAIN doc : Added(lang, AfterEach(types, doc)[i - 1], doc[i])

\* Parser::Parse fails on a type that is already defined, here or elsewhere, or
\* has a keyword for a name, but has then defined the others.
Parses(doc) ==
  /\ \A i, j \in DOMAIN doc : doc[i].name = doc[j].name => i = j
  /\ \A i \in DOMAIN doc : doc[i].name \notin CanonicalNames(defined) \cup Invalid
Defined(doc) == defined \cup
  {doc[i] : i \in {j \in DOMAIN doc :
                    /\ doc[j].name \notin CanonicalNames(defined) \cup Invalid
                    /\ \A k \in 1 .. j - 1 : doc[k].name # doc[j].name}}

-----------------------------------------------------------------------------
\* A run of the compiler for one backend starts afresh.
Start(l) ==
  /\ lang' = l /\ step' = "parse"
  /\ defined' = {} /\ preprocessed' = {} /\ space' = BuiltIns[l]
  /\ err' = "OK"
Init ==
  /\ world \in Worlds
  /\ lang = "CPP" /\ step = "parse"
  /\ defined = {} /\ preprocessed = {} /\ space = BuiltIns["CPP"]
  /\ queue = <<>> /\ candidates = {} /\ err = "OK"
  /\ result = <<>>

\* load_and_validate_aidl returns; linked is what the backend found for each
\* type specifier, resolved what AidlTypenames did.
Return(error, resolved, linked) ==
  /\ result' = [l \in DOMAIN result \cup {lang} |->
                  IF l = lang
                  THEN [error |-> error, resolved |-> resolved, linked |-> linked]
                  ELSE result[l]]
  /\ IF lang = "CPP" THEN Start("JAVA")
     ELSE step' = "done" /\ UNCHANGED <<lang, names, err>>
Fail(error) == Return(error, <<>>, <<>>)

Goto(s) == step' = s /\ UNCHANGED <<lang, err, result>>

ParseMain ==
  /\ step = "parse"
  /\ \/ ~Parses(world.types) /\ Fail("PARSE_ERROR")
     \/ Parses(world.types) /\ ~AllAdded(space, world.types) /\ Fail("BAD_TYPE")
     \/ /\ Parses(world.types) /\ AllAdded(space, world.types)
        /\ defined' = Defined(world.types)
        /\ space' = AddAll(space, world.types)
        /\ UNCHANGED preprocessed
        /\ Goto("preprocessed")
  /\ queue' = world.preprocessed
  /\ UNCHANGED <<world, candidates>>

\* A line of a preprocessed file. A parcelable of a built-in name is skipped, and
\* nobody looks whether a type was added. After a malformed line the rest is read
\* in vain.
Skipped(t) == t.kind = "parcelable" /\ IsBuiltinTypename(t.short)
PreprocessedLine ==
  /\ step = "preprocessed" /\ queue # <<>>
  /\ LET t == Head(queue)
     IN  \/ t = Malformed /\ Fail("BAD_PRE_PROCESSED_FILE")
         \/ t # Malformed /\ Skipped(t) /\ UNCHANGED <<lang, step, names, err, result>>
         \/ /\ t # Malformed /\ ~Skipped(t)
            /\ space' = AddType(lang, space, t)
            /\ preprocessed' = IF t.name \in CanonicalNames(preprocessed) \cup Invalid
                               THEN preprocessed ELSE preprocessed \cup {t}
            /\ UNCHANGED <<lang, step, defined, err, result>>
  /\ queue' = Tail(queue)
  /\ UNCHANGED <<world, candidates>>

\* Import statements, and the names used: they may need no import.
Candidates ==
  /\ step = "preprocessed" /\ queue = <<>>
  /\ candidates' = (world.imports \cup ToSet(world.specs)) \ DOMAIN AidlName
  /\ Goto("import")
  /\ UNCHANGED <<world, names, queue>>

\* The documents at the path of a name below the -I directories, and the input
\* files that end in that path. Two files below -I are as good as none.
FindImportFile(name) ==
  LET below == {f \in world.files : f.path = name}
      inputs == {i \in DOMAIN world.inputs : name \in world.inputs[i].paths}
  IN  CASE Cardinality(below) = 1 -> {f.types : f \in below}
        [] below = {} /\ inputs # {} ->
             {world.inputs[CHOOSE i \in inputs : \A j \in inputs : i <= j].types}
        [] OTHER -> {}

\* The types of a document that was found are defined and added.
Load(doc) ==
  \/ /\ ~Parses(doc)
     /\ err' = "BAD_IMPORT"
     /\ defined' = Defined(doc)
     /\ UNCHANGED <<lang, step, preprocessed, space, result>>
  \/ Parses(doc) /\ ~AllAdded(space, doc) /\ Fail("BAD_TYPE")
  \/ /\ Parses(doc) /\ AllAdded(space, doc)
     /\ defined' = Defined(doc)
     /\ space' = AddAll(space, doc)
     /\ UNCHANGED <<lang, step, preprocessed, err, result>>

\* The candidates are a std::set: they are taken in the order of names.
Import ==
  /\ step = "import"
  /\ \E name \in candidates :
       /\ \A other \in candidates : name <= other
       /\ candidates' = candidates \ {name}
       /\ \/ /\ HasImportType(name)
             /\ UNCHANGED <<lang, step, names, err, result>>
          \/ /\ ~HasImportType(name) /\ FindImportFile(name) = {}
             /\ err' = IF name \in world.imports THEN "BAD_IMPORT" ELSE err
             /\ UNCHANGED <<lang, step, names, result>>
          \/ /\ ~HasImportType(name)
             /\ \E doc \in FindImportFile(name) : Load(doc)
  /\ UNCHANGED <<world, queue>>
Imported ==
  /\ step = "import" /\ candidates = {}
  /\ IF err # "OK" THEN Fail(err) ELSE Goto("file") /\ UNCHANGED names
  /\ queue' = world.m
  /\ UNCHANGED <<world, candidates>>

\* The files of -m are loaded whatever is known already.
ImportFile ==
  /\ step = "file" /\ queue # <<>>
  /\ Load(Head(queue))
  /\ queue' = Tail(queue)
  /\ UNCHANGED <<world, candidates>>
FilesImported ==
  /\ step = "file" /\ queue = <<>>
  /\ IF err # "OK" THEN Fail(err) ELSE Goto("resolve") /\ UNCHANGED names
  /\ UNCHANGED <<world, queue, candidates>>

\* A mutant: the backend looks for the name as it is written.
LinkWritten(spec) == FindTypeByCanonicalName(space, spec)
Link(spec) == FindTypeByCanonicalName(space, ResolveTypename(spec).name)
\* Parser::Resolve, and the link of each specifier to a type of the backend.
Resolve ==
  /\ step = "resolve"
  /\ LET resolved == [i \in DOMAIN world.specs |-> ResolveTypename(world.specs[i])]
         linked == [i \in DOMAIN world.specs |-> Link(world.specs[i])]
     IN  IF \A i \in DOMAIN world.specs :
              NoType \notin {resolved[i], linked[i]} /\ CanWriteToParcel(linked[i])
         THEN Return("OK", resolved, linked)
         ELSE Fail("BAD_TYPE")
  /\ UNCHANGED <<world, queue, candidates>>

Next ==
  \/ ParseMain \/ PreprocessedLine \/ Candidates
  \/ Import \/ Imported \/ ImportFile \/ FilesImported
  \/ Resolve

Spec == Init /\ [][Next]_vars

-----------------------------------------------------------------------------
\* No name is twice in one of the tables, and whatever is declared and the backend
\* knows, AidlTypenames knows as well, unless it has a keyword for a name.
Unique(types) == \A t, u \in types : t.name = u.name => t = u
TypeOK ==
  /\ world \in Worlds /\ lang \in Langs
  /\ step \in {"parse", "preprocessed", "import", "file", "resolve", "done"}
  /\ err \in {"OK", "BAD_IMPORT"}
  /\ defined \subseteq Type /\ Unique(defined)
  /\ preprocessed \subseteq Type /\ Unique(preprocessed)
  /\ space \in Seq(Entry)
  /\ \A i, j \in DOMAIN space : space[i].name = space[j].name => i = j
  /\ \A i \in DOMAIN space : space[i] \in Type =>
       space[i].name \in CanonicalNames(defined \cup preprocessed) \cup Invalid
  /\ candidates \subseteq Name
  /\ DOMAIN result = IF step = "done" THEN Langs
                     ELSE IF lang = "JAVA" THEN {"CPP"} ELSE {}

\* All types that a run of the compiler may come across.
Mentioned ==
  UNION ({ToSet(world.types),
          {t \in ToSet(world.preprocessed) : t # Malformed /\ ~Skipped(t)}}
         \cup {ToSet(f.types) : f \in world.files \cup ToSet(world.inputs)}
         \cup {ToSet(doc) : doc \in ToSet(world.m)})
\* What a specifier is taken for is what is generated for it: both tables mean
\* the same type, and in Java the same kind of type. The name space may have the
\* last type of that short name for a type without a package or a built-in one;
\* Java may have a class built in that a preprocessed file declares, or know it
\* from a document that splits its name in another way into package and class;
\* and the C++ name space may have the name as another kind of type.
NameSpacesAgree ==
  \A l \in DOMAIN result : \A i \in DOMAIN result[l].linked :
    LET resolved == result[l].resolved[i]
        linked == result[l].linked[i]
    IN  \/ /\ linked.name = resolved.name
           /\ l = "JAVA" => \/ KindOf(linked) = KindOf(resolved)
                            \/ /\ resolved \in ToSet(world.preprocessed)
                               /\ \/ KindOf(linked) = "built_in"
                                  \/ \E t \in Mentioned : t.name = resolved.name
                                                         /\ t.short # resolved.short
        \/ linked.name # resolved.name /\ IsShortFor(resolved.name, linked)

\* What takes the place of an import without a document being read: a class that
\* the backend has built in or generates, and a type that has the whole name for
\* its short one. A document may also define another type than its path says.
OtherClass(name) == \E i \in DOMAIN space :
  \/ space[i].name = name /\ space[i] \notin Type
  \/ space[i].name # name /\ IsShortFor(name, space[i])
Misplaced(name) ==
  \E doc \in FindImportFile(name) : name \notin CanonicalNames(ToSet(doc))
\* A short name means the type that an import statement names, unless that has no
\* package or another document that was loaded defines the short name too: a type
\* of a preprocessed file does not shadow an imported document. (Of preprocessed
\* types it is the first, whichever is imported.)
ImportDecides ==
  step = "resolve" =>
    \A name \in world.imports \ DOMAIN AidlName :
      \/ \E u \in defined \cup preprocessed :
           /\ u.name = name
           /\ LET t == TryGetDefinedType(u.short)
              IN  \/ t.name = u.short \/ t \in defined
                  \/ u \notin defined /\ t.name <= name
      \/ OtherClass(name) \/ Misplaced(name) \/ name \in Invalid

\* All names that are looked up.
Written ==
  (world.imports \ DOMAIN AidlName)
  \cup {IF IsBuiltinTypename(name) THEN AidlName[name] ELSE name :
          name \in ToSet(world.specs)}
\* C++ can add every type, no name is declared as two kinds of type or as a class
\* that a backend has built in or generates, and no name is built in as one thing
\* for C++ and another or nothing for Java.
Portable ==
  /\ \A t \in Mentioned : Addable("CPP", t)
  /\ \A t, u \in Mentioned :
       u.name = t.name \/ IsShortFor(t.name, u) => KindOf(u) = KindOf(t)
  /\ \A l \in Langs : \A t \in Mentioned :
       FindTypeByCanonicalName(BuiltIns[l], t.name) = NoType
  /\ \A name \in Written :
       FindTypeByCanonicalName(BuiltIns["CPP"], name).kind
         = FindTypeByCanonicalName(BuiltIns["JAVA"], name).kind
  /\ \A t \in Mentioned : t.kind = "interface" =>
       \A k \in 1 .. 3 : LET g == Stubs[t.name][k] IN
         /\ {g.name, g.short} \cap (Written \cup CanonicalNames(Mentioned)) = {}
         /\ \A u \in Mentioned : ~IsShortFor(g.name, u)
         /\ FindTypeByCanonicalName(BuiltIns["JAVA"], g.name) = NoType
\* The two backends accept the same portable documents, and mean the same types
\* by them.
BackendsAgree ==
  step = "done" /\ Portable =>
    /\ result["CPP"].error = result["JAVA"].error
    /\ result["CPP"].resolved = result["JAVA"].resolved
==============================================================================
