# The AIDL compiler in TLA+

This directory is a verification development of the AIDL compiler
(`src/`, commit as checked in): what the code it generates does at run time, when
proxies and stubs of three backends and of several API versions talk to each
other, and how the build keeps those versions compatible. TLA+ modules model the
code, TLC checks them on small instances, and TLAPS proves the most important
results for every value of the constants.

`PROJECT.json` lists the components, the runs, the mutants, the source lines each
definition stands for, the findings, the hazards and the theorems.

## 1. Inventory of the system

`aidl` (`aidl.cpp`, `main.cpp`) reads one or more `.aidl` files and, depending on
the options, generates a proxy and a stub in C++ (`generate_cpp.cpp`), NDK C++
(`generate_ndk.cpp`) or Java (`generate_java*.cpp`), dumps an API, compares two
dumps, preprocesses declarations or writes a table of transaction codes. Soong
(`build/aidl_interface.go`) calls it for every `aidl_interface` module. The
compiler itself is one sequential process. What runs concurrently is the code it
generates.

| Component | State | Operations | Talks to | What makes it correct |
|---|---|---|---|---|
| **Proxy** (`DefineClientTransaction`, `GenerateClientMethodDefinition`, `generate_proxy_method`) | the request and reply parcels of a call; `cached_version_` per proxy, shared by threads | marshal, `transact`, fall back to the default, unmarshal, `getInterfaceVersion` | binder, default implementation, Parcel | a reported success is what an implementation produced; a failure is reported; a call settles |
| **Stub** (`HandleServerTransaction`, `GenerateServerCaseDefinition`, `generate_stub_code`) | the parcels of a transaction | check the token, unmarshal, call the implementation, write status and results, `default:` | binder, the user's implementation | the implementation gets the arguments that were sent, each at its place; an error is not a result |
| **Default implementation** (`setDefaultImpl`, `getDefaultImpl`) | one static reference per process, no lock | test-and-set, two reads by each falling-back proxy | proxy | installed once; not used when null or destroyed; used only for calls nobody served |
| **Interface version** (`getInterfaceVersion`) | `VERSION` of the stub, the proxy's cache | ask, fill the cache, answer from it | proxy, stub | never a version the server does not have |
| **Structured parcelables** (`BuildParcelSource`, `GenerateParcelSource`, `generate_parcel_class`) | data position, start position, size | `writeToParcel`, `readFromParcel`, nested | Parcel, proxy, stub | versions agree on the fields both know; what follows is read from where it was written |
| **Transaction codes** (`check_and_assign_method_ids`) | id of each method | check explicit ids, number the others | loader, generators, dump | distinct within an interface; stable over versions |
| **API check** (`aidl_apicheck.cpp`) | two dumps | `check_api` | loader, build | accepts only what interoperates |
| **Freezing and build rules** (`build/aidl_interface.go`) | `versions` in `Android.bp`, `<api_dir>/<v>/`, timestamps | dump, freeze (several shell commands), check neighbours, build libraries | ninja, developers, `aidl` | a shipped version never changes, all shipped versions interoperate |
| **Compiler driver** (`main`, `load_and_validate_aidl`, `compile_aidl`, `dump_api`, `preprocess_aidl`, `dump_mappings`) | the inputs still to do, the files written so far, the exit status | load, validate, write the dependency file, generate, dump, list | options, parser, type names, generators, files | success means that every input was valid and every native file is whole; what a failure leaves behind is not taken for complete |
| **Type names and resolution** (`aidl_typenames.cpp`, `type_namespace.*`, `type_cpp.cpp`, `type_java.cpp`, `import_resolver.cpp`) | defined and preprocessed types; the name space of one backend | add, look up by full or by short name, find the file of an import | driver | both tables take a name for the same type, and so do both backends unless only one has it built in |
| **Language types** (`type_cpp.cpp`, `type_java.cpp`, `aidl_to_*.cpp`) | tables | accept a type, give the operations that write, create and read it | generators, Parcel | writer and reader of a type agree, whatever their backends; a null only goes where it is declared |
| **Syntax tree, parser** (`aidl_language.*`) | the tree of a file | `CheckValid`, `Write`, `Signature` | driver, API check | what is compared and dumped is all that matters on the wire |
| **Options** (`options.cpp`) | task, language, directories, inputs | one option after another, then the positional arguments, then a filter | driver | what is accepted names every output; the result does not depend on an unlucky order |
| **Preprocessed files, mappings** (`aidl.cpp`, `generate_aidl_mappings.cpp`) | lists of types and methods | read a line, write the list | driver, type names | a listed type does not shadow a document |
| **Output trees, writers** (`ast_*.cpp`, `code_writer.cpp`, `io_delegate.cpp`) | text, files | create directories, open, write, close, remove | generators | a truncated file does not outlive a failed run |
| **Module registry** (`aidlInterfaces` in Go) | a list and a mutex | append, look up | Soong | an import is found whatever the order of modules |

Outside the repository: libbinder, libbinder_ndk and `android.os` (parcels, the
driver, `IInterface::setDefaultImpl` of the C++ macro), Soong and ninja, `bpmodify`,
the shell, and the implementations users write.

**The hard behaviours** at run time are in the table's first eight rows. Any number of client
threads share one proxy, one version cache and one default implementation, all
unsynchronised. A server may die with a call queued or running, may be older or
newer than its client, may have been generated for another backend, and any parcel
operation may fail in the middle of a request or a reply. Readers and writers of
parcelables of different versions meet in nested data. Freezing an API is a shell
command that can stop anywhere, and only neighbouring versions are ever compared.
The compiler runs alone, but it writes many files one after another, and each write
can fail or the process can die in a `CHECK` between two of them; it keeps two tables
of names that are filled from five kinds of places in an order that matters; and it
holds three independent tables, one per backend, of which types there are and how
each is written, which meet only when two processes talk. The hazards in
`PROJECT.json` name the line where each bites.

## 2. Plan

Order: the run-time protocol first (it is where actors interleave), then the data
format, then compatibility over an API's life, then the compiler itself.

| # | Module | Models | Abstract specification | State |
|---|---|---|---|---|
| 1 | `Transaction`, `TransactionProperties` | proxies, stubs, default implementation, version cache | `RemoteCall` | done |
| 2 | `Parcelable` | structured parcelables of several versions and backends | (properties) | done |
| 3 | `ApiCheck` | transaction codes, dumps, `check_api` as operators | `WireCompatible` | done |
| 4 | `ApiHistory` (extends 3) | edits, freezes with interruptions, releases, builds | (properties) | done |
| 5 | `TransactionProofs`, `ApiHistoryProofs` | inductive invariants and theorems of 1 (control, parcels, types) and 4 | | done |
| 6 | `Marshalling` | one value of any type between any two backends | (properties) | done |
| 7 | `MarshallingProofs` | inductive invariant and theorems of 6 | | done |
| 8 | `CommandLine` | `Options` as a fold over the command line, as operators | a set of options without order | done |
| 9 | `Compiler` (extends 8) | one run of the compiler: loading input after input, every file written, every failure | "success: all valid, all whole" | done |
| 10 | `CommandLineProofs`, `CompilerProofs` | theorems of 8, inductive invariant and theorems of 9 | | done |
| 11 | `TypeNames` | `AidlTypenames`, both name spaces with what they have built in, `ImportResolver` | one table of names | done |
| 12 | `TypeNamesProofs` | inductive invariant and theorems of 11 | | done |
| 13 | `RefinementProofs` | every step of 1 is a step of `RemoteCall` or none | | done |
| 14 | `ParcelableProofs` | inductive invariants (bounds, layout) and theorems of 2 | | done |
| — | the module registry, the freeze rule's stale timestamp | `aidlInterfaces`, load hooks, ninja | | not modelled (section 6) |

## 3. The modules

### `Transaction`
One client and one server process, each generated for one backend of `Langs`;
`clientLang` and `serverLang` are chosen in `Init` and every action branches on
them where the generators differ. A parcel is a sequence of cells, one per parcel
operation of the generated code: the interface token, a value, an array's size, the
status header, a version. A cell carries the position of its argument, so a value
read at the wrong place is visible; what the value is does not matter. `InRequest` and
`InReply` are the arguments the generators' loops pick, `InOrder` lists them as the
loops meet them.

| Variable | Code |
|---|---|
| `defaultImpl`, `setter` | the static `default_impl_`/`sDefaultImpl`; the control state of each `setDefaultImpl` call |
| `cachedVersion` | `cached_version_`, `mCachedVersion` |
| `client`, `server` | where each call is in the proxy method and in `onTransact` |
| `method`, `request`, `received`, `reply`, `status`, `result` | the call's code, its two parcels, what the implementation was handed, what `transact()` returned, what the caller got |
| `using` | the default implementation object a call is inside of |
| `alive`, `served`, `serverVersion` | the server process, and the version of the interface it was built with |

Actions: `SetterCheck`/`SetterAssign`; `Transact` (marshal, possibly failing, and
send), `CachedAnswer`; `UnknownCode`, `ServeVersion`, `Unmarshal`, `ReturnOk`,
`ReturnException`, `ReturnUnknown` in the stub; `FallBack`, `EnterDefault`,
`LeaveDefault`, `Complete`, `CompleteVersion` in the proxy; `ServerDies`. Each is a
step of one thread between two points where another thread can be seen: the two
looks at the default implementation are two steps, unmarshalling of a private parcel
is one.

The C++, NDK and Java differences that are modelled: which parcel operations are
checked (NDK ignores two size operations), what a read past the end yields (Java:
zero), how a failure in the stub becomes a reply (C++ appends an exception to what
is written, Java replaces the reply, NDK returns the status), who checks a foreign
interface token, who has a fallback for the version method, and who destroys a
replaced default implementation (C++ and NDK).

External, modelled from how the generated code uses it: parcel reads, the C++
`setDefaultImpl` (a macro of libbinder), death of a server as `DEAD_OBJECT`, and
user code: an implementation succeeds, reports an exception, or (C++, NDK) returns
`UNKNOWN_TRANSACTION` as the generated Default class does; every parcel operation of
a value may fail with `BAD_VALUE` or `UNEXPECTED_NULL`, since user-written parcelables
may return any status. A Java server's user is taken to implement
`getInterfaceVersion` as `return VERSION`, as the generated comment asks.

### `TransactionProperties`, `RemoteCall`
The properties of `Transaction`, and the abstract service a caller sees: a call is
idle, pending, accepted (oneway) or settled; implementations run it at most once
each and the default one last; a value comes from one that ran.
`ImplementsRemoteCall` is the refinement: `phase` (`PhaseOf`), `ran` (`RanOf`) and
`outcome` are computed from `client`, `received`, `using` and `result`.

### `Parcelable`
One argument list is written by code of one backend and version and read by code of
another. `writing` and `reading` are the stacks of `writeToParcel` and
`readFromParcel` calls with `_aidl_start_pos`, size and the next field; `parcel` is a
sequence of cells of unit size. Actions are the parcel operations: `WriteInt`,
`WriteParcelable` (flag, placeholder of the size), `WriteNull`, `WriteEnd` (patch the
size), `Send`; `ReadInt`, `ReadParcelable`, `CheckSize` (after each field),
`ReadEnd`, `Receive`. Differences modelled: C++ does not skip to the end, Java reads
zero past the end and may write null, NDK reads a size even after a null. When the
reader takes a cell for something it is not, what follows is arbitrary and the model
stops with `"misread"`; the property says when that may happen.

Three things go wrong in the code, and each is a named exception of the properties.
`Unskipped`: a C++ reader does not skip what a newer writer appended. `Unchecked`: the
size is first looked at after a field was read, so the first field of a parcelable whose
writer had none gets the value that follows. `Strays`: when that first field is itself a
parcelable, the reader takes what follows for its flag and size, may seek anywhere, and
may not come back. Without the last two exceptions `Aligned` still has one of its own:
while the field of an `Emptied` parcelable is read (the innermost call), the position is
beyond the end; the size check after the field sets it right.

### `ApiCheck`, `ApiHistory`
`ApiCheck` has no state: an API is a function from type names to interfaces or
parcelables; `CodeOf`, `ValidIds`, `Dump` and `CheckApi` are the functions of
`aidl.cpp` and `aidl_apicheck.cpp`. `WireCompatible` is what they are meant to
guarantee, stated without them: the two sides give the same meaning to every
transaction code and to every field both know.

`ApiHistory` is the life of one `aidl_interface`. `versions` is the property in
`Android.bp`, `frozen` the dump directories, `step`/`version`/`dump` a freeze in
progress, `shipped` and `tip` what builds have compiled so far. The freeze rule is its
shell commands in order (`DumpApi`, `Clear`, `List`, `CopyFile` per file, `Touch`), and
`Interrupt` stops it anywhere; nothing is undone. `Build` requires every check the
build rules make, `CheckApi` between neighbours, and `diff` against the latest on a
released platform. A build and a freeze of one invocation are ordered: a build in the
same ninja run as a freeze compiles what a build before it would.

### `Marshalling`
`Transaction` takes a value for one cell whatever its type. `Marshalling` looks at that
cell: one argument, or the result, of one call, for every type of the language
(`AidlType`: a name, alone, in an array or in a `List`, `@nullable` or not), every
direction, and every pair of backends, with the interface itself annotated or not.

The first half is tables, each read off one function: what the compiler accepts
(`CheckValid`, `CanBeOutParameter`, the name spaces in `CppKnows` and `JavaKnows`, the
types `GetTypeAspect` of the NDK lacks), the form in which each backend writes a value
(`CppForm`, `NdkForm`, `JavaForm`), for which types the Java methods emit no code at
all (`JavaEmits`), which variables can hold a null (`HoldsNull`) and which operations
write and read one. A value is null, an opaque element, or a sequence of elements and
nulls; a parcel is a sequence of entries, the form and the value, and ends with the
argument that follows, so that a value nobody wrote shifts what is read.

| Variable | Code |
|---|---|
| `type`, `dir`, `context`, `client`, `server` | what is compiled: the type, its direction, `@nullable` of the interface, the backends |
| `sent`, `view` | the caller's variable before and after the call |
| `seen`, `made` | the argument of the implementation when it is called and when it returns |
| `parcel`, `phase` | the request or reply, and where the call is |

Actions: `Refuse`, `Abort`, `JavacFails`, `Build` (the verdicts of aidl, of the NDK
generator's `CHECK`, of javac on what Java code is emitted, or none); `WriteRequest`;
`ReadRequest`, `ReadLength` (an out array is made from the length that was sent),
`NewObject`, `NoArgument` in the stub; `WriteReply`, `NothingToWrite`; `ReadReply` (C++,
NDK, and every result), `JavaReadReply` (`ReadFromParcelFor` fills, reassigns or ignores
the caller's object). The implementation is the user's: it leaves any value its language
lets it leave. What the entries of a parcel do with nulls is libbinder's and
`android.os`'s, modelled from the operation that is called.

### `CommandLine`, `Compiler`
`CommandLine` has no state: `Apply` is one turn of the loop over `getopt_long`,
`Finished` what `Options::Options` does with the positional arguments and the
combinations it filters out. `Compiler` is a whole run of `aidl` or `aidl-cpp`.

| Variable | Code |
|---|---|
| `given`, `o` | the options read so far, the `Options` object |
| `phase` | where `main` is |
| `nextInput`, `nextType`, `nextFile` | where its loops are: the input, the type of that document, the file of that type that is written next |
| `disk` | the files there are: what they hold, for which type, and whether they are whole |
| `exit` | what `main` returned |

`Errors` lists the checks of `load_and_validate_aidl` in their order, for a document
whose faults are given; `Load` is the first that fails, where a declared parcelable is
an error only if nothing else is. `Files` are the writes of one type, each with what
becomes of it when it fails: the dependency file, then what the generator of its backend
writes, in order. Paths are sequences of `Names`, which contain the prefixes and
extensions the generators add; `CompilerAssumption` says that, that the name of a type
determines its name without the `I`, and that names of files are not empty. The model
keeps what the code does with a failed write: C++ interfaces close the stream, remove
that file and return false; C++ parcelables and the NDK die in a `CHECK`; Java, dumps,
mappings and empty outputs do not look. `NoDirectory` is `GetCodeWriter` returning a
null pointer, which everything but the dependency file dereferences. That a file is
removed is taken for granted (`io_delegate.cpp:188-194`): nobody looks at what `unlink`
returned.

### `TypeNames`
The loading phase of `load_and_validate_aidl`, once for C++ and once for Java on the same
documents. `defined` and `preprocessed` are the maps of `AidlTypenames`; `space` is
the `LanguageTypeNamespace` in the order types were added, which its lookup of short
names depends on. A name is a number, in the order of the strings; a type has its full
name and its short one, which are the same if it has no package.

The name space of a backend does not start empty: `Init()` fills it with `BuiltIns`, and
the tables of C++ (`type_cpp.cpp:367-468`) and of Java (`type_java.cpp:248-318`) differ.
Three other tables are constants: the names that `AidlTypenames` has built in and what it
resolves them to (`AidlName`), the names it refuses because of a keyword (`Invalid`), and
the `Stub`, `Stub.Proxy` and `Default` that Java adds for an interface (`Stubs`). `Add`
leaves a name space as it is that finds the name, be it by its short name; `Accepts` is
what it returns, and refuses to define a built-in class again. C++ does not look at it;
Java adds four classes for an interface and wants four times true.

The steps are the code's: `ParseMain`; `PreprocessedLine`, which fails on a malformed
line, skips a parcelable of a built-in name, never has a header for a parcelable, and
puts a type with a keyword for a name in the name space only; `Candidates` and `Import`
(`candidates` is a `std::set`, taken in the order of names; a candidate that the name space
finds, built-in classes included, is not looked for); `ImportFile` for `-m`; `Resolve`,
which resolves each type specifier with `AidlTypenames` and links it with the name space.
A document defines any number of types, and the loop of `AddDefinedTypes` over them is
`AfterEach`. Nobody checks that the file at the path of a name defines that name, and an
input file matches every name that its path ends in (`paths`).

Left out: the container types made from a declared one (arrays, `List`, `Map`: see
`Marshalling`) and the types that the document itself adds as links; the early return for
`void`; `check_api`, which does not resolve. A file that cannot be read or parsed counts
as a document that defines a name twice, or as a malformed line.

### MC modules
`MCTransaction`, `MCParcelable`, `MCApiHistory`, `MCMarshalling`, `MCCompiler` and
`MCTypeNames` define the constants of the runs.

## 4. The runs

| Run | What it checks | Bounds, and why they suffice |
|---|---|---|
| `rpc_call` | `TypeOK`, `ArgumentsArriveIntact`, `ResultIsWhatWasProduced`, `DefaultStandsIn` | One call: parcels are private to a call, so arguments and results of two calls cannot mix; the theorems of section 5 hold for any number of calls. Three signatures with in, out and inout arguments, an out array between two others, a return value, a oneway method; all 9 backend pairs; every set of served methods; every parcel operation failing with either status. |
| `rpc_default` | `VersionIsTheServers`, `DefaultSurvivesCalls`, `InstalledDefaultIsPermanent` | Two calls and two setters, all backends: races here are between two threads. No parcel faults. Symmetry in calls and setters (safety only). The theorems of section 5 remove these bounds. |
| `rpc_refine` | `ImplementsRemoteCall`, `StartedCallsSettle` | Two calls, a oneway and a two-way method, C++ and Java. No symmetry, because of liveness. |
| `parcelable` | `TypeOK`, `CommonFieldsAgree`, `Aligned` | Three levels of nesting, three versions, all backend pairs, values before, between and after parcelables: `Outer` and `Inner` grow in each version, `Leaf` and `Shell` are empty at first, and `Shell` begins with a parcelable in version 3 (`Strays`). Every boundary (equal, older, newer, empty) occurs at each depth. The theorems remove the bounds. |
| `api_history` | `TypeOK`, `ShippedVersionsInteroperate`, `TipInteroperates`, `NothingEmptyIsShipped`, `ShippedIsImmutable` | Three versions (the least where neighbours are not all pairs), seven sources: added, inserted and reordered methods, with and without ids, invalid ids, appended and inserted fields, a removed type. `MaxVersion` bounds freezes; the theorems remove the bound. |
| `marshalling` | `TypeOK`, `InArrives`, `OutArrives`, `NoMisread`, `FailsForCause`, `NullIsDeclared` | Every type whose name has a rule of its own (char, float and double go the way of int), every direction, all nine pairs of backends, both annotations; lengths 0 to 2, so that a null item can stand beside another item and arrays of two lengths can meet; two elements, one of them what a fresh object holds. The theorems remove the bounds on types, lengths and elements. |
| `compiler` | `TypeOK`, `SuccessMeansValid`, `SuccessIsComplete`, `NothingTruncatedIsKept`, `SourceComesLast`, `DepTargetsExist`, `OrderIsIrrelevant` | Six beginnings of command lines and any two further options, since options interact in pairs; one or two inputs; an interface and a parcelable whose files collide, a declared parcelable, documents with each kind of fault, two types in one document; the same input twice; every write may fail in every way. The theorems remove the bounds. |
| `type_names` | `TypeOK`, `NameSpacesAgree`, `ImportDecides`, `BackendsAgree` | One short name in two packages and in none: the least where short names are ambiguous. Each such type may come from the document, from up to two preprocessed lines, from one or two files below `-I`, from another input (found by its whole path or the end of it) and from `-m`, imported or not, as an interface or as a parcelable with or without a header; files may not define what their path says, `-m` may name two documents, and the document itself may be bad. Names that both backends have built in, that one has, or each as another class, that Java generates for an interface, or that hold a keyword are imported, written, declared in preprocessed files and defined in documents; a line may be malformed; a document and a preprocessed file may split one name in two ways. The theorems remove the bounds, and hold for any tables. |
| `marshal_java_out` (violation) | `JavaReadsIntoExisting` | Finding 4. |
| `rpc_null_reply` (violation) | `NullReferenceIsAnException` | Finding 1. |
| `rpc_java_version` (violation) | `MissingVersionIsReported` | Finding 2. |
| `parcelable_cpp_skip` (violation) | `ExtensionIsCompatible` | Finding 3. |

Every property of a passing run has a mutant: a plausible slip in one definition
under which TLC finds the property violated (definitions marked "Regression" or "a
mutant").
`CHECK_DEADLOCK FALSE`: a finished set of calls, a finished read, and a compiler that
has exited stop.

**What the runs show.** A caller is never handed a result nobody produced, with two
exceptions that are written into `ResultIsWhatWasProduced`: the zeros a Java proxy
makes up when the server does not know the method, and a late exception of a C++
stub (finding 1). An implementation is never handed wrong arguments, except through
the two NDK size operations whose status is not looked at, written into
`ArgumentsArriveIntact`. Only an unanswered call reaches the default implementation,
or one whose implementation asked for it by returning `UNKNOWN_TRANSACTION`, which
then runs twice. Parcelables of any two versions agree on common fields except for a
C++ reader with a newer writer (finding 3), and for a reader that meets a parcelable
whose writer had no field, because the size is first looked at after a field was read:
that one field gets whatever follows, and if it is a parcelable, the rest of the parcel
may be misread as well.

Two backends that both accept a type agree on where and in which form it lies in a
parcel, and an argument reaches the implementation as it was sent, for every type of
the language. Values also come back, except to a Java caller: `LostInJava` names the
types for which the proxy reassigns its parameter (finding 4), emits nothing
(`List<ParcelFileDescriptor>`, and lists of types the methods do not support, whose
failure no caller of the generator looks at), or appends to what the caller's untyped
list held. A call of accepted types fails only over a null, an object the Java caller
did not pass, or an array that a native implementation resized. `@nullable` on the
interface changes C++ only. The model also shows what is accepted and then does not
build: NDK types the generator has no mapping for abort it, and a pure out `Map` or
`ParcelFileDescriptor` makes a Java stub call a constructor that does not exist.

A compiler that reports success was given only valid documents (of a document with
several types the file name is not compared with the package), and its native files are
whole; whatever fails, a whole native source has its headers beside it. The exceptions
are written into the properties: when an input is given twice, or a type is defined by two
inputs, the source of the first time is still there while the headers of the second are
written (`Repeated`); an interface `IFoo` and a parcelable `Foo` of one
package share `BpFoo.h` and `BnFoo.h` and the last one written stays (`Shared`); nobody
looks at the writes of Java, of dumps and of mappings; a make-style dependency file of
the NDK names headers without their `aidl/` directory, and that of a declared
parcelable names headers that are never generated; and `-d` with several types in a
document keeps only the last type's file. Options that do not choose the task may be
given in any order.

The two name tables take every specifier that is accepted for the same type, in Java also
of the same kind, with the exceptions written into `NameSpacesAgree`. A name without a
package, which most built-in types have, is also a short name, and the name space may
link it to another type of that short name. Java takes a class that it has built in for
the type of that name a preprocessed file declares, since nobody looks whether a line
added anything; and a preprocessed file that splits a name in another way into package
and class than a document does may give it another kind. The C++ name space does not look
whether a name it already has is of the same kind, so an interface may be generated for
as a parcelable.

A short name means the imported type (`ImportDecides`), as long as the import was read at
all: `OtherClass` is the case that the name space finds the name without it, because the
backend has a class of that name built in or generates it, or a type has the whole name
for its short one. So in Java `import android.content.Context;` never opens the document,
and a preprocessed `foo.Context` is meant by `Context`. The other exceptions are a file
that does not define the name of its path (`Misplaced`) and a name with a keyword in it. A
preprocessed type does not shadow an imported document; of two preprocessed types with
one short name the first in the order of names is meant, whichever is imported.

Both backends accept the same documents only if these are `Portable`: parcelables have a
C++ header (those of a preprocessed file never have one), no name is declared as two
kinds of type, none is declared that a backend has built in or generates, and every name
that is written is built in for both backends as the same kind, or for neither. The run
without that condition shows the differences: `import java.lang.CharSequence;` needs no
file in Java and is `BAD_IMPORT` in C++, while a `parcelable Context` with a header in
`package android.content` is accepted for C++ and `BAD_TYPE` in Java.

**Findings.**
1. `generate_cpp.cpp:684`: a C++ stub that meets a null reference while it writes its
   reply appends the exception behind an OK header; the caller is told of success.
2. `generate_java_binder.cpp:828`: a Java proxy reports version 0 for a server without
   `getInterfaceVersion`, where the comment promises -1 from the default.
3. `generate_cpp.cpp:1073`: a C++ reader does not skip the fields a newer writer
   appended; the values that follow are read from the middle of the parcelable.
4. `aidl_to_java.cpp:612`: for out arrays of binders and of file descriptors a Java proxy
   assigns a new array to its parameter instead of filling the caller's, against
   `aidl_to_java.h:98`: what the implementation left is lost without an error.

**Fairness.** `Transaction!FairSpec` assumes weak fairness of each call's stub steps and
of its proxy steps after it has started: these are threads running generated code, and
implementations (the server's and the default one) that return. Nothing is assumed of
starting calls, setters or the death of the server. A binder thread for each queued
call is part of that assumption: a pool that is exhausted by calls that wait for each
other is not modelled. No other module has a liveness property. In `ApiHistory` developers
and interruptions owe nothing; the generated code of `Parcelable` and `Marshalling` and
the compiler of `Compiler` and `TypeNames` run straight on, each step using up a field, an
input, an option or a file, so that nothing could keep them from ending.

## 5. The proofs

**`TransactionProofs`** (any number of calls, setters, methods and versions, any
backends; from `TransactionAssumption`). `Invariance` proves `Spec => []IInv`, with
`IInv` the conjunction of

- `ControlInv`: types of the control variables, and what an idle, unfinished or running
  call cannot have yet;
- `DefaultInv`: a default implementation that is installed or in use belongs to a
  setter that returned true; a call between its two looks sees one; a crash has two
  installed setters;
- `VersionInv`: the cache holds -1 or the server's version, and (`VersionAnswer`) so
  does every reply to `getInterfaceVersion` on its way. The property alone is not
  inductive: a reply another thread has not read yet could fill the cache with anything.

There is one lemma per action, one step per part of the invariant it can disturb.
From `IInv`: `VersionIsTheServersAlways`, `DefaultSurvivesCallsAlways`, and
`InstalledDefaultIsPermanentAlways` (an action property: only `SetterAssign` writes the
static, and it needs a setter in `"checked"`).

The second part (`ParcelInvariance`, on top of `Invariance`) is about parcels and results.
For every call, `ParcelInv` says

- `ArgInv`: a queued request is whole, or lost a size in an NDK proxy (`Sendable`), and
  what an implementation was handed is what the property allows (`Intact`);
- `AnswerInv`: a finished transaction has left all results in order, or an exception, or
  nothing, or, in C++, some results with a late exception; a status other than OK
  comes with an empty reply, and `UNKNOWN_TRANSACTION` of a method the server has only
  from an implementation that ran;
- `OutcomeInv`: a result the caller was told was produced, and the default implementation
  is only reached over an unanswered call;
- `LinkInv`: where a call is in the client fits where it is in the server.

`ResultIsWhatWasProduced` alone is not inductive: without `AnswerInv` a reply that is on
its way could hold anything, and without `LinkInv` a stub could answer a call whose
caller has moved on to the default implementation. That proxy and stub enumerate the
same cells is `RequestShape` and `ReplyShape`. From it: `ArgumentsArriveIntactAlways`,
`ResultIsWhatWasProducedAlways`, `DefaultStandsInAlways`.

The third part proves `TypeOKAlways`, the type invariant. That an argument's place is a
number takes a fact about `InOrder`: each rank is taken (`EveryRankIsTaken`, by the least
position with enough before it). `CellInv` is the types of the parcels, statuses and
results; that a version is a number needs `VersionInv`.

**`RefinementProofs`** proves `ImplementsRemoteCallAlways`: under the refinement mapping
`PhaseOf`, `RanOf` and the caller's `result`, the initial states map to `RemoteCall!Init`
and every step to a step of `RemoteCall`, one lemma per action, or to a stutter
(`Stutter`: the steps whose effect the caller cannot see yet, such as a queued request,
an answer on its way, a look at the default implementation or the death of the server).
The lemmas need `IInv` and `ParcelInv`: that a settled value comes from an
implementation that ran is `ReadIsProduced`.

**`ParcelableProofs`** (any types, versions, nesting and backends; from
`ParcelableAssumption`). Readers set their position from sizes they find in the parcel,
so `TypeOK`, which keeps the position inside the parcel, is about what was written.
`IInv` says that every size cell ends inside the parcel (`Sized`), at each moment of the
writing, and so does every parcelable that is being read, whatever field the reader
takes it for; only the argument list has no size to check (`Invariance`).

`CommonFieldsAgree` and `Aligned` relate the whole history of the writing to the reading.
What links them is a *layout*: a function `at` from the paths of fields to data
positions. It is not a variable of the program, so the invariant says that one exists
(`LayoutInvariance == Spec => [](IInv /\ \E at : LayoutInv(at))`), and each step of the
writer extends it by at most one place and shows the conjuncts of `Layout` again:

- `PlacesInv`, `AroundInv`, `EndInv`: places are positions inside the parcel, and the
  parcelables around a place began with a flag and a size before it;
- `OpenInv`, `LatestInv`: how far the stack of writers is, and that nothing was written
  beyond it; `ApartInv`: no two fields start at one place;
- `CompleteInv`: the field after a finished one starts where it ends, which for a
  parcelable is what its size says, and so do all fields its writer had not;
- `IntsInv`: an int in the parcel is the one of its path.

The reader is then `OnTrack`: before a field it stands at that field's place (`AtField`),
after a field at the place of the next (`AfterField`), and the start and size of each of
its frames are those of the writer (`Entered`). `GotRight` says that what was assigned is
what was written, `AllAhead` that every field both sides know was assigned or comes
later in the reader's order (`Ahead`); neither property is inductive without them, as
a call that returned early could not be told from one that skipped a field. All of the
reader's part is under `~Unskipped /\ ~Strays`. The proof found both `Strays` and the
exception of `Aligned`: the run had no parcelable that is empty first and begins with a
parcelable later, so that the properties had held without them; the run has one now.

**`ApiHistoryProofs`** (any sources, any number of versions; from `ApiCheckAssumption` and
`ApiHistoryAssumption`). The heart is about `CheckApi`: `Compatible` is reflexive and
transitive on well-formed APIs, so a chain of neighbours relates its ends
(`CompatibleChain`, by the least index where it would not, since induction rules over
predicates are not available); codes within a valid interface are distinct
(`CodesAreDistinct`), so that compatible APIs are wire compatible
(`CompatibleIsWireCompatible`, which is where a repeated code or a moved field would
break). `IInv` says that listed versions are 1, 2, ..., that a freeze in progress
writes only the version after the last shipped one, that shipped pairs are the frozen
files of listed versions and form a chain. From it: `ShippedVersionsInteroperateAlways`,
`TipInteroperatesAlways`, `ShippedIsImmutableAlways`, `NothingEmptyIsShippedAlways`,
`TypeOKAlways`.

**`MarshallingProofs`** (any set of types, lengths and elements, any backends; from
`MarshallingAssumption`, which says no more than that null, elements and sequences
differ). The lemmas first compare the tables: a type that two backends can use has one
form in both (`WiresAgree`), Java emits code for whatever a native backend knows
(`CppKnowsWhatJavaEmits`, `EmitsAgree`), and a null that one end has and the other
reads is one the other's variable can hold (`NullsFit`, `NullItemsFit`, and from them
`WhatIsReadIsHeld`). `WrittenIsInPlace` concludes that what one end wrote the other
finds. `IInv` adds to the properties what they need of each other: a call is only
made of code that compiled (`BuiltInv`), the caller's variable and the request hold
what was sent (`RequestInv`), a Java implementation has an array of the caller's length
(`SizeInv`), so that the array in the reply has it too (`ReplyInv`). Without
`SizeInv` the failure of a Java proxy over an array's length could not be put down to a
native implementation. One lemma per action, with `ReceivedStep`, `FailedStep` and
`DeliveredStep` for the three ways a step can end.

**`CommandLineProofs`** (any options and arguments, any set of `.aidl` paths). `ApplyUpdates`
rewrites each option as an update of the few fields it touches, each computed from that
field alone. Two options that do not conflict touch nothing in common but flags that both
set (`OnlyFlagsInCommon`), and only `--lang` looks at the language that only `--lang`
changes (`SameTouched`); so `OptionsCommute`. `OrderDoesNotMatter` carries that from two
options to a command line: options without conflict, in reverse, have the same result.
The induction it needs, over prefixes, is by the least prefix for which it fails.
`RefusalStays` and `CompilationsHaveOutputs` are about what is accepted in the end.

**`CompilerProofs`** (any documents, options, arguments and failing writes; from
`CompilerAssumption`). `IInv` has five parts besides `SourceComesLast`:

- `OptionsInv`: types; while options are read, `o` is what reading `given` from the
  beginning yields; past them `Ready` holds, what accepted options ensure;
- `AcceptedInv`: every input before the one at hand was accepted, and `AcceptedMeansValid`
  says what that means, check by check;
- `DoneInv`: every file before the position `nextInput`, `nextType`, `nextFile` whose write
  somebody looks at (`Passed`) is whole, or another file of its path was written since;
- `OriginInv`: nothing is on disk but files before that position;
- `NativeInv`: a part of a native file is only there when the process has died.

`SourceComesLast` needs `DoneInv` for the headers that precede a source and `OriginInv`
for a source that is already there, which must be of an earlier place of the same file:
the proof showed that this makes the property false for an input that is given
twice, which the run had not tried. It now has the exception `Repeated`, and the run
the input. From `IInv`: all seven properties of the run.

**`TypeNamesProofs`** (any documents and command line, any tables of built-in, generated
and refused names; from `TypeNamesAssumption`, which says that documents and command
lines are finite, that no name is built in twice, and that Java has a class for whatever
`AidlTypenames` has built in). `IInv` is `TypeOK`, `NameSpacesAgree` and

- `TablesInv`: what is defined comes from the documents, what is preprocessed from the
  lines, and the name space is what was built in, then what was declared, with no name
  twice;
- `FoundInv` (Java): the name space finds every name of the two tables;
- `KindsInv` (Java): what it has of a defined name is of the kind the definition has, and
  of a preprocessed one too unless that is built in or generated. Only Java refuses a
  name that comes as another kind or is built in; a line of a preprocessed file that
  repeats a name is ignored by both tables, so the kinds stay equal;
- `StepInv`: `err` is only set while imports are loaded, and then the run fails, which is
  why a document that was defined but not added does no harm;
- `ImportInv`: an import is known, or a candidate still to be done, or the run will fail,
  or one of the exceptions of `ImportDecides` holds of it.

`AddAllFinds` is about the loop that adds the types of a document, by the least position
where it would fail; `JavaInterfaceGrows` and `AddTypeGrows` about the four classes of an
interface. `Grows` says how a name space may change: at its end only, by classes whose name
it did not find. The proof found that a preprocessed file and a document may split a name
in two ways, which the run had not tried.

The second half of the module proves `BackendsAgree`, which compares two whole runs of the
loading phase that start with different name spaces. When the documents are `Portable`,
each step of a run is a function of what the run knows: `Now` is that snapshot, with only
the declared types of the name space (`Declared`), `After` the next one, `Ends` and
`Outcome` say where the run stops and with what. None of them names the backend: of the
names that are looked up, each backend has the same ones built in (`FoundBy`), and no
declared name meets a built-in or generated class, so adding a type depends on the
declared types alone. `HistoryInv` says that there is a sequence of snapshots, from
`Fresh` on, each `After` the one before, at whose end the C++ run is and through which the
Java run goes; the program keeps no such sequence, so it is an existential and not a
variable. `SourcesInv` is what that rests on: the declared types of a name space and the
candidates come from the documents. `TwinInvariance` is the theorem about both, and
`BackendsAgreeAlways` follows, since both runs stop at the same snapshot. The resolver
counts the files it finds for a name, which is why the assumption says that a directory
holds finitely many.

**Only model-checked.** Liveness (`StartedCallsSettle`), which needs
fairness and `ENABLED`, and the properties that are violated. Every safety invariant and
action property of the passing runs is stated by a theorem.

## 6. Not modelled

- The module registry of `aidl_interface.go` (a list and a mutex in Soong's process) and
  the Go code that turns properties into rules, beyond the checks and the freeze.
- Generated text, formatting and output trees; `@utf8InCpp`, generic maps with type
  parameters, the C++ names of types, transaction outlining. The verdict of javac
  (`JavaStubBuilds`, `JavaProxyBuilds`) leaves out that it refuses `List<int>`: such code
  is modelled as if it ran.
- `aidl-cpp --checkapi`, which would generate code without resolving types.
- Logging and tracing hooks of generated code; they change no state of a call.
- Nested transactions and binder thread pools; strong and weak references except the
  life of a default implementation.
- ninja's timestamps: a freeze whose timestamp is left over after `Android.bp` was
  reverted does nothing (a hazard with a note).
- The grammar (generated by flex and bison) and constant expressions.
- Tests and test data, read for what the code is expected to do.
