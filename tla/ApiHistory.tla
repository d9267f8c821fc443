------------------------------ MODULE ApiHistory ------------------------------
(***************************************************************************)
(* The life of a versioned aidl_interface (build/aidl_interface.go): its   *)
(* source is edited, <name>-freeze-api dumps it as the next version, step  *)
(* by step and possibly interrupted, and a build compiles the source and   *)
(* every frozen version once all API checks pass.                          *)
(***************************************************************************)
EXTENDS ApiCheck, FiniteSets

CONSTANTS
  Source,      \* the APIs the source may be edited to
  MaxVersion   \* bound of the model: no version above it is frozen

ASSUME ApiHistoryAssumption ==
  /\ MaxVersion \in Nat
  /\ \A api \in Source : DOMAIN api # {} /\ WellFormed(api)

VARIABLES
  source,    \* the API at ToT
  released,  \* PLATFORM_VERSION_CODENAME is REL: no API changes
  versions,  \* the versions property in Android.bp
  frozen,    \* <api_dir>/<v>: the dump files of each version
  step,      \* the next command of the freeze rule, "idle" when none runs
  version,   \* the version the freeze rule writes
  dump,      \* the dump it copies
  shipped,   \* frozen versions built so far: pairs <<version, API>>
  tip        \* the API the last build compiled from the source

freeze == <<step, version, dump>>
vars == <<source, released, versions, frozen, freeze, shipped, tip>>

NoFiles == [t \in {} |-> {}]
DumpOf(api) == [t \in DOMAIN api |-> Dump(api[t])]

Init ==
  /\ source \in Source
  /\ released = FALSE
  /\ versions = <<>>
  /\ frozen = [v \in 1 .. MaxVersion |-> NoFiles]
  /\ step = "idle"
  /\ version = 0
  /\ dump = NoFiles
  /\ shipped = {}
  /\ tip = NoFiles

-----------------------------------------------------------------------------
(* Developers.                                                             *)

Edit(api) ==
  /\ source' = api
  /\ UNCHANGED <<released, versions, frozen, freeze, shipped, tip>>

\* The platform is finalised, or its next release is started.
Release ==
  /\ step = "idle"
  /\ released' = ~released
  /\ UNCHANGED <<source, versions, frozen, freeze, shipped, tip>>

-----------------------------------------------------------------------------
(* <name>-freeze-api                                                       *)

\* Regression: the number of the last version is not advanced.
LastVersion == IF versions = <<>> THEN 1 ELSE versions[Len(versions)]
\* validateCurrentVersion
CurrentVersion == IF versions = <<>> THEN 1 ELSE versions[Len(versions)] + 1

\* aidlDumpApiRule: the freeze rule waits for a dump of the source.
DumpApi ==
  /\ step = "idle"
  /\ CurrentVersion <= MaxVersion
  /\ Valid(source)
  /\ step' = "clear"
  /\ version' = CurrentVersion
  /\ dump' = DumpOf(source)
  /\ UNCHANGED <<source, released, versions, frozen, shipped, tip>>

\* mkdir -p ${to} && rm -rf ${to}/*
Clear ==
  /\ step = "clear"
  /\ frozen' = [frozen EXCEPT ![version] = NoFiles]
  /\ step' = "list"
  /\ UNCHANGED <<source, released, versions, version, dump, shipped, tip>>

\* bpmodify -parameter versions -a ${version}
List ==
  /\ step = "list"
  /\ versions' = Append(versions, version)
  /\ step' = "copy"
  /\ UNCHANGED <<source, released, frozen, version, dump, shipped, tip>>

\* cp -rf, one file of the dump after the other
CopyFile(t) ==
  /\ step = "copy"
  /\ t \in DOMAIN dump \ DOMAIN frozen[version]
  /\ frozen' = [frozen EXCEPT ![version] =
                  [u \in DOMAIN frozen[version] \cup {t} |-> dump[u]]]
  /\ UNCHANGED <<source, released, versions, freeze, shipped, tip>>

\* What is left in the output directory is made anew by the next freeze.
EndFreeze == step' = "idle" /\ version' = 0 /\ dump' = NoFiles

\* Comments are put before each file and the timestamp is touched.
Touch ==
  /\ step = "copy"
  /\ DOMAIN dump = DOMAIN frozen[version]
  /\ EndFreeze
  /\ UNCHANGED <<source, released, versions, frozen, shipped, tip>>

\* The build is interrupted, or a command of the rule fails.
Interrupt ==
  /\ step # "idle"
  /\ EndFreeze
  /\ UNCHANGED <<source, released, versions, frozen, shipped, tip>>

-----------------------------------------------------------------------------
(* A build.                                                                *)

Latest == frozen[versions[Len(versions)]]

\* Each version is checked against the one before it, and ToT against the
\* latest: for equality (diff) on a released platform.
ChecksPass ==
  /\ \A i \in 2 .. Len(versions) : CheckApi(frozen[versions[i - 1]], frozen[versions[i]])
  /\ versions # <<>> =>
       IF released THEN Latest = DumpOf(source) ELSE CheckApi(Latest, DumpOf(source))

\* Every library waits for all the checks; addCppLibrary and addJavaLibrary
\* make none of a version without files.
Build ==
  /\ step = "idle"
  /\ Valid(source)
  /\ ChecksPass
  /\ shipped' = shipped \cup {<<versions[i], frozen[versions[i]]>> : i \in DOMAIN versions}
  /\ tip' = source
  /\ UNCHANGED <<source, released, versions, frozen, freeze>>

Next ==
  \/ \E api \in Source : Edit(api)
  \/ Release
  \/ DumpApi \/ Clear \/ List \/ (\E t \in DOMAIN dump : CopyFile(t)) \/ Touch
  \/ Interrupt
  \/ Build

Spec == Init /\ [][Next]_vars

-----------------------------------------------------------------------------
(* Properties.                                                             *)

\* Every variable keeps its type; the listed versions are 1, 2, ... in order.
TypeOK ==
  /\ source \in Source
  /\ released \in BOOLEAN
  /\ versions \in Seq(1 .. MaxVersion)
  /\ \A i \in DOMAIN versions : versions[i] = i
  /\ DOMAIN frozen = 1 .. MaxVersion
  /\ step \in {"idle", "clear", "list", "copy"}
  /\ version \in 0 .. MaxVersion
  /\ step \in {"clear", "list"} => version = CurrentVersion
  /\ step = "copy" => version = Len(versions) /\ versions # <<>>

\* Two devices that ship any two versions that ever passed a build, however
\* far apart, agree on what each transaction code and each parcelable field
\* means, though only neighbours were compared and any change was frozen.
ShippedVersionsInteroperate ==
  \A s, t \in shipped : s[1] <= t[1] => WireCompatible(s[2], t[2])

\* So does the code the last build compiled from the source with every
\* version that was frozen before.
TipInteroperates ==
  \A s \in shipped : WireCompatible(s[2], tip)

\* A freeze that was cut off before its first file leaves a listed version
\* without any: no build gets past it.
NothingEmptyIsShipped ==
  \A s \in shipped : DOMAIN s[2] # {}

\* A version that was shipped is never written again: neither a later freeze
\* nor one that was interrupted and repeated changes its files.
ShippedIsImmutable ==
  \A s \in shipped : frozen[s[1]] = s[2]
==============================================================================
