--------------------------- MODULE CommandLineProofs ---------------------------
(***************************************************************************)
(* The order of options, for any options and arguments.                    *)
(***************************************************************************)
EXTENDS CommandLine, SequencesExt, SequenceTheorems, WellFoundedInduction, TLAPS

\* The options that change a setting.
Known == {"lang", "version", "preprocess", "dumpapi", "checkapi", "apimapping",
          "import", "preprocessed", "dep", "out", "header_out", "ninja",
          "structured", "a", "b", "log"}
Flag == {"langFound", "structured", "failOnParcelable", "log", "autoDep",
         "ninja", "error"}
Field == Flag \cup
  {"language", "task", "version", "outputFile", "outputDir", "headerDir",
   "depFile", "preprocessed", "importFiles", "inputs"}

-----------------------------------------------------------------------------
(* An option as an update of a few fields, each computed from that field.  *)

Refuses(language, p) == language = <<"CPP">> \/ p.arg \notin Languages
Touched(language, p) ==
  CASE p.opt = "lang" -> IF Refuses(language, p) THEN {"error"}
                         ELSE {"langFound", "language", "task"}
    [] p.opt = "version" -> IF p.arg \in Positive THEN {"version"} ELSE {"error"}
    [] p.opt \in {"preprocess", "dumpapi"} -> {"task"}
    [] p.opt = "checkapi" -> {"task", "structured"}
    [] p.opt = "apimapping" -> {"task", "outputFile"}
    [] p.opt = "import" -> {"importFiles"}
    [] p.opt = "preprocessed" -> {"preprocessed"}
    [] p.opt = "dep" -> {"depFile"}
    [] p.opt = "out" -> {"outputDir"}
    [] p.opt = "header_out" -> {"headerDir"}
    [] p.opt = "ninja" -> {"ninja"}
    [] p.opt = "structured" -> {"structured"}
    [] p.opt = "a" -> {"autoDep"}
    [] p.opt = "b" -> {"failOnParcelable"}
    [] p.opt = "log" -> {"log"}
    [] OTHER -> {}
TaskOf(p) ==
  CASE p.opt = "lang" -> "COMPILE"
    [] p.opt = "preprocess" -> "PREPROCESS"
    [] p.opt = "dumpapi" -> "DUMP_API"
    [] p.opt = "checkapi" -> "CHECK_API"
    [] OTHER -> "DUMP_MAPPINGS"
Put(old, f, p) ==
  CASE f \in Flag -> TRUE
    [] f = "task" -> TaskOf(p)
    [] f = "preprocessed" -> Append(old, p.arg)
    [] f = "importFiles" -> old \cup {p.arg}
    [] OTHER -> p.arg
Updated(o, p) ==
  [f \in Field |-> IF f \in Touched(o["language"], p) THEN Put(o[f], f, p)
                                                      ELSE o[f]]

\* Settings are a function of their fields.
LEMMA SettingsAreAFunction ==
  ASSUME NEW A, NEW o \in Settings(A)
  PROVE  o = [f \in Field |-> o[f]]
  BY DEF Settings, Field, Flag

\* Apply is such an update.
LEMMA ApplyUpdates ==
  ASSUME NEW A, NEW o \in Settings(A), NEW p \in OptionWith(A)
  PROVE  Apply(o, p) = Updated(o, p)
<1> USE SettingsAreAFunction DEF Updated, Touched, Put, Field, Flag
<1>1. CASE p.opt = "lang"
  <2>1. o["language"] = o.language
    OBVIOUS
  <2> QED BY <1>1, <2>1, ZenonT(60) DEF Apply, SetLanguage, Refused, Refuses, TaskOf
<1>2. CASE p.opt = "version"
  BY <1>2, ZenonT(60) DEF Apply, SetVersion, Refused
<1>3. CASE p.opt \in {"preprocess", "dumpapi"}
  BY <1>3, ZenonT(60) DEF Apply, TaskOf
<1>4. CASE p.opt = "checkapi"
  BY <1>4, ZenonT(60) DEF Apply, TaskOf
<1>5. CASE p.opt = "apimapping"
  BY <1>5, ZenonT(60) DEF Apply, TaskOf
<1>6. CASE p.opt = "import"
  BY <1>6, ZenonT(60) DEF Apply
<1>7. CASE p.opt = "preprocessed"
  BY <1>7, ZenonT(60) DEF Apply
<1>8. CASE p.opt = "dep"
  BY <1>8, ZenonT(60) DEF Apply
<1>9. CASE p.opt = "out"
  BY <1>9, ZenonT(60) DEF Apply
<1>10. CASE p.opt = "header_out"
  BY <1>10, ZenonT(60) DEF Apply
<1>11. CASE p.opt = "ninja"
  BY <1>11, ZenonT(60) DEF Apply
<1>12. CASE p.opt = "structured"
  BY <1>12, ZenonT(60) DEF Apply
<1>13. CASE p.opt = "a"
  BY <1>13, ZenonT(60) DEF Apply
<1>14. CASE p.opt = "b"
  BY <1>14, ZenonT(60) DEF Apply
<1>15. CASE p.opt = "log"
  BY <1>15, ZenonT(60) DEF Apply
<1>16. CASE p.opt \notin Known
  <2>1. Apply(o, p) = o
    BY <1>16, ZenonT(60) DEF Apply, Known
  <2>2. Touched(o["language"], p) = {}
    BY <1>16 DEF Touched, Known
  <2> QED BY <2>1, <2>2
<1> QED BY <1>1, <1>2, <1>3, <1>4, <1>5, <1>6, <1>7, <1>8, <1>9, <1>10,
           <1>11, <1>12, <1>13, <1>14, <1>15, <1>16 DEF Known

\* An option leaves settings that options can leave.
LEMMA ApplyKeepsSettings ==
  ASSUME NEW A, NEW o \in Settings(A), NEW p \in OptionWith(A)
  PROVE  Apply(o, p) \in Settings(A)
<1>1. CASE p.opt \notin Known
  BY <1>1, ZenonT(60) DEF Apply, Known
<1>2. CASE p.opt \in {"lang", "version"}
  BY <1>2, ZenonT(60) DEF Apply, SetLanguage, SetVersion, Refused, Settings, OptionWith, Tasks
<1>3. CASE p.opt \in {"preprocess", "dumpapi", "checkapi", "apimapping"}
  BY <1>3, ZenonT(60) DEF Apply, Settings, OptionWith, Tasks
<1>4. CASE p.opt = "import"
  BY <1>4, ZenonT(60) DEF Apply, Settings, OptionWith
<1>5. CASE p.opt = "preprocessed"
  <2>1. Apply(o, p) = [o EXCEPT !.preprocessed = Append(@, p.arg)]
    BY <1>5, ZenonT(60) DEF Apply
  <2>2. o.preprocessed \in Seq(A) /\ p.arg \in A
    BY DEF Settings, OptionWith
  <2>3. Append(o.preprocessed, p.arg) \in Seq(A)
    BY <2>2
  <2> QED BY <2>1, <2>3 DEF Settings
<1>6. CASE p.opt \in {"dep", "out", "header_out"}
  BY <1>6, ZenonT(60) DEF Apply, Settings, OptionWith
<1>7. CASE p.opt \in {"ninja", "structured"}
  BY <1>7, ZenonT(60) DEF Apply, Settings, OptionWith
<1>8. CASE p.opt \in {"a", "b", "log"}
  BY <1>8, ZenonT(60) DEF Apply, Settings, OptionWith
<1> QED BY <1>1, <1>2, <1>3, <1>4, <1>5, <1>6, <1>7, <1>8 DEF Known

-----------------------------------------------------------------------------
(* Two options that do not conflict.                                       *)

\* They touch nothing in common but flags that both set.
LEMMA OnlyFlagsInCommon ==
  ASSUME NEW A, NEW p \in OptionWith(A), NEW q \in OptionWith(A), ~Conflict(p, q),
         NEW l, NEW m
  PROVE  Touched(l, p) \cap Touched(m, q) \subseteq Flag
  BY DEF Conflict, TaskOptions, Touched, Flag

\* Only --lang touches the language, and only it looks at it.
LEMMA LanguageIsTouchedByLang ==
  ASSUME NEW A, NEW p \in OptionWith(A), NEW l
  PROVE  /\ p.opt # "lang" => "language" \notin Touched(l, p)
         /\ p.opt # "lang" => \A m : Touched(m, p) = Touched(l, p)
  BY DEF Touched

\* So what an option touches does not depend on the other having come first.
LEMMA SameTouched ==
  ASSUME NEW A, NEW o \in Settings(A), NEW p \in OptionWith(A), NEW q \in OptionWith(A),
         p.opt # q.opt
  PROVE  Touched(Updated(o, q)["language"], p) = Touched(o["language"], p)
<1>1. CASE p.opt = "lang"
  <2>1. Updated(o, q)["language"] = o["language"]
    BY <1>1, LanguageIsTouchedByLang DEF Updated, Field
  <2> QED BY <2>1
<1>2. CASE p.opt # "lang"
  BY <1>2, LanguageIsTouchedByLang
<1> QED BY <1>1, <1>2

\* The order of two options that do not conflict is irrelevant, whether or not
\* one of them is refused: the loop of Options::Options leaves the same object.
THEOREM OptionsCommute ==
  ASSUME NEW A, NEW o \in Settings(A), NEW p \in OptionWith(A), NEW q \in OptionWith(A),
         ~Conflict(p, q)
  PROVE  Apply(Apply(o, p), q) = Apply(Apply(o, q), p)
<1>1. /\ Apply(Apply(o, p), q) = Updated(Updated(o, p), q)
      /\ Apply(Apply(o, q), p) = Updated(Updated(o, q), p)
  BY ApplyUpdates, ApplyKeepsSettings
<1>2. /\ Touched(Updated(o, q)["language"], p) = Touched(o["language"], p)
      /\ Touched(Updated(o, p)["language"], q) = Touched(o["language"], q)
  BY SameTouched DEF Conflict
<1> DEFINE P == Touched(o["language"], p)
           Q == Touched(o["language"], q)
<1>3. P \cap Q \subseteq Flag
  BY OnlyFlagsInCommon
<1>4. \A f \in Field : Updated(Updated(o, p), q)[f] = Updated(Updated(o, q), p)[f]
  <2> SUFFICES ASSUME NEW f \in Field
               PROVE  Updated(Updated(o, p), q)[f] = Updated(Updated(o, q), p)[f]
    OBVIOUS
  <2>1. /\ Updated(o, p)[f] = IF f \in P THEN Put(o[f], f, p) ELSE o[f]
        /\ Updated(o, q)[f] = IF f \in Q THEN Put(o[f], f, q) ELSE o[f]
    BY DEF Updated
  <2>2. /\ Updated(Updated(o, p), q)[f] =
             IF f \in Q THEN Put(Updated(o, p)[f], f, q) ELSE Updated(o, p)[f]
        /\ Updated(Updated(o, q), p)[f] =
             IF f \in P THEN Put(Updated(o, q)[f], f, p) ELSE Updated(o, q)[f]
    BY <1>2 DEF Updated
  <2>3. CASE f \in P /\ f \in Q
    <3>1. f \in Flag
      BY <1>3, <2>3
    <3>2. \A old, r : Put(old, f, r) = TRUE
      BY <3>1 DEF Put, Flag
    <3> QED BY <2>2, <2>3, <3>2
  <2>4. CASE ~(f \in P /\ f \in Q)
    BY <2>1, <2>2, <2>4
  <2> QED BY <2>3, <2>4
<1>5. Updated(Updated(o, p), q) = Updated(Updated(o, q), p)
  BY <1>4 DEF Updated
<1> QED BY <1>1, <1>5

-----------------------------------------------------------------------------
(* The loop over the options.                                              *)

\* A set of numbers that is closed under adding one.
LEMMA EveryNumber ==
  ASSUME NEW S, 0 \in S, \A n \in Nat : n \in S => n + 1 \in S
  PROVE  \A n \in Nat : n \in S
<1> DEFINE Missing == Nat \ S
<1>1. SUFFICES ASSUME Missing # {} PROVE FALSE
  OBVIOUS
<1>2. Missing \subseteq Nat
  OBVIOUS
<1> HIDE DEF Missing
<1>3. PICK m \in Missing : \A k \in Missing : ~(<<k, m>> \in OpToRel(<, Nat))
  BY <1>1, <1>2, WFMin, NatLessThanWellFounded
<1>4. \A k \in Missing : ~(k < m)
  BY <1>2, <1>3 DEF OpToRel
<1>5. m \in Nat /\ m \notin S /\ m # 0
  BY <1>3 DEF Missing
<1>6. m - 1 \in Nat /\ m - 1 < m /\ (m - 1) + 1 = m
  BY <1>5
<1>7. m - 1 \in S
  BY <1>4, <1>6 DEF Missing
<1> QED BY <1>5, <1>6, <1>7

\* f holds what the loop has after each of the first n options.
Trace(f, n, defaults, options) ==
  f = [k \in 0 .. n |-> IF k = 0 THEN defaults ELSE Apply(f[k - 1], options[k])]

LEMMA TraceExists ==
  ASSUME NEW defaults, NEW options
  PROVE  \A n \in Nat : \E f : Trace(f, n, defaults, options)
<1> DEFINE S == {n \in Nat : \E f : Trace(f, n, defaults, options)}
<1>1. 0 \in S
  <2>1. Trace([k \in 0 .. 0 |-> defaults], 0, defaults, options)
    <3>1. \A k \in 0 .. 0 : k = 0
      OBVIOUS
    <3> QED BY <3>1, Zenon DEF Trace
  <2> QED BY <2>1
<1>2. ASSUME NEW n \in Nat, n \in S PROVE n + 1 \in S
  <2>1. PICK f : Trace(f, n, defaults, options)
    BY <1>2
  <2> DEFINE g == [k \in 0 .. n + 1 |->
                     IF k = n + 1 THEN Apply(f[n], options[k]) ELSE f[k]]
  <2>2. \A k \in 0 .. n + 1 :
          g[k] = IF k = 0 THEN defaults ELSE Apply(g[k - 1], options[k])
    <3> SUFFICES ASSUME NEW k \in 0 .. n + 1
                 PROVE  g[k] = IF k = 0 THEN defaults ELSE Apply(g[k - 1], options[k])
      OBVIOUS
    <3>1. CASE k = n + 1
      <4>1. k # 0 /\ k - 1 = n /\ n \in 0 .. n + 1 /\ n # n + 1
        BY <3>1
      <4> QED BY <3>1, <4>1
    <3>2. CASE k # n + 1
      <4>1. k \in 0 .. n
        BY <3>2
      <4>2. f[k] = IF k = 0 THEN defaults ELSE Apply(f[k - 1], options[k])
        BY <2>1, <4>1 DEF Trace
      <4>3. k # 0 => k - 1 \in 0 .. n + 1 /\ k - 1 # n + 1
        OBVIOUS
      <4> QED BY <3>2, <4>2, <4>3
    <3> QED BY <3>1, <3>2
  <2>3. Trace(g, n + 1, defaults, options)
    <3>1. g = [k \in 0 .. n + 1 |-> g[k]]
      OBVIOUS
    <3> HIDE DEF g
    <3> QED BY <2>2, <3>1 DEF Trace
  <2> QED BY <2>3
<1>3. \A n \in Nat : n \in S
  <2> HIDE DEF S
  <2> QED BY <1>1, <1>2, EveryNumber
<1> QED BY <1>3

LEMMA TraceSteps ==
  ASSUME NEW defaults, NEW options, NEW n \in Nat, NEW f,
         Trace(f, n, defaults, options)
  PROVE  /\ f[0] = defaults
         /\ \A k \in 1 .. n : f[k] = Apply(f[k - 1], options[k])
<1>1. 0 \in 0 .. n
  OBVIOUS
<1>2. ASSUME NEW k \in 1 .. n PROVE k \in 0 .. n /\ k # 0
  OBVIOUS
<1> QED BY <1>1, <1>2, Zenon DEF Trace

\* What the loop has depends on the options it has read only.
LEMMA TracesAgree ==
  ASSUME NEW defaults, NEW p, NEW q, NEW n \in Nat, NEW m \in Nat, n <= m,
         \A k \in 1 .. n : p[k] = q[k],
         NEW f, Trace(f, n, defaults, p), NEW g, Trace(g, m, defaults, q)
  PROVE  f[n] = g[n]
<1> DEFINE S == {k \in Nat : k <= n => f[k] = g[k]}
<1>0. /\ f[0] = defaults /\ \A k \in 1 .. n : f[k] = Apply(f[k - 1], p[k])
      /\ g[0] = defaults /\ \A k \in 1 .. m : g[k] = Apply(g[k - 1], q[k])
  <2>1. f[0] = defaults /\ \A k \in 1 .. n : f[k] = Apply(f[k - 1], p[k])
    BY TraceSteps
  <2>2. g[0] = defaults /\ \A k \in 1 .. m : g[k] = Apply(g[k - 1], q[k])
    BY TraceSteps
  <2> QED BY <2>1, <2>2
<1>1. 0 \in S
  BY <1>0
<1>2. ASSUME NEW k \in Nat, k \in S PROVE k + 1 \in S
  <2>1. CASE k + 1 <= n
    <3>1. k + 1 \in 1 .. n /\ k + 1 \in 1 .. m /\ (k + 1) - 1 = k /\ k <= n
      BY <2>1
    <3>2. f[k + 1] = Apply(f[k], p[k + 1]) /\ g[k + 1] = Apply(g[k], q[k + 1])
      BY <1>0, <3>1
    <3> QED BY <1>2, <3>1, <3>2
  <2> QED BY <2>1
<1>3. \A k \in Nat : k \in S
  <2> HIDE DEF S
  <2> QED BY <1>1, <1>2, EveryNumber
<1> QED BY <1>3

LEMMA ReadAllIsTrace ==
  ASSUME NEW defaults, NEW A, NEW options \in Seq(A)
  PROVE  \E f : /\ Trace(f, Len(options), defaults, options)
                /\ ReadAll(defaults, options) = f[Len(options)]
<1> DEFINE after == CHOOSE f : Trace(f, Len(options), defaults, options)
<1>1. Len(options) \in Nat
  OBVIOUS
<1>2. Trace(after, Len(options), defaults, options)
  BY <1>1, TraceExists
<1>3. ReadAll(defaults, options) = after[Len(options)]
  BY DEF ReadAll, Trace
<1> QED BY <1>2, <1>3

\* Without an option nothing changes, and the last option is applied last.
LEMMA ReadNothing ==
  ASSUME NEW defaults
  PROVE  ReadAll(defaults, <<>>) = defaults
<1>1. <<>> \in Seq({}) /\ Len(<<>>) = 0
  OBVIOUS
<1>2. PICK f : Trace(f, 0, defaults, <<>>) /\ ReadAll(defaults, <<>>) = f[0]
  BY <1>1, ReadAllIsTrace
<1> QED BY <1>2, TraceSteps

LEMMA ReadOneMore ==
  ASSUME NEW defaults, NEW A, NEW options \in Seq(A), NEW p \in A
  PROVE  ReadAll(defaults, Append(options, p)) = Apply(ReadAll(defaults, options), p)
<1> DEFINE n == Len(options)
           more == Append(options, p)
<1>1. /\ n \in Nat /\ more \in Seq(A) /\ Len(more) = n + 1
      /\ more[n + 1] = p /\ \A k \in 1 .. n : options[k] = more[k]
  BY AppendProperties
<1>2. PICK f : Trace(f, n, defaults, options) /\ ReadAll(defaults, options) = f[n]
  BY ReadAllIsTrace
<1>3. PICK g : Trace(g, n + 1, defaults, more) /\ ReadAll(defaults, more) = g[n + 1]
  BY <1>1, ReadAllIsTrace
<1> HIDE DEF n, more
<1>4. f[n] = g[n]
  BY <1>1, <1>2, <1>3, TracesAgree
<1>5. g[n + 1] = Apply(g[n], more[n + 1])
  <2>1. n + 1 \in Nat /\ n + 1 \in 1 .. n + 1 /\ (n + 1) - 1 = n
    BY <1>1
  <2>2. \A k \in 1 .. n + 1 : g[k] = Apply(g[k - 1], more[k])
    BY <1>3, <2>1, TraceSteps
  <2> QED BY <2>1, <2>2
<1> QED BY <1>1, <1>2, <1>3, <1>4, <1>5 DEF more

LEMMA ReadKeepsSettings ==
  ASSUME NEW A, NEW defaults \in Settings(A), NEW options \in Seq(OptionWith(A))
  PROVE  ReadAll(defaults, options) \in Settings(A)
<1> DEFINE S == {n \in Nat : \A s \in Seq(OptionWith(A)) :
                   Len(s) = n => ReadAll(defaults, s) \in Settings(A)}
<1>1. 0 \in S
  <2>1. \A s \in Seq(OptionWith(A)) : Len(s) = 0 => s = <<>>
    BY EmptySeq
  <2> QED BY <2>1, ReadNothing
<1>2. ASSUME NEW n \in Nat, n \in S PROVE n + 1 \in S
  <2>1. ASSUME NEW s \in Seq(OptionWith(A)), Len(s) = n + 1
        PROVE  ReadAll(defaults, s) \in Settings(A)
    <3>1. s # <<>>
      BY <2>1
    <3>2. PICK t \in Seq(OptionWith(A)), p \in OptionWith(A) : s = Append(t, p)
      BY <3>1, SequenceEmptyOrAppend
    <3>3. Len(t) = n
      BY <2>1, <3>2, AppendProperties
    <3>4. ReadAll(defaults, t) \in Settings(A)
      BY <1>2, <3>3
    <3> QED BY <3>2, <3>4, ReadOneMore, ApplyKeepsSettings
  <2> QED BY <2>1
<1>3. \A n \in Nat : n \in S
  <2> HIDE DEF S
  <2> QED BY <1>1, <1>2, EveryNumber
<1> QED BY <1>3

\* The first option is applied first.
LEMMA ReadFirst ==
  ASSUME NEW defaults, NEW A, NEW p \in A, NEW options \in Seq(A)
  PROVE  ReadAll(defaults, <<p>> \o options) = ReadAll(Apply(defaults, p), options)
<1> DEFINE S == {n \in Nat : \A s \in Seq(A) : Len(s) = n =>
                   ReadAll(defaults, <<p>> \o s) = ReadAll(Apply(defaults, p), s)}
<1>0. <<p>> \in Seq(A) /\ <<>> \in Seq(A)
  OBVIOUS
<1>1. 0 \in S
  <2>1. \A s \in Seq(A) : Len(s) = 0 => s = <<>>
    BY EmptySeq
  <2>2. <<p>> \o <<>> = Append(<<>>, p)
    BY <1>0
  <2>3. ReadAll(defaults, Append(<<>>, p)) = Apply(ReadAll(defaults, <<>>), p)
    BY <1>0, ReadOneMore
  <2> QED BY <2>1, <2>2, <2>3, ReadNothing
<1>2. ASSUME NEW n \in Nat, n \in S PROVE n + 1 \in S
  <2>1. ASSUME NEW s \in Seq(A), Len(s) = n + 1
        PROVE  ReadAll(defaults, <<p>> \o s) = ReadAll(Apply(defaults, p), s)
    <3>1. s # <<>>
      BY <2>1
    <3>2. PICK t \in Seq(A), q \in A : s = Append(t, q)
      BY <3>1, SequenceEmptyOrAppend
    <3>3. Len(t) = n
      BY <2>1, <3>2, AppendProperties
    <3>4. ReadAll(defaults, <<p>> \o t) = ReadAll(Apply(defaults, p), t)
      BY <1>2, <3>3
    <3>5. <<p>> \o t \in Seq(A)
      BY <1>0, ConcatProperties
    <3>6. <<p>> \o s = Append(<<p>> \o t, q)
      <4>1. s = t \o <<q>> /\ <<q>> \in Seq(A)
        BY <3>2, AppendIsConcat
      <4>2. Append(<<p>> \o t, q) = (<<p>> \o t) \o <<q>>
        BY <3>5, AppendIsConcat
      <4> QED BY <1>0, <4>1, <4>2, ConcatAssociative
    <3>7. ReadAll(defaults, Append(<<p>> \o t, q)) = Apply(ReadAll(defaults, <<p>> \o t), q)
      BY <3>5, ReadOneMore
    <3>8. ReadAll(Apply(defaults, p), Append(t, q)) = Apply(ReadAll(Apply(defaults, p), t), q)
      BY ReadOneMore
    <3> QED BY <3>2, <3>4, <3>6, <3>7, <3>8
  <2> QED BY <2>1
<1>3. \A n \in Nat : n \in S
  <2> HIDE DEF S
  <2> QED BY <1>1, <1>2, EveryNumber
<1> QED BY <1>3

\* An option that conflicts with none of the others can come last as well.
LEMMA FirstCanBeLast ==
  ASSUME NEW A, NEW defaults \in Settings(A), NEW p \in OptionWith(A),
         NEW options \in Seq(OptionWith(A)),
         \A i \in 1 .. Len(options) : ~Conflict(p, options[i])
  PROVE  ReadAll(Apply(defaults, p), options) = Apply(ReadAll(defaults, options), p)
<1> DEFINE Free(s) == \A i \in 1 .. Len(s) : ~Conflict(p, s[i])
           S == {n \in Nat : \A s \in Seq(OptionWith(A)) : Len(s) = n /\ Free(s) =>
                   ReadAll(Apply(defaults, p), s) = Apply(ReadAll(defaults, s), p)}
<1>1. 0 \in S
  <2>1. \A s \in Seq(OptionWith(A)) : Len(s) = 0 => s = <<>>
    BY EmptySeq
  <2> QED BY <2>1, ReadNothing
<1>2. ASSUME NEW n \in Nat, n \in S PROVE n + 1 \in S
  <2>1. ASSUME NEW s \in Seq(OptionWith(A)), Len(s) = n + 1, Free(s)
        PROVE  ReadAll(Apply(defaults, p), s) = Apply(ReadAll(defaults, s), p)
    <3>1. s # <<>>
      BY <2>1
    <3>2. PICK t \in Seq(OptionWith(A)), q \in OptionWith(A) : s = Append(t, q)
      BY <3>1, SequenceEmptyOrAppend
    <3>3. /\ Len(t) = n /\ s[n + 1] = q
          /\ \A i \in 1 .. n : s[i] = t[i]
      BY <2>1, <3>2, AppendProperties
    <3>4. Free(t) /\ ~Conflict(p, q)
      <4>1. n + 1 \in 1 .. Len(s) /\ \A i \in 1 .. n : i \in 1 .. Len(s)
        BY <2>1
      <4> QED BY <2>1, <3>3, <4>1
    <3>5. ReadAll(Apply(defaults, p), t) = Apply(ReadAll(defaults, t), p)
      <4> HIDE DEF Free
      <4> QED BY <1>2, <3>3, <3>4
    <3>6. ReadAll(defaults, t) \in Settings(A)
      BY ReadKeepsSettings
    <3>7. Apply(Apply(ReadAll(defaults, t), p), q) = Apply(Apply(ReadAll(defaults, t), q), p)
      BY <3>4, <3>6, OptionsCommute
    <3>8. /\ ReadAll(Apply(defaults, p), s) = Apply(ReadAll(Apply(defaults, p), t), q)
          /\ ReadAll(defaults, s) = Apply(ReadAll(defaults, t), q)
      BY <3>2, ReadOneMore
    <3> QED BY <3>5, <3>7, <3>8
  <2> QED BY <2>1
<1>3. \A n \in Nat : n \in S
  <2> HIDE DEF S
  <2> QED BY <1>1, <1>2, EveryNumber
<1> QED BY <1>3

LEMMA ReverseProperties ==
  ASSUME NEW A, NEW s \in Seq(A)
  PROVE  /\ Reverse(s) \in Seq(A) /\ Len(Reverse(s)) = Len(s)
         /\ \A i \in 1 .. Len(s) :
              (Len(s) - i) + 1 \in 1 .. Len(s) /\ Reverse(s)[i] = s[(Len(s) - i) + 1]
<1>1. Len(s) \in Nat
  OBVIOUS
<1>2. \A i \in 1 .. Len(s) : (Len(s) - i) + 1 \in 1 .. Len(s) /\ s[(Len(s) - i) + 1] \in A
  BY <1>1, ElementOfSeq
<1>3. Reverse(s) = [i \in 1 .. Len(s) |-> s[(Len(s) - i) + 1]]
  BY DEF Reverse
<1>4. Reverse(s) \in Seq(A)
  BY <1>1, <1>2, <1>3, IsASeq
<1>5. Len(Reverse(s)) = Len(s)
  BY <1>1, <1>3, <1>4, LenProperties
<1> QED BY <1>2, <1>3, <1>4, <1>5

LEMMA ReverseAppended ==
  ASSUME NEW A, NEW s \in Seq(A), NEW p \in A
  PROVE  Reverse(Append(s, p)) = <<p>> \o Reverse(s)
<1> DEFINE n == Len(s)
           l == Reverse(Append(s, p))
           r == <<p>> \o Reverse(s)
<1>1. /\ n \in Nat /\ Append(s, p) \in Seq(A) /\ Len(Append(s, p)) = n + 1
      /\ Append(s, p)[n + 1] = p /\ \A i \in 1 .. n : Append(s, p)[i] = s[i]
  BY AppendProperties
<1>2. /\ l \in Seq(A) /\ Len(l) = n + 1
      /\ \A i \in 1 .. n + 1 : l[i] = Append(s, p)[((n + 1) - i) + 1]
  <2> DEFINE m == Append(s, p)
  <2>1. m \in Seq(A) /\ Len(m) = n + 1
    BY <1>1
  <2> HIDE DEF m, n
  <2>2. /\ Reverse(m) \in Seq(A) /\ Len(Reverse(m)) = Len(m)
        /\ \A i \in 1 .. Len(m) : Reverse(m)[i] = m[(Len(m) - i) + 1]
    BY <2>1, ReverseProperties
  <2>3. l = Reverse(m)
    BY DEF m
  <2> HIDE DEF l
  <2>4. l \in Seq(A) /\ Len(l) = n + 1 /\ \A i \in 1 .. n + 1 : l[i] = m[((n + 1) - i) + 1]
    BY <2>1, <2>2, <2>3
  <2> QED BY <2>4 DEF m
<1>3. /\ Reverse(s) \in Seq(A) /\ Len(Reverse(s)) = n
      /\ \A i \in 1 .. n : Reverse(s)[i] = s[(n - i) + 1]
  BY ReverseProperties
<1>4. <<p>> \in Seq(A) /\ Len(<<p>>) = 1 /\ <<p>>[1] = p
  OBVIOUS
<1>5. /\ r \in Seq(A) /\ Len(r) = n + 1 /\ r[1] = p
      /\ \A i \in 2 .. n + 1 : r[i] = Reverse(s)[i - 1]
  BY <1>1, <1>3, <1>4, ConcatProperties
<1> HIDE DEF l, r, n
<1>6. ASSUME NEW i \in 1 .. n + 1 PROVE l[i] = r[i]
  <2>1. CASE i = 1
    <3>1. ((n + 1) - i) + 1 = n + 1
      BY <1>1, <2>1
    <3> QED BY <1>1, <1>2, <1>5, <2>1, <3>1
  <2>2. CASE i # 1
    <3>1. /\ i \in 2 .. n + 1 /\ i - 1 \in 1 .. n
          /\ ((n + 1) - i) + 1 = (n - (i - 1)) + 1
          /\ (n - (i - 1)) + 1 \in 1 .. n
      BY <1>1, <2>2
    <3> QED BY <1>1, <1>2, <1>3, <1>5, <3>1
  <2> QED BY <2>1, <2>2
<1>7. l = r
  BY <1>2, <1>5, <1>6, SeqEqual
<1> QED BY <1>7 DEF l, r

\* The loop of Options::Options leaves the same object when the options are
\* given in the opposite order, if no two of them conflict.
THEOREM OrderDoesNotMatter ==
  ASSUME NEW A, NEW defaults \in Settings(A), NEW options \in Seq(OptionWith(A)),
         \A i, j \in 1 .. Len(options) : i # j => ~Conflict(options[i], options[j])
  PROVE  ReadAll(defaults, Reverse(options)) = ReadAll(defaults, options)
<1> DEFINE Apart(s) == \A i, j \in 1 .. Len(s) : i # j => ~Conflict(s[i], s[j])
           S == {n \in Nat : \A s \in Seq(OptionWith(A)) : Len(s) = n /\ Apart(s) =>
                   ReadAll(defaults, Reverse(s)) = ReadAll(defaults, s)}
<1>1. 0 \in S
  <2>1. ASSUME NEW s \in Seq(OptionWith(A)), Len(s) = 0 PROVE Reverse(s) = s
    <3>1. s = <<>>
      BY <2>1, EmptySeq
    <3>2. Reverse(s) \in Seq(OptionWith(A)) /\ Len(Reverse(s)) = 0
      BY <2>1, ReverseProperties
    <3>3. Reverse(s) = <<>>
      BY <3>2, EmptySeq
    <3> QED BY <3>1, <3>3
  <2> QED BY <2>1
<1>2. ASSUME NEW n \in Nat, n \in S PROVE n + 1 \in S
  <2>1. ASSUME NEW s \in Seq(OptionWith(A)), Len(s) = n + 1, Apart(s)
        PROVE  ReadAll(defaults, Reverse(s)) = ReadAll(defaults, s)
    <3>1. s # <<>>
      BY <2>1
    <3>2. PICK t \in Seq(OptionWith(A)), p \in OptionWith(A) : s = Append(t, p)
      BY <3>1, SequenceEmptyOrAppend
    <3>3. /\ Len(t) = n /\ s[n + 1] = p
          /\ \A i \in 1 .. n : s[i] = t[i]
      BY <2>1, <3>2, AppendProperties
    <3>4. Apart(t) /\ \A i \in 1 .. n : ~Conflict(p, t[i])
      <4>1. /\ n + 1 \in 1 .. Len(s)
            /\ \A i \in 1 .. n : i \in 1 .. Len(s) /\ i # n + 1
        BY <2>1
      <4> QED BY <2>1, <3>3, <4>1
    <3>5. ReadAll(defaults, Reverse(t)) = ReadAll(defaults, t)
      <4> HIDE DEF Apart
      <4> QED BY <1>2, <3>3, <3>4
    <3>6. /\ Reverse(t) \in Seq(OptionWith(A)) /\ Len(Reverse(t)) = n
          /\ \A i \in 1 .. n : ~Conflict(p, Reverse(t)[i])
      BY <3>3, <3>4, ReverseProperties
    <3>7. ReadAll(defaults, Reverse(s)) = ReadAll(Apply(defaults, p), Reverse(t))
      <4>1. Reverse(s) = <<p>> \o Reverse(t)
        BY <3>2, ReverseAppended
      <4>2. ReadAll(defaults, <<p>> \o Reverse(t)) = ReadAll(Apply(defaults, p), Reverse(t))
        BY <3>6, ReadFirst
      <4> QED BY <4>1, <4>2
    <3>8. ReadAll(Apply(defaults, p), Reverse(t)) = Apply(ReadAll(defaults, Reverse(t)), p)
      BY <3>6, FirstCanBeLast
    <3>9. ReadAll(defaults, s) = Apply(ReadAll(defaults, t), p)
      BY <3>2, ReadOneMore
    <3> QED BY <3>5, <3>7, <3>8, <3>9
  <2> QED BY <2>1
<1>3. \A n \in Nat : n \in S
  <2> HIDE DEF S
  <2> QED BY <1>1, <1>2, EveryNumber
<1> QED BY <1>3

-----------------------------------------------------------------------------
(* What the options say once they are accepted.                            *)

\* A refusal is not forgotten.
THEOREM RefusalStays ==
  ASSUME NEW A, NEW o \in Settings(A), NEW p \in OptionWith(A), o.error
  PROVE  Apply(o, p).error
<1>1. /\ Apply(o, p)["error"] =
           IF "error" \in Touched(o["language"], p)
           THEN Put(o["error"], "error", p) ELSE o["error"]
      /\ Apply(o, p).error = Apply(o, p)["error"]
  BY ApplyUpdates, ApplyKeepsSettings DEF Updated, Field, Flag
<1>2. Put(o["error"], "error", p) = TRUE
  BY DEF Put, Flag
<1> QED BY <1>1, <1>2

\* A compilation that is accepted has an output, and for C++ and the NDK a
\* directory of headers: GetOutputFilePath and GetHeaderFilePath need no check.
THEOREM CompilationsHaveOutputs ==
  ASSUME NEW S, NEW o \in Settings(Seq(S)), o.task = "COMPILE",
         o.language \in Languages, o.langFound \/ o.language \in {<<"JAVA">>, <<"CPP">>},
         NEW args \in Seq(Seq(S) \ {<<>>}),
         ~Finished(o, args).error
  PROVE  /\ \/ Finished(o, args).outputDir # <<>>
            \/ Finished(o, args).outputFile # <<>>
         /\ IsCppOutput(Finished(o, args)) => Finished(o, args).headerDir # <<>>
<1> DEFINE u == Positional(o, args)
<1>1. /\ ~u.error /\ ~Invalid(u) /\ Finished(o, args) = u
  BY DEF Finished, Refused
<1>2. CASE o.langFound
  <2>1. u = [o EXCEPT !.inputs = args]
    BY <1>1, <1>2 DEF Positional, NewFormat, Refused, Settings
  <2>2. ~InvalidDirs(u)
    BY <1>1 DEF Invalid
  <2> QED BY <1>1, <1>2, <2>1, <2>2 DEF InvalidDirs, Settings
<1>3. CASE ~o.langFound /\ o.language = <<"JAVA">>
  <2>1. \A s \in Seq(S) : JavaNextTo(s) # <<>>
    <3> SUFFICES ASSUME NEW s \in Seq(S)
                 PROVE  JavaNextTo(s) # <<>>
      OBVIOUS
    <3>1. \A e \in {"java", "aidl.java"} : Append(s, e) # <<>>
      <4> DEFINE T == S \cup {"java", "aidl.java"}
      <4>1. s \in Seq(T) /\ "java" \in T /\ "aidl.java" \in T
        OBVIOUS
      <4> HIDE DEF T
      <4>2. Append(s, "java") # <<>> /\ Append(s, "aidl.java") # <<>>
        BY <4>1, AppendProperties
      <4> QED BY <4>2
    <3> QED BY <3>1 DEF JavaNextTo
  <2> QED BY <1>1, <1>3, <2>1 DEF Positional, LegacyJava, Refused, Settings, IsCppOutput
<1>4. CASE ~o.langFound /\ o.language = <<"CPP">>
  BY <1>1, <1>4 DEF Positional, LegacyCpp, Refused, Settings
<1> QED BY <1>2, <1>3, <1>4
==============================================================================
