------------------------------ MODULE Parcelable ------------------------------
(***************************************************************************)
(* How generated code writes and reads structured parcelables:             *)
(* writeToParcel and readFromParcel of the C++, NDK and Java backends      *)
(* (BuildParcelSource, GenerateParcelSource,                               *)
(* generate_parcel_class), nested to any depth, when the writer and the    *)
(* reader were generated from different versions of the types.             *)
(*                                                                         *)
(* A parcel is a sequence of cells of unit size; a data position is the    *)
(* number of cells before it.                                              *)
(***************************************************************************)
EXTENDS Integers, Sequences

CONSTANTS
  Type,     \* structured parcelables, and Root
  Root,     \* the argument list that is sent: a frame without size or flag
  Versions, \* versions of the API the two sides may be built from
  Fields,   \* Fields[t][v]: what version v of t holds, "int" or a type
  Langs     \* backends to combine: a subset of {"CPP", "NDK", "JAVA"}

ASSUME ParcelableAssumption ==
  /\ Root \in Type
  /\ "int" \notin Type
  /\ Versions \subseteq Nat
  /\ Fields \in [Type -> [Versions -> Seq({"int"} \cup (Type \ {Root}))]]
  \* are_compatible_parcelables: a later version keeps the fields it has
  /\ \A t \in Type : \A v, w \in Versions : v < w =>
       /\ Len(Fields[t][v]) <= Len(Fields[t][w])
       /\ \A i \in DOMAIN Fields[t][v] : Fields[t][w][i] = Fields[t][v][i]
  /\ \A v, w \in Versions : Fields[Root][v] = Fields[Root][w]
  /\ Langs \subseteq {"CPP", "NDK", "JAVA"}

VARIABLES
  writerLang, written,  \* backend and version of the writer
  readerLang, known,    \* backend and version of the reader
  parcel,               \* the cells
  writing,              \* writeToParcel calls in progress, innermost last
  reading,              \* readFromParcel calls in progress, innermost last
  pos,                  \* the reader's data position
  outcome,              \* "write", "read", "done", "error", "misread"
  got                   \* what the reader assigned: pairs <<path, cell>>

config == <<writerLang, written, readerLang, known>>
vars == <<config, parcel, writing, reading, pos, outcome, got>>

Last(s) == s[Len(s)]
Pop(s) == SubSeq(s, 1, Len(s) - 1)

\* A field is named by the types and indexes that lead to it.
Path(stack) == [k \in DOMAIN stack |-> <<stack[k].type, stack[k].next>>]
IntCell(path) == <<"int", path>>
Flag(n) == <<"flag", n>>
SizeOf(n) == <<"size", n>>
Zero == <<"zero", 0>>  \* a Java read past the end

-----------------------------------------------------------------------------
Init ==
  /\ writerLang \in Langs /\ readerLang \in Langs
  /\ written \in Versions /\ known \in Versions
  /\ parcel = <<>>
  /\ writing = <<[type |-> Root, next |-> 1, start |-> 0]>>
  /\ reading = <<>>
  /\ pos = 0
  /\ outcome = "write"
  /\ got = {}

-----------------------------------------------------------------------------
(* The writer.                                                             *)

Writing == Last(writing)
WriteNext(stack) == [stack EXCEPT ![Len(stack)].next = @ + 1]
ToWrite == Fields[Writing.type][written]

WriteInt ==
  /\ outcome = "write"
  /\ Writing.next <= Len(ToWrite) /\ ToWrite[Writing.next] = "int"
  /\ parcel' = Append(parcel, IntCell(Path(writing)))
  /\ writing' = WriteNext(writing)
  /\ UNCHANGED <<config, reading, pos, outcome, got>>

\* A reference that is not null: the flag, then _aidl_start_pos and a size of
\* 0 that is corrected later.  NDK writes the flag in writeToParcel itself.
WriteParcelable ==
  /\ outcome = "write"
  /\ Writing.next <= Len(ToWrite) /\ ToWrite[Writing.next] # "int"
  /\ parcel' = parcel \o <<Flag(1), SizeOf(0)>>
  /\ writing' = Append(writing, [type |-> ToWrite[Writing.next], next |-> 1,
                                 start |-> Len(parcel) + 1])
  /\ UNCHANGED <<config, reading, pos, outcome, got>>

\* Only a Java reference may be null where the type is not @nullable.
WriteNull ==
  /\ outcome = "write"
  /\ writerLang = "JAVA"
  /\ Writing.next <= Len(ToWrite) /\ ToWrite[Writing.next] # "int"
  /\ parcel' = Append(parcel, Flag(0))
  /\ writing' = WriteNext(writing)
  /\ UNCHANGED <<config, reading, pos, outcome, got>>

\* Regression: the size does not count its own cell.
WriteEndShort ==
  /\ outcome = "write"
  /\ Len(writing) > 1 /\ Writing.next > Len(ToWrite)
  /\ parcel' = [parcel EXCEPT ![Writing.start + 1] = SizeOf(Len(parcel) - Writing.start - 1)]
  /\ writing' = WriteNext(Pop(writing))
  /\ UNCHANGED <<config, reading, pos, outcome, got>>

\* Regression: the size is the data position of the end.
WriteEndPosition ==
  /\ outcome = "write"
  /\ Len(writing) > 1 /\ Writing.next > Len(ToWrite)
  /\ parcel' = [parcel EXCEPT ![Writing.start + 1] = SizeOf(Len(parcel))]
  /\ writing' = WriteNext(Pop(writing))
  /\ UNCHANGED <<config, reading, pos, outcome, got>>

\* The end of writeToParcel: the size from _aidl_start_pos to the end.
WriteEnd ==
  /\ outcome = "write"
  /\ Len(writing) > 1 /\ Writing.next > Len(ToWrite)
  /\ parcel' = [parcel EXCEPT ![Writing.start + 1] = SizeOf(Len(parcel) - Writing.start)]
  /\ writing' = WriteNext(Pop(writing))
  /\ UNCHANGED <<config, reading, pos, outcome, got>>

Send ==
  /\ outcome = "write"
  /\ Len(writing) = 1 /\ Writing.next > Len(ToWrite)
  /\ outcome' = "read"
  /\ reading' = <<[type |-> Root, next |-> 1, start |-> 0, size |-> 0, check |-> FALSE]>>
  /\ UNCHANGED <<config, parcel, writing, pos, got>>

-----------------------------------------------------------------------------
(* The reader.                                                             *)

Reading == Last(reading)
ToRead == Fields[Reading.type][known]
CellAt(p) == IF p < Len(parcel) THEN parcel[p + 1] ELSE Zero
Wants(kind) ==
  /\ outcome = "read"
  /\ ~Reading.check
  /\ Reading.next <= Len(ToRead)
  /\ (ToRead[Reading.next] = "int") <=> (kind = "int")

\* After a value: the argument list goes on, a parcelable checks its size.
AfterValue(stack) ==
  IF Len(stack) = 1 THEN [stack EXCEPT ![1].next = @ + 1]
  ELSE [stack EXCEPT ![Len(stack)].check = TRUE]

Abort(why) ==
  /\ outcome' = why
  /\ UNCHANGED <<config, parcel, writing, reading, pos, got>>

\* Past the end a C++ or NDK read fails and a Java read yields zero.
ReadInt ==
  /\ Wants("int")
  /\ \/ /\ pos >= Len(parcel) /\ readerLang # "JAVA"
        /\ Abort("error")
     \/ /\ pos < Len(parcel) \/ readerLang = "JAVA"
        /\ got' = got \cup {<<Path(reading), CellAt(pos)>>}
        /\ pos' = IF pos < Len(parcel) THEN pos + 1 ELSE pos
        /\ reading' = AfterValue(reading)
        /\ UNCHANGED <<config, parcel, writing, outcome>>

\* A parcelable starts with a flag, and a size when the flag is 1.  The NDK
\* reader reads a size after a null flag as well, and fails in any case.  When
\* the cells are no flag and size, what follows is arbitrary: the model stops.
ReadParcelable ==
  /\ Wants("parcelable")
  /\ \/ /\ CellAt(pos) = Flag(1) /\ CellAt(pos + 1)[1] = "size"
        /\ reading' = Append(reading, [type |-> ToRead[Reading.next], next |-> 1, start |-> pos + 1,
                                       size |-> CellAt(pos + 1)[2], check |-> FALSE])
        /\ pos' = pos + 2
        /\ UNCHANGED <<config, parcel, writing, outcome, got>>
     \/ /\ CellAt(pos) = Flag(0) /\ readerLang = "JAVA"
        /\ pos' = pos + 1
        /\ reading' = AfterValue(reading)
        /\ UNCHANGED <<config, parcel, writing, outcome, got>>
     \/ /\ CellAt(pos) = Flag(0) /\ readerLang # "JAVA"
        /\ Abort("error")
     \/ /\ CellAt(pos)[1] # "flag" \/ (CellAt(pos) = Flag(1) /\ CellAt(pos + 1)[1] # "size")
        /\ Abort("misread")

\* A parcelable goes on with its next field.
NextField(frame) == [frame EXCEPT !.next = @ + 1, !.check = FALSE]

\* Regression: a field that ends exactly at the size is not the last one.
CheckSizeStrict ==
  /\ outcome = "read"
  /\ Reading.check
  /\ IF pos - Reading.start > Reading.size
     THEN /\ pos' = Reading.start + Reading.size
          /\ reading' = AfterValue(Pop(reading))
     ELSE /\ pos' = pos
          /\ reading' = [reading EXCEPT ![Len(reading)] = NextField(@)]
  /\ UNCHANGED <<config, parcel, writing, outcome, got>>

\* After every field: return when the parcelable has no more, as an older
\* writer's has not.
CheckSize ==
  /\ outcome = "read"
  /\ Reading.check
  /\ IF pos - Reading.start >= Reading.size
     THEN /\ pos' = Reading.start + Reading.size
          /\ reading' = AfterValue(Pop(reading))
     ELSE /\ pos' = pos
          /\ reading' = [reading EXCEPT ![Len(reading)] = NextField(@)]
  /\ UNCHANGED <<config, parcel, writing, outcome, got>>

\* The last field the reader knows was read and the parcelable goes on, as a
\* newer writer's does: NDK and Java skip the rest, C++ returns where it is.
ReadEnd ==
  /\ outcome = "read"
  /\ Len(reading) > 1 /\ ~Reading.check /\ Reading.next > Len(ToRead)
  /\ pos' = IF readerLang = "CPP" THEN pos ELSE Reading.start + Reading.size
  /\ reading' = AfterValue(Pop(reading))
  /\ UNCHANGED <<config, parcel, writing, outcome, got>>

Receive ==
  /\ outcome = "read"
  /\ Len(reading) = 1 /\ Reading.next > Len(ToRead)
  /\ outcome' = "done"
  /\ UNCHANGED <<config, parcel, writing, reading, pos, got>>

-----------------------------------------------------------------------------
Next ==
  \/ WriteInt \/ WriteParcelable \/ WriteNull \/ WriteEnd \/ Send
  \/ ReadInt \/ ReadParcelable \/ CheckSize \/ ReadEnd \/ Receive

Spec == Init /\ [][Next]_vars

-----------------------------------------------------------------------------
(* Properties.                                                             *)

\* Every variable keeps its type.
TypeOK ==
  /\ {writerLang, readerLang} \subseteq Langs /\ {written, known} \subseteq Versions
  /\ \A k \in DOMAIN parcel : parcel[k][1] \in {"int", "flag", "size"}
  /\ \A k \in DOMAIN writing : writing[k].type \in Type /\ writing[k].start \in 0 .. Len(parcel)
  /\ \A k \in DOMAIN reading : reading[k].type \in Type /\ reading[k].size \in 0 .. Len(parcel)
  /\ pos \in 0 .. Len(parcel)
  /\ outcome \in {"write", "read", "done", "error", "misread"}

\* The writer may have fields of t the reader does not know.
Newer(t) == Len(Fields[t][written]) > Len(Fields[t][known])
\* The writer has no field of t and the reader has some.
Emptied(t) == Len(Fields[t][written]) = 0 /\ Len(Fields[t][known]) > 0

Knows(path, version) == \A k \in DOMAIN path : path[k][2] <= Len(Fields[path[k][1]][version])
Sent == {parcel[k] : k \in {j \in DOMAIN parcel : parcel[j][1] = "int"}}

\* A C++ reader does not skip what a newer writer appended.
Unskipped == readerLang = "CPP" /\ \E t \in Type : Newer(t)
\* The field is one of a parcelable whose writer knew no field: the reader
\* looks at the size only after it has read the first.
Unchecked(path) == Emptied(Last(path)[1])
\* When that first field is itself a parcelable, the reader takes what follows
\* for its flag and size and may not come back to where it was.
Strays == \E t \in Type : Emptied(t) /\ Fields[t][known][1] # "int"

\* Reader and writer agree on every field both know, wherever it is nested
\* and whichever backends and versions they have: a field is assigned the
\* value written for it, a field the writer lacks is left alone and, at the
\* end, none both know is missing.  The three exceptions are stated above.
CommonFieldsAgree ==
  ~Unskipped /\ ~Strays =>
    /\ outcome # "misread"
    /\ \A g \in got : g[2] = IntCell(g[1]) \/ Unchecked(g[1])
    /\ outcome = "done" =>
         {g[1] : g \in {h \in got : ~Unchecked(h[1])}}
           = {cell[2] : cell \in {s \in Sent : Knows(s[2], known)}}

\* While a parcelable is read the data position stays inside what its writer
\* wrote for it, so that, once it returns, the data that follows is read from
\* where it was written.
Aligned ==
  outcome \in {"read", "done"} /\ ~Unskipped /\ ~Strays =>
    \A k \in DOMAIN reading : k > 1 =>
      /\ parcel[reading[k].start + 1] = SizeOf(reading[k].size)
      /\ reading[k].start < pos
      /\ pos <= reading[k].start + reading[k].size \/ Emptied(Reading.type)

\* A parcelable of a newer version is "a backwards compatible extension" of
\* an older one (options.cpp), with fields added "only at the end"
\* (aidl_apicheck.cpp): an older reader gets every field it knows.
ExtensionIsCompatible ==
  ~(\E t \in Type : Emptied(t)) =>
    outcome # "misread" /\ \A g \in got : g[2] = IntCell(g[1])
==============================================================================
