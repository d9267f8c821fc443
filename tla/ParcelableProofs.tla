--------------------------- MODULE ParcelableProofs ---------------------------
(***************************************************************************)
(* writeToParcel and readFromParcel for any parcelables, any versions and  *)
(* any combination of backends.                                            *)
(*                                                                         *)
(* First the bounds (Invariance): every size that is written ends inside   *)
(* the parcel, so no reader ever seeks past its end.                       *)
(*                                                                         *)
(* Then the values (LayoutInvariance): there is a layout, one data         *)
(* position for every field that was written (Layout), and a reader is     *)
(* always where the layout has the field it reads next (OnTrack), with     *)
(* every field both sides know either assigned or still ahead (AllAhead).  *)
(* The layout is not a variable of the program: the invariant says that    *)
(* one exists, and each step of the writer extends it by one place.        *)
(***************************************************************************)
EXTENDS Parcelable, SequenceTheorems, TLAPS

Cell == ({"int"} \X Seq(Type \X (Nat \ {0}))) \cup ({"flag"} \X {0, 1}) \cup ({"size"} \X Nat)
WriteFrame == [type : Type, next : Nat \ {0}, start : Nat]
ReadFrame == [type : Type, next : Nat \ {0}, start : Nat, size : Nat, check : BOOLEAN]

ConfigInv ==
  /\ writerLang \in Langs /\ readerLang \in Langs
  /\ written \in Versions /\ known \in Versions
  /\ outcome \in {"write", "read", "done", "error", "misread"}

\* A parcelable that is being written has its size cell in the parcel.
FramesIn(stack, cells) ==
  /\ stack \in Seq(WriteFrame) /\ Len(stack) > 0
  /\ stack[1].start = 0
  /\ \A k \in 1 .. Len(stack) : k > 1 => stack[k].start + 1 \in 1 .. Len(cells)

\* Every size that is written ends inside the parcel.
Sized(cells) ==
  \A i \in 1 .. Len(cells) : cells[i][1] = "size" => i - 1 + cells[i][2] <= Len(cells)
WriterInv == parcel \in Seq(Cell) /\ Sized(parcel) /\ FramesIn(writing, parcel)

\* So every parcelable that is being read ends inside the parcel.  Only a
\* parcelable checks its size.
ReaderInv ==
  /\ reading \in Seq(ReadFrame)
  /\ outcome = "write" <=> reading = <<>>
  /\ reading # <<>> => ~reading[1].check
  /\ \A k \in 1 .. Len(reading) : reading[k].start + reading[k].size <= Len(parcel)
  /\ pos \in 0 .. Len(parcel)

IInv == ConfigInv /\ WriterInv /\ ReaderInv

-----------------------------------------------------------------------------
(* Stacks of calls.                                                        *)

LEMMA FieldsAreTyped ==
  ASSUME NEW t \in Type, NEW v \in Versions
  PROVE  /\ Fields[t][v] \in Seq({"int"} \cup (Type \ {Root}))
         /\ Len(Fields[t][v]) \in Nat
         /\ \A n \in 1 .. Len(Fields[t][v]) : Fields[t][v][n] # "int" => Fields[t][v][n] \in Type
<1>1. Fields[t][v] \in Seq({"int"} \cup (Type \ {Root}))
  BY ParcelableAssumption
<1> DEFINE S == {"int"} \cup (Type \ {Root})
<1>2. \A s \in Seq(S) : Len(s) \in Nat /\ \A n \in 1 .. Len(s) : s[n] \in S
  OBVIOUS
<1> QED BY <1>1, <1>2

LEMMA PopShape ==
  ASSUME NEW S, NEW s \in Seq(S), Len(s) > 1
  PROVE  /\ Pop(s) \in Seq(S) /\ Len(Pop(s)) = Len(s) - 1
         /\ \A k \in 1 .. Len(s) - 1 : Pop(s)[k] = s[k]
  BY DEF Pop

\* Going on to the next field changes nothing else.
LEMMA WriteNextShape ==
  ASSUME NEW stack \in Seq(WriteFrame), Len(stack) > 0
  PROVE  /\ WriteNext(stack) \in Seq(WriteFrame)
         /\ Len(WriteNext(stack)) = Len(stack)
         /\ \A k \in 1 .. Len(stack) : WriteNext(stack)[k].start = stack[k].start
<1> DEFINE n == Len(stack)
           top == [stack[n] EXCEPT !.next = stack[n].next + 1]
<1>1. n \in 1 .. n /\ n \in Nat /\ stack[n] \in WriteFrame
  OBVIOUS
<1>2. WriteNext(stack) = [stack EXCEPT ![n] = top]
  BY DEF WriteNext
<1>3. top \in WriteFrame /\ top.start = stack[n].start
  <2> DEFINE f == stack[n]
  <2>1. f \in WriteFrame BY <1>1
  <2> HIDE DEF f
  <2>2. [f EXCEPT !.next = f.next + 1] \in WriteFrame
    BY <2>1 DEF WriteFrame
  <2>3. [f EXCEPT !.next = f.next + 1].start = f.start
    BY <2>1 DEF WriteFrame
  <2> QED BY <2>2, <2>3 DEF f
<1> HIDE DEF top
<1>4. /\ [stack EXCEPT ![n] = top] \in Seq(WriteFrame)
      /\ Len([stack EXCEPT ![n] = top]) = n
      /\ \A k \in 1 .. n : [stack EXCEPT ![n] = top][k] = IF k = n THEN top ELSE stack[k]
  BY <1>1, <1>3, ExceptSeq
<1> QED BY <1>2, <1>3, <1>4

LEMMA ReadTopShape ==
  ASSUME NEW stack \in Seq(ReadFrame), Len(stack) > 0, NEW top \in ReadFrame,
         top.start = stack[Len(stack)].start, top.size = stack[Len(stack)].size,
         Len(stack) = 1 => ~top.check,
         ~stack[1].check,
         NEW new, new = [stack EXCEPT ![Len(stack)] = top]
  PROVE  /\ new \in Seq(ReadFrame) /\ Len(new) = Len(stack) /\ ~new[1].check
         /\ \A k \in 1 .. Len(stack) : new[k].start = stack[k].start /\ new[k].size = stack[k].size
<1>1. Len(stack) \in 1 .. Len(stack) /\ 1 \in 1 .. Len(stack)
  OBVIOUS
<1>2. /\ new \in Seq(ReadFrame)
      /\ Len(new) = Len(stack)
      /\ \A k \in 1 .. Len(stack) : new[k] = IF k = Len(stack) THEN top ELSE stack[k]
  BY <1>1, ExceptSeq
<1>3. ~new[1].check
  <2>1. CASE Len(stack) = 1
    <3>1. new[1] = top BY <1>1, <1>2, <2>1
    <3> QED BY <2>1, <3>1
  <2>2. CASE Len(stack) # 1
    <3>1. new[1] = stack[1] BY <1>1, <1>2, <2>2
    <3> QED BY <3>1
  <2> QED BY <2>1, <2>2
<1>4. ASSUME NEW k \in 1 .. Len(stack)
      PROVE  new[k].start = stack[k].start /\ new[k].size = stack[k].size
  <2>1. CASE k = Len(stack)
    <3>1. new[k] = top BY <1>2, <2>1
    <3> QED BY <2>1, <3>1
  <2>2. CASE k # Len(stack)
    <3>1. new[k] = stack[k] BY <1>2, <2>2
    <3> QED BY <3>1
  <2> QED BY <2>1, <2>2
<1> QED BY <1>2, <1>3, <1>4

LEMMA AfterValueShape ==
  ASSUME NEW stack \in Seq(ReadFrame), Len(stack) > 0, ~stack[1].check
  PROVE  /\ AfterValue(stack) \in Seq(ReadFrame)
         /\ Len(AfterValue(stack)) = Len(stack) /\ ~AfterValue(stack)[1].check
         /\ \A k \in 1 .. Len(stack) : /\ AfterValue(stack)[k].start = stack[k].start
                                       /\ AfterValue(stack)[k].size = stack[k].size
<1> DEFINE n == Len(stack)
           f == stack[n]
           next == [f EXCEPT !.next = f.next + 1]
           check == [f EXCEPT !.check = TRUE]
<1>1. n \in Nat /\ n \in 1 .. n /\ f \in ReadFrame
  OBVIOUS
<1>2. AfterValue(stack) = IF n = 1 THEN [stack EXCEPT ![n] = next] ELSE [stack EXCEPT ![n] = check]
  BY <1>1 DEF AfterValue
<1> HIDE DEF f
<1>3. next \in ReadFrame
  BY <1>1 DEF ReadFrame
<1>4. next.start = f.start /\ next.size = f.size /\ next.check = f.check
  BY <1>1 DEF ReadFrame
<1>5. check \in ReadFrame
  BY <1>1 DEF ReadFrame
<1>6. check.start = f.start /\ check.size = f.size
  BY <1>1 DEF ReadFrame
<1> HIDE DEF next, check
<1>7. CASE n = 1
  <2>1. AfterValue(stack) = [stack EXCEPT ![n] = next] BY <1>2, <1>7
  <2>2. ~next.check BY <1>4, <1>7 DEF f
  <2> QED BY <1>3, <1>4, <2>1, <2>2, ReadTopShape DEF f
<1>8. CASE n # 1
  <2>1. AfterValue(stack) = [stack EXCEPT ![n] = check] BY <1>2, <1>8
  <2> QED BY <1>5, <1>6, <1>8, <2>1, ReadTopShape DEF f
<1> QED BY <1>7, <1>8

-----------------------------------------------------------------------------
(* The writer.                                                             *)

LEMMA PathShape ==
  ASSUME NEW stack \in Seq(WriteFrame)
  PROVE  IntCell(Path(stack)) \in Cell /\ IntCell(Path(stack))[1] = "int"
<1>1. /\ Len(stack) \in Nat /\ DOMAIN stack = 1 .. Len(stack)
      /\ \A k \in 1 .. Len(stack) : stack[k] \in WriteFrame
  OBVIOUS
<1>2. \A k \in 1 .. Len(stack) : stack[k].type \in Type /\ stack[k].next \in Nat \ {0}
  BY <1>1 DEF WriteFrame
<1>3. Path(stack) \in [1 .. Len(stack) -> Type \X (Nat \ {0})]
  BY <1>1, <1>2 DEF Path
<1>4. Path(stack) \in Seq(Type \X (Nat \ {0}))
  BY <1>1, <1>3
<1> QED BY <1>4 DEF IntCell, Cell

LEMMA AppendSized ==
  ASSUME NEW cells \in Seq(Cell), Sized(cells), NEW x \in Cell, x[1] = "size" => x[2] = 0
  PROVE  /\ Append(cells, x) \in Seq(Cell) /\ Len(Append(cells, x)) = Len(cells) + 1
         /\ Sized(Append(cells, x))
<1> DEFINE new == Append(cells, x)
<1>1. /\ new \in Seq(Cell) /\ Len(new) = Len(cells) + 1 /\ Len(cells) \in Nat
      /\ \A i \in 1 .. Len(cells) : new[i] = cells[i]
      /\ new[Len(cells) + 1] = x
  BY AppendProperties, LenProperties
<1> HIDE DEF new
<1>2. ASSUME NEW i \in 1 .. Len(new), new[i][1] = "size"
      PROVE  i - 1 + new[i][2] <= Len(new)
  <2>1. CASE i \in 1 .. Len(cells)
    <3>1. new[i] = cells[i] /\ cells[i] \in Cell BY <1>1, <2>1
    <3>2. cells[i][2] \in Nat BY <1>2, <3>1 DEF Cell
    <3>3. i - 1 + cells[i][2] <= Len(cells) BY <1>2, <2>1, <3>1 DEF Sized
    <3> QED BY <1>1, <3>1, <3>2, <3>3
  <2>2. CASE i = Len(cells) + 1
    BY <1>1, <1>2, <2>2
  <2> QED BY <1>1, <2>1, <2>2
<1> QED BY <1>1, <1>2 DEF Sized, new

LEMMA InitIInv == Init => IInv
<1> SUFFICES ASSUME Init PROVE IInv OBVIOUS
<1> DEFINE f == [type |-> Root, next |-> 1, start |-> 0]
<1>1. f \in WriteFrame /\ f.start = 0
  BY ParcelableAssumption DEF WriteFrame
<1> HIDE DEF f
<1>2. writing = <<f>> BY DEF Init, f
<1>3. FramesIn(writing, parcel) BY <1>1, <1>2 DEF FramesIn
<1>4. WriterInv BY <1>3 DEF Init, WriterInv, Sized
<1> QED BY <1>4 DEF Init, IInv, ConfigInv, ReaderInv

\* A longer parcel has the frames of a shorter one, also the next field's.
LEMMA FramesStay ==
  ASSUME NEW stack, NEW cells \in Seq(Cell), NEW new \in Seq(Cell),
         Len(cells) <= Len(new), FramesIn(stack, cells)
  PROVE  FramesIn(stack, new) /\ FramesIn(WriteNext(stack), new)
<1>1. stack \in Seq(WriteFrame) /\ Len(stack) > 0 /\ Len(stack) \in Nat
  BY DEF FramesIn
<1>2. Len(cells) \in Nat /\ Len(new) \in Nat OBVIOUS
<1>3. FramesIn(stack, new) BY <1>2 DEF FramesIn
<1>4. FramesIn(WriteNext(stack), new)
  <2>1. /\ WriteNext(stack) \in Seq(WriteFrame) /\ Len(WriteNext(stack)) = Len(stack)
        /\ \A k \in 1 .. Len(stack) : WriteNext(stack)[k].start = stack[k].start
    BY <1>1, WriteNextShape
  <2>2. 1 \in 1 .. Len(stack) BY <1>1
  <2> QED BY <1>1, <1>3, <2>1, <2>2 DEF FramesIn
<1> QED BY <1>3, <1>4

\* While the writer runs, the reader has not started.
LEMMA WriterStep ==
  ASSUME IInv, outcome = "write", WriterInv', UNCHANGED <<config, reading, pos, outcome>>,
         Len(parcel) <= Len(parcel')
  PROVE  IInv'
<1>1. ConfigInv' BY DEF IInv, ConfigInv, config
<1>2. reading = <<>> /\ pos \in 0 .. Len(parcel) /\ Len(parcel) \in Nat /\ Len(parcel') \in Nat
  BY DEF IInv, ReaderInv, WriterInv
<1>3. ReaderInv' BY <1>2 DEF ReaderInv
<1> QED BY <1>1, <1>3 DEF IInv

LEMMA WriteIntStep == ASSUME IInv, WriteInt PROVE IInv'
<1> DEFINE x == IntCell(Path(writing))
<1>1. x \in Cell /\ x[1] = "int" BY PathShape DEF IInv, WriterInv, FramesIn
<1> HIDE DEF x
<1>2. parcel' = Append(parcel, x) /\ writing' = WriteNext(writing) BY DEF WriteInt, x
<1>3. parcel \in Seq(Cell) /\ Sized(parcel) BY DEF IInv, WriterInv
<1>4. parcel' \in Seq(Cell) /\ Len(parcel') = Len(parcel) + 1 /\ Sized(parcel')
  BY <1>1, <1>2, <1>3, AppendSized
<1>5. Len(parcel) <= Len(parcel') BY <1>3, <1>4
<1>6. FramesIn(writing', parcel')
  BY <1>2, <1>3, <1>4, <1>5, FramesStay DEF IInv, WriterInv
<1>7. WriterInv' BY <1>4, <1>6 DEF WriterInv
<1> QED BY <1>5, <1>7, WriterStep DEF WriteInt

LEMMA WriteNullStep == ASSUME IInv, WriteNull PROVE IInv'
<1> DEFINE x == Flag(0)
<1>1. x \in Cell /\ x[1] = "flag" BY DEF Flag, Cell
<1> HIDE DEF x
<1>2. parcel' = Append(parcel, x) /\ writing' = WriteNext(writing) BY DEF WriteNull, x
<1>3. parcel \in Seq(Cell) /\ Sized(parcel) BY DEF IInv, WriterInv
<1>4. parcel' \in Seq(Cell) /\ Len(parcel') = Len(parcel) + 1 /\ Sized(parcel')
  BY <1>1, <1>2, <1>3, AppendSized
<1>5. Len(parcel) <= Len(parcel') BY <1>3, <1>4
<1>6. FramesIn(writing', parcel')
  BY <1>2, <1>3, <1>4, <1>5, FramesStay DEF IInv, WriterInv
<1>7. WriterInv' BY <1>4, <1>6 DEF WriterInv
<1> QED BY <1>5, <1>7, WriterStep DEF WriteNull

\* The field that is written, or read, next.
LEMMA NextType ==
  ASSUME NEW t \in Type, NEW v \in Versions, NEW n \in Nat \ {0},
         n <= Len(Fields[t][v]), Fields[t][v][n] # "int"
  PROVE  Fields[t][v][n] \in Type
<1>1. n \in 1 .. Len(Fields[t][v]) BY FieldsAreTyped
<1> QED BY <1>1, FieldsAreTyped

LEMMA WriteParcelableStep == ASSUME IInv, WriteParcelable PROVE IInv'
<1> DEFINE one == Append(parcel, Flag(1))
           two == Append(one, SizeOf(0))
           f == [type |-> ToWrite[Writing.next], next |-> 1, start |-> Len(parcel) + 1]
           n == Len(writing)
<1>1. /\ parcel \in Seq(Cell) /\ Sized(parcel) /\ Len(parcel) \in Nat
      /\ writing \in Seq(WriteFrame) /\ n \in Nat \ {0}
      /\ written \in Versions
      /\ FramesIn(writing, parcel)
  BY DEF IInv, ConfigInv, WriterInv, FramesIn
<1>2. /\ Flag(1) \in Cell /\ Flag(1)[1] = "flag"
      /\ SizeOf(0) \in Cell /\ SizeOf(0)[1] = "size" /\ SizeOf(0)[2] = 0
  BY DEF Flag, SizeOf, Cell
<1>3. one \in Seq(Cell) /\ Len(one) = Len(parcel) + 1 /\ Sized(one)
  BY <1>1, <1>2, AppendSized
<1> HIDE DEF one
<1>4. two \in Seq(Cell) /\ Len(two) = Len(parcel) + 2 /\ Sized(two)
  BY <1>1, <1>2, <1>3, AppendSized
<1>5. parcel' = two
  <2>1. <<Flag(1), SizeOf(0)>> \in Seq(Cell) BY <1>2
  <2>2. parcel \o <<Flag(1), SizeOf(0)>> = two
    BY <1>1, <1>2 DEF one
  <2> QED BY <2>2 DEF WriteParcelable
<1> HIDE DEF two
<1>6. f \in WriteFrame /\ f.start = Len(parcel) + 1
  <2>1. writing[n] \in WriteFrame BY <1>1
  <2>2. writing[n].type \in Type /\ writing[n].next \in Nat \ {0} BY <2>1 DEF WriteFrame
  <2>3. ToWrite[Writing.next] \in Type
    BY <1>1, <2>2, NextType DEF WriteParcelable, ToWrite, Writing, Last
  <2> QED BY <1>1, <2>3 DEF WriteFrame
<1>7. writing' = Append(writing, f) BY DEF WriteParcelable
<1> HIDE DEF f
<1>8. FramesIn(writing', parcel')
  <2>1. /\ writing' \in Seq(WriteFrame) /\ Len(writing') = n + 1
        /\ \A k \in 1 .. n : writing'[k] = writing[k]
        /\ writing'[n + 1] = f
    BY <1>1, <1>6, <1>7, AppendProperties
  <2>2. Len(parcel') = Len(parcel) + 2 BY <1>4, <1>5
  <2>3. ASSUME NEW k \in 1 .. Len(writing'), k > 1
        PROVE  writing'[k].start + 1 \in 1 .. Len(parcel')
    <3>1. CASE k = n + 1 BY <1>1, <1>6, <2>1, <2>2, <3>1
    <3>2. CASE k \in 1 .. n
      <4>1. writing'[k] = writing[k] BY <2>1, <3>2
      <4>2. writing[k].start + 1 \in 1 .. Len(parcel) BY <1>1, <2>3, <3>2 DEF FramesIn
      <4> QED BY <1>1, <2>2, <4>1, <4>2
    <3> QED BY <1>1, <2>1, <3>1, <3>2
  <2>4. writing'[1].start = 0
    <3>1. writing'[1] = writing[1] BY <1>1, <2>1
    <3> QED BY <1>1, <3>1 DEF FramesIn
  <2> QED BY <1>1, <2>1, <2>3, <2>4 DEF FramesIn
<1>9. WriterInv' BY <1>4, <1>5, <1>8 DEF WriterInv
<1>10. Len(parcel) <= Len(parcel') BY <1>1, <1>4, <1>5
<1> QED BY <1>9, <1>10, WriterStep DEF WriteParcelable

\* The size that is corrected ends where the parcel ends.
LEMMA WriteEndStep == ASSUME IInv, WriteEnd PROVE IInv'
<1> DEFINE n == Len(writing)
           start == writing[n].start
           x == SizeOf(Len(parcel) - start)
<1>1. /\ parcel \in Seq(Cell) /\ Sized(parcel) /\ Len(parcel) \in Nat
      /\ writing \in Seq(WriteFrame) /\ n \in Nat /\ n > 1
      /\ FramesIn(writing, parcel)
  BY DEF IInv, WriterInv, FramesIn, WriteEnd
<1>2. start + 1 \in 1 .. Len(parcel) /\ start \in Nat
  <2>1. n \in 1 .. n BY <1>1
  <2>2. writing[n] \in WriteFrame BY <1>1, <2>1
  <2> QED BY <1>1, <2>1, <2>2 DEF FramesIn, WriteFrame
<1>3. /\ parcel' = [parcel EXCEPT ![start + 1] = x]
      /\ writing' = WriteNext(Pop(writing))
  BY DEF WriteEnd, Writing, Last
<1> HIDE DEF start
<1>4. x \in Cell /\ x[1] = "size" /\ x[2] = Len(parcel) - start
  BY <1>1, <1>2 DEF SizeOf, Cell
<1> HIDE DEF x
<1>5. /\ parcel' \in Seq(Cell) /\ Len(parcel') = Len(parcel)
      /\ \A i \in 1 .. Len(parcel) : parcel'[i] = IF i = start + 1 THEN x ELSE parcel[i]
  BY <1>1, <1>2, <1>3, <1>4, ExceptSeq
<1>6. Sized(parcel')
  <2>1. ASSUME NEW i \in 1 .. Len(parcel'), parcel'[i][1] = "size"
        PROVE  i - 1 + parcel'[i][2] <= Len(parcel')
    <3>1. CASE i = start + 1
      <4>1. parcel'[i] = x BY <1>5, <2>1, <3>1
      <4> QED BY <1>1, <1>2, <1>4, <1>5, <3>1, <4>1
    <3>2. CASE i # start + 1
      <4>1. parcel'[i] = parcel[i] BY <1>5, <2>1, <3>2
      <4> QED BY <1>1, <1>5, <2>1, <4>1 DEF Sized
    <3> QED BY <3>1, <3>2
  <2> QED BY <2>1 DEF Sized
<1>7. FramesIn(Pop(writing), parcel)
  <2>1. /\ Pop(writing) \in Seq(WriteFrame) /\ Len(Pop(writing)) = n - 1
        /\ \A k \in 1 .. n - 1 : Pop(writing)[k] = writing[k]
    BY <1>1, PopShape
  <2>2. 1 \in 1 .. n - 1 BY <1>1
  <2>3. \A k \in 1 .. n - 1 : k \in 1 .. n BY <1>1
  <2> QED BY <1>1, <2>1, <2>2, <2>3 DEF FramesIn
<1>8. FramesIn(writing', parcel')
  <2>1. Len(parcel) <= Len(parcel') BY <1>1, <1>5
  <2>2. parcel \in Seq(Cell) /\ parcel' \in Seq(Cell) BY <1>1, <1>5
  <2>3. FramesIn(WriteNext(Pop(writing)), parcel') BY <1>7, <2>1, <2>2, FramesStay
  <2> QED BY <1>3, <2>3
<1>9. WriterInv' BY <1>5, <1>6, <1>8 DEF WriterInv
<1> QED BY <1>1, <1>5, <1>9, WriterStep DEF WriteEnd

LEMMA SendStep == ASSUME IInv, Send PROVE IInv'
<1> DEFINE f == [type |-> Root, next |-> 1, start |-> 0, size |-> 0, check |-> FALSE]
<1>1. f \in ReadFrame /\ f.start = 0 /\ f.size = 0 /\ ~f.check
  BY ParcelableAssumption DEF ReadFrame
<1> HIDE DEF f
<1>2. reading' = <<f>> /\ outcome' = "read" /\ UNCHANGED <<config, parcel, writing, pos>>
  BY DEF Send, f
<1>3. WriterInv' BY <1>2 DEF IInv, WriterInv
<1>4. ConfigInv' BY <1>2 DEF IInv, ConfigInv, config
<1>5. Len(parcel) \in Nat BY DEF IInv, WriterInv
<1>6. reading' \in Seq(ReadFrame) /\ Len(reading') = 1 /\ reading'[1] = f BY <1>1, <1>2
<1>7. ReaderInv' BY <1>1, <1>2, <1>5, <1>6 DEF IInv, ReaderInv
<1> QED BY <1>3, <1>4, <1>7 DEF IInv

-----------------------------------------------------------------------------
(* The reader.                                                             *)

\* While the reader runs, the parcel is there.
LEMMA ReaderStep ==
  ASSUME IInv, outcome = "read", outcome' \in {"read", "done", "error", "misread"},
         reading' \in Seq(ReadFrame), Len(reading') > 0, ~reading'[1].check,
         \A k \in 1 .. Len(reading') : reading'[k].start + reading'[k].size <= Len(parcel),
         pos' \in 0 .. Len(parcel),
         UNCHANGED <<config, parcel, writing>>
  PROVE  IInv'
<1>1. ConfigInv' BY DEF IInv, ConfigInv, config
<1>2. WriterInv' BY DEF IInv, WriterInv
<1>3. reading' # <<>> BY EmptySeq
<1>4. ReaderInv' BY <1>3 DEF ReaderInv
<1> QED BY <1>1, <1>2, <1>4 DEF IInv

\* What is known of the calls in progress.
LEMMA ReaderFacts ==
  ASSUME IInv, outcome = "read"
  PROVE  /\ reading \in Seq(ReadFrame) /\ Len(reading) \in Nat /\ Len(reading) > 0
         /\ ~reading[1].check /\ Reading \in ReadFrame
         /\ Reading.start + Reading.size \in 0 .. Len(parcel)
         /\ \A k \in 1 .. Len(reading) : reading[k].start + reading[k].size <= Len(parcel)
         /\ pos \in 0 .. Len(parcel) /\ pos \in Nat /\ Len(parcel) \in Nat
         /\ parcel \in Seq(Cell) /\ known \in Versions
<1>1. /\ reading \in Seq(ReadFrame) /\ reading # <<>> /\ ~reading[1].check
      /\ \A k \in 1 .. Len(reading) : reading[k].start + reading[k].size <= Len(parcel)
      /\ parcel \in Seq(Cell) /\ pos \in 0 .. Len(parcel)
      /\ known \in Versions
  BY DEF IInv, ConfigInv, ReaderInv, WriterInv
<1>2. Len(reading) \in Nat /\ Len(reading) > 0 BY <1>1, EmptySeq
<1>3. Len(reading) \in 1 .. Len(reading) BY <1>2
<1>4. Reading \in ReadFrame BY <1>1, <1>3 DEF Reading, Last
<1>5. Reading.start + Reading.size <= Len(parcel) BY <1>1, <1>3 DEF Reading, Last
<1>6. Reading.start \in Nat /\ Reading.size \in Nat BY <1>4 DEF ReadFrame
<1>7. Len(parcel) \in Nat BY <1>1
<1> QED BY <1>1, <1>2, <1>4, <1>5, <1>6, <1>7

LEMMA AbortStep ==
  ASSUME IInv, outcome = "read", NEW why \in {"error", "misread"}, Abort(why)
  PROVE  IInv'
<1>1. outcome' = why /\ UNCHANGED <<config, parcel, writing, reading, pos>> BY DEF Abort
<1> QED BY <1>1, ReaderFacts, ReaderStep

LEMMA ReadIntStep == ASSUME IInv, ReadInt PROVE IInv'
<1>1. outcome = "read" BY DEF ReadInt, Wants
<1>2. CASE Abort("error") BY <1>1, <1>2, AbortStep
<1>3. CASE /\ pos' = IF pos < Len(parcel) THEN pos + 1 ELSE pos
           /\ reading' = AfterValue(reading)
           /\ UNCHANGED <<config, parcel, writing, outcome>>
  <2>1. pos' \in 0 .. Len(parcel) BY <1>1, <1>3, ReaderFacts
  <2>2. /\ reading' \in Seq(ReadFrame) /\ Len(reading') = Len(reading) /\ ~reading'[1].check
        /\ \A k \in 1 .. Len(reading) :
             reading'[k].start = reading[k].start /\ reading'[k].size = reading[k].size
    BY <1>1, <1>3, ReaderFacts, AfterValueShape
  <2> QED BY <1>1, <1>3, <2>1, <2>2, ReaderFacts, ReaderStep
<1> QED BY <1>2, <1>3 DEF ReadInt

\* A size that is read came from WriteEnd, or is still 0.
LEMMA ReadParcelableStep == ASSUME IInv, ReadParcelable PROVE IInv'
<1>1. outcome = "read" BY DEF ReadParcelable, Wants
<1>2. CASE /\ CellAt(pos) = Flag(0) /\ pos' = pos + 1
           /\ reading' = AfterValue(reading)
           /\ UNCHANGED <<config, parcel, writing, outcome>>
  <2>1. pos < Len(parcel) BY <1>2 DEF CellAt, Flag, Zero
  <2>2. pos' \in 0 .. Len(parcel) BY <1>1, <1>2, <2>1, ReaderFacts
  <2>3. /\ reading' \in Seq(ReadFrame) /\ Len(reading') = Len(reading) /\ ~reading'[1].check
        /\ \A k \in 1 .. Len(reading) :
             reading'[k].start = reading[k].start /\ reading'[k].size = reading[k].size
    BY <1>1, <1>2, ReaderFacts, AfterValueShape
  <2> QED BY <1>1, <1>2, <2>2, <2>3, ReaderFacts, ReaderStep
<1>3. CASE /\ Wants("parcelable") /\ CellAt(pos + 1)[1] = "size"
           /\ reading' = Append(reading, [type |-> ToRead[Reading.next], next |-> 1, start |-> pos + 1,
                                       size |-> CellAt(pos + 1)[2], check |-> FALSE])
           /\ pos' = pos + 2
           /\ UNCHANGED <<config, parcel, writing, outcome>>
  <2> DEFINE x == CellAt(pos + 1)
             t == ToRead[Reading.next]
             f == [type |-> t, next |-> 1, start |-> pos + 1, size |-> x[2], check |-> FALSE]
  <2>1. pos + 1 < Len(parcel) /\ x = parcel[pos + 2]
    <3>1. Zero[1] # "size" BY DEF Zero
    <3>2. (pos + 1) + 1 = pos + 2 BY <1>1, ReaderFacts
    <3> QED BY <1>3, <3>1, <3>2 DEF CellAt
  <2>2. pos + 2 \in 1 .. Len(parcel) BY <1>1, <2>1, ReaderFacts
  <2>3. x \in Cell BY <1>1, <2>1, <2>2, ReaderFacts
  <2>4. x[2] \in Nat BY <1>3, <2>3 DEF Cell
  <2>5. pos + 1 + x[2] <= Len(parcel)
    <3>1. (pos + 2) - 1 = pos + 1 BY <1>1, ReaderFacts
    <3>2. (pos + 2) - 1 + parcel[pos + 2][2] <= Len(parcel)
      BY <1>3, <2>1, <2>2 DEF IInv, WriterInv, Sized
    <3> QED BY <2>1, <3>1, <3>2
  <2>6. t \in Type
    <3>1. Reading.type \in Type /\ Reading.next \in Nat \ {0} BY <1>1, ReaderFacts DEF ReadFrame
    <3>2. /\ Reading.next <= Len(Fields[Reading.type][known])
          /\ Fields[Reading.type][known][Reading.next] # "int"
      BY <1>3 DEF Wants, ToRead
    <3> QED BY <1>1, <3>1, <3>2, ReaderFacts, NextType DEF ToRead
  <2> HIDE DEF x, t
  <2>7. f \in ReadFrame /\ f.start = pos + 1 /\ f.size = x[2]
    BY <1>1, <2>4, <2>6, ReaderFacts DEF ReadFrame
  <2> HIDE DEF f
  <2>8. reading' = Append(reading, f) BY <1>3 DEF f, x, t
  <2>9. /\ reading' \in Seq(ReadFrame) /\ Len(reading') = Len(reading) + 1
        /\ \A k \in 1 .. Len(reading) : reading'[k] = reading[k]
        /\ reading'[Len(reading) + 1] = f
    BY <1>1, <2>7, <2>8, ReaderFacts, AppendProperties
  <2>10. ~reading'[1].check
    <3>1. reading'[1] = reading[1] BY <1>1, <2>9, ReaderFacts
    <3> QED BY <1>1, <3>1, ReaderFacts
  <2>11. ASSUME NEW k \in 1 .. Len(reading')
         PROVE  reading'[k].start + reading'[k].size <= Len(parcel)
    <3>1. CASE k = Len(reading) + 1 BY <2>5, <2>7, <2>9, <3>1
    <3>2. CASE k \in 1 .. Len(reading)
      <4>1. reading'[k] = reading[k] BY <2>9, <3>2
      <4> QED BY <1>1, <3>2, <4>1, ReaderFacts
    <3> QED BY <1>1, <2>9, <3>1, <3>2, ReaderFacts
  <2>12. pos' \in 0 .. Len(parcel) BY <1>1, <1>3, <2>1, ReaderFacts
  <2>13. Len(reading') > 0 BY <1>1, <2>9, ReaderFacts
  <2> QED BY <1>1, <1>3, <2>9, <2>10, <2>11, <2>12, <2>13, ReaderStep
<1>4. CASE Abort("error") \/ Abort("misread") BY <1>1, <1>4, AbortStep
<1> QED BY <1>2, <1>3, <1>4 DEF ReadParcelable

\* The end of a parcelable: only the argument list is at the bottom.
LEMMA ReturnFromParcelable ==
  ASSUME IInv, outcome = "read", Len(reading) > 1, UNCHANGED <<config, parcel, writing, outcome>>,
         pos' \in 0 .. Len(parcel), reading' = AfterValue(Pop(reading))
  PROVE  IInv'
<1> DEFINE old == Pop(reading)
<1>1. /\ old \in Seq(ReadFrame) /\ Len(old) = Len(reading) - 1
      /\ \A k \in 1 .. Len(reading) - 1 : old[k] = reading[k]
  BY ReaderFacts, PopShape
<1> HIDE DEF old
<1>2. Len(old) > 0 /\ 1 \in 1 .. Len(reading) - 1 BY <1>1, ReaderFacts
<1>3. ~old[1].check BY <1>1, <1>2, ReaderFacts
<1>4. /\ reading' \in Seq(ReadFrame) /\ Len(reading') = Len(old) /\ ~reading'[1].check
      /\ \A k \in 1 .. Len(old) :
           reading'[k].start = old[k].start /\ reading'[k].size = old[k].size
  BY <1>1, <1>2, <1>3, AfterValueShape DEF old
<1>5. ASSUME NEW k \in 1 .. Len(reading')
      PROVE  reading'[k].start + reading'[k].size <= Len(parcel)
  <2>1. k \in 1 .. Len(old) /\ k \in 1 .. Len(reading) /\ old[k] = reading[k]
    BY <1>1, <1>4, ReaderFacts
  <2> QED BY <1>4, <2>1, ReaderFacts
<1> QED BY <1>2, <1>4, <1>5, ReaderStep

\* Going on to the next field leaves the bounds alone.
LEMMA NextFieldShape ==
  ASSUME NEW f \in ReadFrame
  PROVE  /\ NextField(f) \in ReadFrame /\ ~NextField(f).check
         /\ NextField(f).start = f.start /\ NextField(f).size = f.size
<1> DEFINE g == [f EXCEPT !.next = f.next + 1]
<1>1. f.next \in Nat \ {0} /\ f.next + 1 \in Nat \ {0} BY DEF ReadFrame
<1>2. g \in ReadFrame /\ g.start = f.start /\ g.size = f.size BY <1>1 DEF ReadFrame
<1>3. [g EXCEPT !.check = FALSE] \in ReadFrame BY <1>2 DEF ReadFrame
<1>4. /\ [g EXCEPT !.check = FALSE].start = g.start
      /\ [g EXCEPT !.check = FALSE].size = g.size
      /\ ~[g EXCEPT !.check = FALSE].check
  BY <1>2 DEF ReadFrame
<1>5. NextField(f) = [g EXCEPT !.check = FALSE]
  BY DEF NextField
<1> QED BY <1>2, <1>3, <1>4, <1>5

LEMMA AboveOne == ASSUME NEW n \in Nat, n > 0, n # 1 PROVE n > 1
OBVIOUS

LEMMA CheckSizeStep == ASSUME IInv, CheckSize PROVE IInv'
<1>1. outcome = "read" /\ Reading.check /\ UNCHANGED <<config, parcel, writing, outcome>>
  BY DEF CheckSize
<1>2. Len(reading) > 1
  <2>1. Len(reading) # 1 BY <1>1, ReaderFacts DEF Reading, Last
  <2>2. Len(reading) \in Nat /\ Len(reading) > 0 BY <1>1, ReaderFacts
  <2> QED BY <2>1, <2>2, AboveOne
<1>3. CASE pos' = Reading.start + Reading.size /\ reading' = AfterValue(Pop(reading))
  <2>1. pos' \in 0 .. Len(parcel) BY <1>1, <1>3, ReaderFacts
  <2> QED BY <1>1, <1>2, <1>3, <2>1, ReturnFromParcelable
<1>4. CASE /\ pos' = pos
           /\ reading' = [reading EXCEPT ![Len(reading)] = NextField(@)]
  <2> DEFINE f == reading[Len(reading)]
             top == NextField(f)
  <2>1. f \in ReadFrame BY <1>1, ReaderFacts DEF Reading, Last
  <2>2. reading' = [reading EXCEPT ![Len(reading)] = top] BY <1>4
  <2> HIDE DEF f
  <2>3. top \in ReadFrame BY <2>1, NextFieldShape
  <2>4. top.start = f.start /\ top.size = f.size /\ ~top.check BY <2>1, NextFieldShape
  <2> HIDE DEF top
  <2>5. /\ reading' \in Seq(ReadFrame) /\ Len(reading') = Len(reading) /\ ~reading'[1].check
        /\ \A k \in 1 .. Len(reading) :
             reading'[k].start = reading[k].start /\ reading'[k].size = reading[k].size
    BY <1>1, <2>2, <2>3, <2>4, ReaderFacts, ReadTopShape DEF f
  <2>6. pos' \in 0 .. Len(parcel) BY <1>1, <1>4, ReaderFacts
  <2> QED BY <1>1, <2>5, <2>6, ReaderFacts, ReaderStep
<1> QED BY <1>3, <1>4 DEF CheckSize

LEMMA ReadEndStep == ASSUME IInv, ReadEnd PROVE IInv'
<1>1. /\ outcome = "read" /\ Len(reading) > 1 /\ UNCHANGED <<config, parcel, writing, outcome>>
      /\ reading' = AfterValue(Pop(reading))
      /\ pos' = pos \/ pos' = Reading.start + Reading.size
  BY DEF ReadEnd
<1>2. pos' \in 0 .. Len(parcel) BY <1>1, ReaderFacts
<1> QED BY <1>1, <1>2, ReturnFromParcelable

LEMMA ReceiveStep == ASSUME IInv, Receive PROVE IInv'
<1>1. outcome = "read" /\ outcome' = "done" /\ UNCHANGED <<config, parcel, writing, reading, pos>>
  BY DEF Receive
<1> QED BY <1>1, ReaderFacts, ReaderStep

-----------------------------------------------------------------------------
LEMMA NextIInv == IInv /\ [Next]_vars => IInv'
<1> SUFFICES ASSUME IInv, [Next]_vars PROVE IInv' OBVIOUS
<1>1. CASE UNCHANGED vars
  BY <1>1 DEF vars, config, IInv, ConfigInv, WriterInv, ReaderInv
<1> QED BY <1>1, WriteIntStep, WriteParcelableStep, WriteNullStep, WriteEndStep, SendStep,
   ReadIntStep, ReadParcelableStep, CheckSizeStep, ReadEndStep, ReceiveStep DEF Next

\* The inductive invariant: every size that is written, and so every
\* parcelable that is being read, ends inside the parcel.
THEOREM Invariance == Spec => []IInv
BY InitIInv, NextIInv, PTL DEF Spec

\* For any types, versions, nesting and backends: no reader's data position
\* ever leaves the parcel, though it is set from sizes found in the parcel.
THEOREM TypeOKAlways == Spec => []TypeOK
<1>1. ASSUME IInv PROVE TypeOK
  <2>1. /\ {writerLang, readerLang} \subseteq Langs /\ {written, known} \subseteq Versions
        /\ outcome \in {"write", "read", "done", "error", "misread"}
        /\ pos \in 0 .. Len(parcel)
    BY <1>1 DEF IInv, ConfigInv, ReaderInv
  <2>2. ASSUME NEW k \in DOMAIN parcel PROVE parcel[k][1] \in {"int", "flag", "size"}
    <3>1. parcel[k] \in Cell BY <1>1 DEF IInv, WriterInv
    <3> QED BY <3>1 DEF Cell
  <2>3. ASSUME NEW k \in DOMAIN writing
        PROVE  writing[k].type \in Type /\ writing[k].start \in 0 .. Len(parcel)
    <3>1. /\ writing \in Seq(WriteFrame) /\ parcel \in Seq(Cell) /\ FramesIn(writing, parcel)
      BY <1>1 DEF IInv, WriterInv, FramesIn
    <3>2. k \in 1 .. Len(writing) /\ writing[k] \in WriteFrame /\ Len(parcel) \in Nat
      BY <3>1
    <3>3. writing[k].start \in 0 .. Len(parcel)
      <4>1. writing[k].start \in Nat BY <3>2 DEF WriteFrame
      <4>2. CASE k = 1
        <5>1. writing[k].start = 0 BY <3>1, <4>2 DEF FramesIn
        <5> QED BY <3>2, <5>1
      <4>3. CASE k > 1
        <5>1. writing[k].start + 1 \in 1 .. Len(parcel) BY <3>1, <3>2, <4>3 DEF FramesIn
        <5> QED BY <3>2, <4>1, <5>1
      <4> QED BY <3>2, <4>2, <4>3
    <3> QED BY <3>2, <3>3 DEF WriteFrame
  <2>4. ASSUME NEW k \in DOMAIN reading
        PROVE  reading[k].type \in Type /\ reading[k].size \in 0 .. Len(parcel)
    <3>1. /\ reading \in Seq(ReadFrame) /\ parcel \in Seq(Cell)
          /\ \A i \in 1 .. Len(reading) : reading[i].start + reading[i].size <= Len(parcel)
      BY <1>1 DEF IInv, WriterInv, ReaderInv
    <3>2. k \in 1 .. Len(reading) /\ reading[k] \in ReadFrame /\ Len(parcel) \in Nat
      BY <3>1
    <3>3. reading[k].size \in 0 .. Len(parcel)
      BY <3>1, <3>2 DEF ReadFrame
    <3> QED BY <3>2, <3>3 DEF ReadFrame
  <2> QED BY <2>1, <2>2, <2>3, <2>4 DEF TypeOK
<1> QED BY <1>1, Invariance, PTL

-----------------------------------------------------------------------------
(* Paths.                                                                  *)

Step == Type \X (Nat \ {0})
Upto(path, k) == SubSeq(path, 1, k)
NextTo(path) == [path EXCEPT ![Len(path)] = <<path[Len(path)][1], path[Len(path)][2] + 1>>]

\* What version v has at a path; a path one beyond the last field is where
\* the parcelable ends.
Count(path, v) == Len(Fields[Last(path)[1]][v])
IsField(path, v) == Last(path)[2] <= Count(path, v)
FieldAt(path, v) == Fields[Last(path)[1]][v][Last(path)[2]]
First(path, v) == Append(path, <<FieldAt(path, v), 1>>)

LEMMA UptoShape ==
  ASSUME NEW S, NEW p \in Seq(S), NEW k \in Nat, k <= Len(p)
  PROVE  /\ Upto(p, k) \in Seq(S) /\ Len(Upto(p, k)) = k
         /\ \A j \in 1 .. k : Upto(p, k)[j] = p[j]
  BY DEF Upto

LEMMA UptoSame ==
  ASSUME NEW S, NEW p \in Seq(S), NEW q \in Seq(S), NEW k \in Nat, k <= Len(p), k <= Len(q),
         \A j \in 1 .. k : p[j] = q[j]
  PROVE  Upto(p, k) = Upto(q, k)
<1>1. /\ Upto(p, k) \in Seq(S) /\ Len(Upto(p, k)) = k /\ \A j \in 1 .. k : Upto(p, k)[j] = p[j]
      /\ Upto(q, k) \in Seq(S) /\ Len(Upto(q, k)) = k /\ \A j \in 1 .. k : Upto(q, k)[j] = q[j]
  BY UptoShape
<1> QED BY <1>1, SeqEqual

LEMMA SameUpto ==
  ASSUME NEW S, NEW p \in Seq(S), NEW q \in Seq(S), NEW k \in Nat, k <= Len(p), k <= Len(q),
         Upto(p, k) = Upto(q, k), NEW j \in 1 .. k
  PROVE  p[j] = q[j]
<1>1. Upto(p, k)[j] = p[j] /\ Upto(q, k)[j] = q[j] BY UptoShape
<1> QED BY <1>1

LEMMA UptoAll == ASSUME NEW S, NEW p \in Seq(S) PROVE Upto(p, Len(p)) = p
<1>1. /\ Len(p) \in Nat /\ Upto(p, Len(p)) \in Seq(S) /\ Len(Upto(p, Len(p))) = Len(p)
      /\ \A j \in 1 .. Len(p) : Upto(p, Len(p))[j] = p[j]
  BY UptoShape
<1> QED BY <1>1, SeqEqual

LEMMA UptoUpto ==
  ASSUME NEW S, NEW p \in Seq(S), NEW j \in Nat, NEW k \in Nat, j <= k, k <= Len(p)
  PROVE  Upto(Upto(p, k), j) = Upto(p, j)
<1>1. /\ Upto(p, k) \in Seq(S) /\ Len(Upto(p, k)) = k
      /\ \A i \in 1 .. j : Upto(p, k)[i] = p[i]
  BY UptoShape
<1> QED BY <1>1, UptoSame

\* A path is its parcelable's and its last step.
LEMMA PathEqual ==
  ASSUME NEW S, NEW p \in Seq(S), NEW q \in Seq(S), NEW n \in Nat, n > 0, Len(p) = n, Len(q) = n,
         Upto(p, n - 1) = Upto(q, n - 1), p[n] = q[n]
  PROVE  p = q
<1>1. \A j \in 1 .. n - 1 : p[j] = q[j] BY SameUpto
<1>2. \A j \in 1 .. n : j = n \/ j \in 1 .. n - 1 OBVIOUS
<1> QED BY <1>1, <1>2, SeqEqual

LEMMA NextToShape ==
  ASSUME NEW p \in Seq(Step), Len(p) > 0
  PROVE  /\ NextTo(p) \in Seq(Step) /\ Len(NextTo(p)) = Len(p)
         /\ \A j \in 1 .. Len(p) - 1 : NextTo(p)[j] = p[j]
         /\ NextTo(p)[Len(p)] = <<p[Len(p)][1], p[Len(p)][2] + 1>>
         /\ \A k \in 0 .. Len(p) - 1 : Upto(NextTo(p), k) = Upto(p, k)
<1> DEFINE n == Len(p)
           x == <<p[n][1], p[n][2] + 1>>
<1>1. n \in Nat /\ n \in 1 .. n /\ p[n] \in Step OBVIOUS
<1>2. x \in Step BY <1>1 DEF Step
<1>3. NextTo(p) = [p EXCEPT ![n] = x] BY DEF NextTo
<1> HIDE DEF x
<1>4. /\ NextTo(p) \in Seq(Step) /\ Len(NextTo(p)) = n
      /\ \A j \in 1 .. n : NextTo(p)[j] = IF j = n THEN x ELSE p[j]
  BY <1>1, <1>2, <1>3, ExceptSeq
<1>5. \A j \in 1 .. n - 1 : NextTo(p)[j] = p[j] BY <1>1, <1>4
<1>6. ASSUME NEW k \in 0 .. n - 1 PROVE Upto(NextTo(p), k) = Upto(p, k)
  <2>1. \A j \in 1 .. k : NextTo(p)[j] = p[j] BY <1>1, <1>5
  <2>2. k \in Nat /\ k <= n BY <1>1
  <2> QED BY <1>1, <1>4, <2>1, <2>2, UptoSame
<1> QED BY <1>1, <1>4, <1>5, <1>6 DEF x

LEMMA AppendShape ==
  ASSUME NEW p \in Seq(Step), NEW x \in Step
  PROVE  /\ Append(p, x) \in Seq(Step) /\ Len(Append(p, x)) = Len(p) + 1 /\ Len(p) \in Nat
         /\ \A j \in 1 .. Len(p) : Append(p, x)[j] = p[j]
         /\ Append(p, x)[Len(p) + 1] = x
         /\ \A k \in 0 .. Len(p) : Upto(Append(p, x), k) = Upto(p, k)
<1>1. /\ Append(p, x) \in Seq(Step) /\ Len(Append(p, x)) = Len(p) + 1 /\ Len(p) \in Nat
      /\ \A j \in 1 .. Len(p) : Append(p, x)[j] = p[j]
      /\ Append(p, x)[Len(p) + 1] = x
  BY AppendProperties, LenProperties
<1>2. ASSUME NEW k \in 0 .. Len(p) PROVE Upto(Append(p, x), k) = Upto(p, k)
  <2>1. k \in Nat /\ k <= Len(p) /\ k <= Len(Append(p, x)) /\ \A j \in 1 .. k : Append(p, x)[j] = p[j]
    BY <1>1
  <2> QED BY <1>1, <2>1, UptoSame
<1> QED BY <1>1, <1>2

-----------------------------------------------------------------------------
(* The layout of a parcel: where every field starts.                       *)

\* The path of the first field.
Begin == <<<<Root, 1>>>>

\* at[p] is the data position where the field at path p starts, or where the
\* parcelable ends when p is beyond its last field; w is the path that is
\* written next and v the writer's version.
PlacesInv(at, w, v) ==
  /\ at \in [DOMAIN at -> Nat] /\ w \in DOMAIN at
  /\ Begin \in DOMAIN at /\ at[Begin] = 0
  /\ \A p \in DOMAIN at : /\ p \in Seq(Step) /\ Len(p) > 0 /\ p[1][1] = Root
                          /\ Last(p)[2] <= Count(p, v) + 1

\* The parcelables around a field started with a flag and a size.
AroundInv(at, cells, v) ==
  \A p \in DOMAIN at : \A k \in 1 .. Len(p) - 1 :
    /\ Upto(p, k) \in DOMAIN at /\ IsField(Upto(p, k), v)
    /\ p[k + 1][1] = FieldAt(Upto(p, k), v)
    /\ at[Upto(p, k)] + 2 <= at[p]
    /\ cells[at[Upto(p, k)] + 1] = Flag(1) /\ cells[at[Upto(p, k)] + 2][1] = "size"

\* What was written starts before the end.
EndInv(at, cells, w, v) ==
  /\ at[w] = Len(cells)
  /\ \A p \in DOMAIN at : at[p] <= Len(cells) /\ (IsField(p, v) /\ p # w => at[p] < Len(cells))

\* The parcelables that are being written have a first field.
OpenInv(at, w, v) ==
  \A k \in 1 .. Len(w) - 1 :
    /\ First(Upto(w, k), v) \in DOMAIN at
    /\ at[First(Upto(w, k), v)] = at[Upto(w, k)] + 2

\* Nothing was written beyond w.
LatestInv(at, w) ==
  \A p \in DOMAIN at :
    Len(p) <= Len(w) /\ Upto(p, Len(p) - 1) = Upto(w, Len(p) - 1) => Last(p)[2] <= w[Len(p)][2]

ApartInv(at, w, v) ==
  \A p, q \in DOMAIN at :
    IsField(p, v) /\ IsField(q, v) /\ p # w /\ q # w /\ at[p] = at[q] => p = q

\* The field at p is complete: the next one starts where it ends, and so do,
\* when it is a parcelable, the fields in it.
Complete(at, cells, v, p) ==
  /\ NextTo(p) \in DOMAIN at
  /\ \/ /\ FieldAt(p, v) = "int" /\ cells[at[p] + 1] = IntCell(p)
        /\ at[NextTo(p)] = at[p] + 1
     \/ /\ FieldAt(p, v) # "int" /\ cells[at[p] + 1] = Flag(0)
        /\ at[NextTo(p)] = at[p] + 1
     \/ /\ FieldAt(p, v) # "int" /\ cells[at[p] + 1] = Flag(1)
        /\ cells[at[p] + 2] = SizeOf(at[NextTo(p)] - at[p] - 1)
        /\ First(p, v) \in DOMAIN at /\ at[First(p, v)] = at[p] + 2
        /\ \A c \in DOMAIN at : Len(c) = Len(p) + 1 /\ Upto(c, Len(p)) = p =>
             IF IsField(c, v) THEN at[c] < at[NextTo(p)] ELSE at[c] = at[NextTo(p)]
Within(p, w) == \E k \in 1 .. Len(w) : p = Upto(w, k)
CompleteInv(at, cells, w, v) ==
  \A p \in DOMAIN at : IsField(p, v) /\ ~Within(p, w) => Complete(at, cells, v, p)

IntsInv(at, cells, v) ==
  \A k \in 1 .. Len(cells) : cells[k][1] = "int" =>
    cells[k][2] \in DOMAIN at /\ IsField(cells[k][2], v) /\ FieldAt(cells[k][2], v) = "int"

Layout(at, cells, w, v) ==
  /\ PlacesInv(at, w, v) /\ AroundInv(at, cells, v) /\ EndInv(at, cells, w, v)
  /\ OpenInv(at, w, v) /\ LatestInv(at, w) /\ ApartInv(at, w, v)
  /\ CompleteInv(at, cells, w, v) /\ IntsInv(at, cells, v)

Place(at, p, e) == [q \in DOMAIN at \cup {p} |-> IF q = p THEN e ELSE at[q]]

LEMMA PlaceShape ==
  ASSUME NEW at, at \in [DOMAIN at -> Nat], NEW p, p \notin DOMAIN at, NEW e \in Nat
  PROVE  /\ DOMAIN Place(at, p, e) = DOMAIN at \cup {p}
         /\ Place(at, p, e) \in [DOMAIN Place(at, p, e) -> Nat]
         /\ Place(at, p, e)[p] = e
         /\ \A q \in DOMAIN at : Place(at, p, e)[q] = at[q]
  BY DEF Place

\* What is complete stays so when something is written behind it.
LEMMA CompleteStays ==
  ASSUME NEW v, NEW cells, NEW new, NEW at, NEW w, NEW p \in DOMAIN at, NEW n, NEW e \in Nat,
         at \in [DOMAIN at -> Nat], n \notin DOMAIN at,
         Complete(at, cells, v, p), ~(Len(n) = Len(p) + 1 /\ Upto(n, Len(p)) = p), p \in Seq(Step), Len(p) > 0,
         new[at[p] + 1] = cells[at[p] + 1],
         First(p, v) \in DOMAIN at /\ cells[at[p] + 1] = Flag(1) => new[at[p] + 2] = cells[at[p] + 2]
  PROVE  Complete(Place(at, n, e), new, v, p)
<1> DEFINE to == Place(at, n, e)
<1>1. /\ DOMAIN to = DOMAIN at \cup {n} /\ \A q \in DOMAIN at : to[q] = at[q]
  BY DEF Place
<1> HIDE DEF to
<1>2. NextTo(p) \in DOMAIN at BY DEF Complete
<1>3. NextTo(p) \in DOMAIN to /\ to[NextTo(p)] = at[NextTo(p)] /\ to[p] = at[p] BY <1>1, <1>2
<1>4. CASE /\ FieldAt(p, v) = "int" /\ cells[at[p] + 1] = IntCell(p)
           /\ at[NextTo(p)] = at[p] + 1
  BY <1>3, <1>4 DEF Complete, to
<1>5. CASE /\ FieldAt(p, v) # "int" /\ cells[at[p] + 1] = Flag(0)
           /\ at[NextTo(p)] = at[p] + 1
  BY <1>3, <1>5 DEF Complete, to
<1>6. CASE /\ FieldAt(p, v) # "int" /\ cells[at[p] + 1] = Flag(1)
           /\ cells[at[p] + 2] = SizeOf(at[NextTo(p)] - at[p] - 1)
           /\ First(p, v) \in DOMAIN at /\ at[First(p, v)] = at[p] + 2
           /\ \A c \in DOMAIN at : Len(c) = Len(p) + 1 /\ Upto(c, Len(p)) = p =>
                IF IsField(c, v) THEN at[c] < at[NextTo(p)] ELSE at[c] = at[NextTo(p)]
  <2>1. First(p, v) \in DOMAIN to /\ to[First(p, v)] = to[p] + 2 BY <1>1, <1>3, <1>6
  <2>2. new[to[p] + 1] = Flag(1) /\ new[to[p] + 2] = SizeOf(to[NextTo(p)] - to[p] - 1)
    BY <1>3, <1>6
  <2>3. ASSUME NEW c \in DOMAIN to, Len(c) = Len(p) + 1, Upto(c, Len(p)) = p
        PROVE  IF IsField(c, v) THEN to[c] < to[NextTo(p)] ELSE to[c] = to[NextTo(p)]
    <3>1. c # n BY <2>3
    <3>2. c \in DOMAIN at /\ to[c] = at[c] BY <1>1, <3>1
    <3> QED BY <1>3, <1>6, <2>3, <3>2
  <2>4. FieldAt(p, v) # "int" BY <1>6
  <2> QED BY <1>3, <2>1, <2>2, <2>3, <2>4 DEF Complete, to
<1> QED BY <1>4, <1>5, <1>6 DEF Complete

LEMMA LayoutShape ==
  ASSUME NEW v \in Versions, NEW cells \in Seq(Cell), NEW at, NEW w, Layout(at, cells, w, v)
  PROVE  /\ at \in [DOMAIN at -> Nat] /\ w \in DOMAIN at /\ at[w] = Len(cells)
         /\ w \in Seq(Step) /\ Len(w) \in Nat /\ Len(w) > 0 /\ w[Len(w)] \in Step
         /\ w[1][1] = Root
         /\ \A p \in DOMAIN at : /\ p \in Seq(Step) /\ Len(p) \in Nat /\ Len(p) > 0 /\ p[Len(p)] \in Step
                                 /\ at[p] \in Nat /\ at[p] <= Len(cells)
                                 /\ p[1][1] = Root /\ Last(p)[2] <= Count(p, v) + 1
                                 /\ Count(p, v) \in Nat
<1>1. /\ at \in [DOMAIN at -> Nat] /\ w \in DOMAIN at /\ at[w] = Len(cells)
      /\ \A p \in DOMAIN at : /\ p \in Seq(Step) /\ Len(p) > 0 /\ p[1][1] = Root
                              /\ Last(p)[2] <= Count(p, v) + 1 /\ at[p] <= Len(cells)
  BY DEF Layout, PlacesInv, EndInv
<1>2. ASSUME NEW p \in DOMAIN at
      PROVE  Len(p) \in Nat /\ p[Len(p)] \in Step /\ at[p] \in Nat /\ Count(p, v) \in Nat
  <2>1. p \in Seq(Step) /\ Len(p) > 0 /\ at[p] \in Nat BY <1>1
  <2>2. Len(p) \in Nat /\ p[Len(p)] \in Step BY <2>1
  <2>3. Last(p)[1] \in Type BY <2>2 DEF Last, Step
  <2> QED BY <2>1, <2>2, <2>3, FieldsAreTyped DEF Count
<1> QED BY <1>1, <1>2

\* Something is written at w, after which n is next.
LEMMA Grow ==
  ASSUME NEW v \in Versions, NEW cells \in Seq(Cell), NEW new \in Seq(Cell), NEW at, NEW w, NEW n,
         Layout(at, cells, w, v),
         Len(new) > Len(cells), \A k \in 1 .. Len(cells) : new[k] = cells[k],
         n \notin DOMAIN at, n \in Seq(Step), Len(n) > 0, Len(n) >= Len(w), n[1][1] = Root,
         \A k \in 1 .. Len(w) - 1 : Upto(n, k) = Upto(w, k),
         Last(n)[2] <= Count(n, v) + 1,
         \A k \in 1 .. Len(n) - 1 :
           /\ Upto(n, k) \in DOMAIN at /\ IsField(Upto(n, k), v)
           /\ n[k + 1][1] = FieldAt(Upto(n, k), v)
           /\ at[Upto(n, k)] + 2 <= Len(new)
           /\ new[at[Upto(n, k)] + 1] = Flag(1) /\ new[at[Upto(n, k)] + 2][1] = "size",
         Within(w, n) \/ Complete(Place(at, n, Len(new)), new, v, w),
         OpenInv(Place(at, n, Len(new)), n, v),
         LatestInv(Place(at, n, Len(new)), n),
         IntsInv(Place(at, n, Len(new)), new, v)
  PROVE  Layout(Place(at, n, Len(new)), new, n, v)
<1> DEFINE to == Place(at, n, Len(new))
<1>1. /\ DOMAIN to = DOMAIN at \cup {n} /\ to \in [DOMAIN to -> Nat] /\ to[n] = Len(new)
      /\ \A q \in DOMAIN at : to[q] = at[q]
  BY LayoutShape DEF Place
<1>2. Len(new) \in Nat /\ Len(cells) \in Nat OBVIOUS
<1> HIDE DEF to
<1>3. PlacesInv(to, n, v) BY <1>1 DEF Layout, PlacesInv
<1>4. AroundInv(to, new, v)
  <2>1. SUFFICES ASSUME NEW p \in DOMAIN to, NEW k \in 1 .. Len(p) - 1
                 PROVE  /\ Upto(p, k) \in DOMAIN to /\ IsField(Upto(p, k), v)
                        /\ p[k + 1][1] = FieldAt(Upto(p, k), v)
                        /\ to[Upto(p, k)] + 2 <= to[p]
                        /\ new[to[Upto(p, k)] + 1] = Flag(1) /\ new[to[Upto(p, k)] + 2][1] = "size"
    BY DEF AroundInv
  <2>2. CASE p = n BY <1>1, <2>1, <2>2
  <2>3. CASE p \in DOMAIN at
    <3>1. /\ Upto(p, k) \in DOMAIN at /\ IsField(Upto(p, k), v)
          /\ p[k + 1][1] = FieldAt(Upto(p, k), v)
          /\ at[Upto(p, k)] + 2 <= at[p]
          /\ cells[at[Upto(p, k)] + 1] = Flag(1) /\ cells[at[Upto(p, k)] + 2][1] = "size"
      BY <2>1, <2>3 DEF Layout, AroundInv
    <3>2. at[p] <= Len(cells) /\ at[p] \in Nat /\ at[Upto(p, k)] \in Nat
      BY <2>3, <3>1, LayoutShape
    <3>3. at[Upto(p, k)] + 1 \in 1 .. Len(cells) /\ at[Upto(p, k)] + 2 \in 1 .. Len(cells)
      <4>1. \A a, b, l \in Nat : a + 2 <= b /\ b <= l => a + 1 \in 1 .. l /\ a + 2 \in 1 .. l
        OBVIOUS
      <4> QED BY <1>2, <3>1, <3>2, <4>1
    <3>4. /\ new[at[Upto(p, k)] + 1] = cells[at[Upto(p, k)] + 1]
          /\ new[at[Upto(p, k)] + 2] = cells[at[Upto(p, k)] + 2]
      BY <3>3
    <3>5. to[Upto(p, k)] = at[Upto(p, k)] /\ to[p] = at[p] BY <1>1, <2>3, <3>1
    <3>6. Upto(p, k) \in DOMAIN to BY <1>1, <3>1
    <3> QED BY <3>1, <3>4, <3>5, <3>6
  <2> QED BY <1>1, <2>2, <2>3
<1>5. EndInv(to, new, n, v)
  <2>1. \A p \in DOMAIN at : to[p] = at[p] /\ at[p] \in Nat /\ at[p] <= Len(cells)
    BY <1>1, LayoutShape
  <2> QED BY <1>1, <1>2, <2>1 DEF EndInv
<1>6. ApartInv(to, n, v)
  <2>1. SUFFICES ASSUME NEW p \in DOMAIN at, NEW q \in DOMAIN at, IsField(p, v), IsField(q, v),
                        at[p] = at[q]
                 PROVE  p = q
    BY <1>1 DEF ApartInv
  <2>2. at[w] = Len(cells) /\ w \in DOMAIN at BY LayoutShape
  <2>3. (p # w => at[p] < Len(cells)) /\ (q # w => at[q] < Len(cells))
    BY <2>1 DEF Layout, EndInv
  <2>4. at[p] \in Nat /\ at[q] \in Nat BY LayoutShape
  <2>5. CASE p # w /\ q # w BY <2>1, <2>5 DEF Layout, ApartInv
  <2> QED BY <1>2, <2>1, <2>2, <2>3, <2>4, <2>5
<1>7. CompleteInv(to, new, n, v)
  <2>1. SUFFICES ASSUME NEW p \in DOMAIN to, IsField(p, v), ~Within(p, n)
                 PROVE  Complete(to, new, v, p)
    BY DEF CompleteInv
  <2>2. Len(n) \in Nat /\ Upto(n, Len(n)) = n BY UptoAll
  <2>3. p # n BY <2>1, <2>2 DEF Within
  <2>4. p \in DOMAIN at BY <1>1, <2>3
  <2>5. CASE p = w BY <2>1, <2>5 DEF to
  <2>6. CASE p # w
    <3>1. /\ p \in Seq(Step) /\ Len(p) \in Nat /\ Len(p) > 0 /\ at[p] \in Nat
          /\ w \in Seq(Step) /\ Len(w) \in Nat /\ Len(w) > 0
          /\ at \in [DOMAIN at -> Nat]
      BY <2>4, LayoutShape
    <3>2. ~Within(p, w)
      <4>1. SUFFICES ASSUME NEW k \in 1 .. Len(w), p = Upto(w, k) PROVE FALSE BY DEF Within
      <4>2. CASE k = Len(w) BY <2>6, <3>1, <4>1, <4>2, UptoAll
      <4>3. CASE k # Len(w)
        <5>1. k \in 1 .. Len(w) - 1 /\ k \in 1 .. Len(n) BY <2>2, <3>1, <4>3
        <5> QED BY <2>1, <4>1, <5>1 DEF Within
      <4> QED BY <4>2, <4>3
    <3>3. Complete(at, cells, v, p) BY <2>1, <2>4, <3>2 DEF Layout, CompleteInv
    <3>4. at[p] < Len(cells) BY <2>1, <2>4, <2>6 DEF Layout, EndInv
    <3>5. at[p] + 1 \in 1 .. Len(cells) BY <1>2, <3>1, <3>4
    <3>6. new[at[p] + 1] = cells[at[p] + 1] BY <3>5
    <3>7. ASSUME First(p, v) \in DOMAIN at, cells[at[p] + 1] = Flag(1)
          PROVE  new[at[p] + 2] = cells[at[p] + 2]
      <4>1. FieldAt(p, v) # "int" /\ at[First(p, v)] = at[p] + 2
        <5>1. Flag(1) # Flag(0) /\ Flag(1) # IntCell(p) BY DEF Flag, IntCell
        <5> QED BY <3>3, <3>7, <5>1 DEF Complete
      <4>2. at[First(p, v)] <= Len(cells) BY <3>7, LayoutShape
      <4>3. at[p] + 2 \in 1 .. Len(cells) BY <1>2, <3>1, <4>1, <4>2
      <4> QED BY <4>3
    <3>8. ~(Len(n) = Len(p) + 1 /\ Upto(n, Len(p)) = p)
      <4>1. SUFFICES ASSUME Len(n) = Len(p) + 1, Upto(n, Len(p)) = p PROVE FALSE OBVIOUS
      <4>2. Len(p) \in 1 .. Len(n) BY <2>2, <3>1, <4>1
      <4> QED BY <2>1, <4>1, <4>2 DEF Within
    <3> QED BY <1>2, <2>4, <3>1, <3>3, <3>6, <3>7, <3>8, CompleteStays DEF to
  <2> QED BY <2>5, <2>6
<1> QED BY <1>3, <1>4, <1>5, <1>6, <1>7 DEF Layout, to

LEMMA FieldHere ==
  ASSUME NEW v \in Versions, NEW p \in Seq(Step), Len(p) > 0, IsField(p, v), FieldAt(p, v) # "int"
  PROVE  FieldAt(p, v) \in Type /\ <<FieldAt(p, v), 1>> \in Step
<1>1. p[Len(p)] \in Step OBVIOUS
<1>2. Last(p)[1] \in Type /\ Last(p)[2] \in Nat \ {0} BY <1>1 DEF Last, Step
<1>3. Last(p)[2] <= Len(Fields[Last(p)[1]][v]) BY DEF IsField, Count
<1>4. FieldAt(p, v) \in Type BY <1>2, <1>3, NextType DEF FieldAt
<1> QED BY <1>4 DEF Step

\* An int, or a null reference, is written at w.
LEMMA LayoutAddNext ==
  ASSUME NEW v \in Versions, NEW cells \in Seq(Cell), NEW x \in Cell, NEW at, NEW w,
         Layout(at, cells, w, v), IsField(w, v),
         \/ FieldAt(w, v) = "int" /\ x = IntCell(w)
         \/ FieldAt(w, v) # "int" /\ x = Flag(0)
  PROVE  Layout(Place(at, NextTo(w), Len(cells) + 1), Append(cells, x), NextTo(w), v)
<1> DEFINE n == NextTo(w)
           new == Append(cells, x)
           to == Place(at, n, Len(new))
           h == Len(w)
<1>1. /\ at \in [DOMAIN at -> Nat] /\ w \in DOMAIN at /\ at[w] = Len(cells)
      /\ w \in Seq(Step) /\ h \in Nat /\ h > 0 /\ w[h] \in Step /\ w[1][1] = Root
  BY LayoutShape
<1>2. /\ n \in Seq(Step) /\ Len(n) = h
      /\ \A j \in 1 .. h - 1 : n[j] = w[j]
      /\ n[h] = <<w[h][1], w[h][2] + 1>>
      /\ \A k \in 0 .. h - 1 : Upto(n, k) = Upto(w, k)
  BY <1>1, NextToShape
<1> HIDE DEF n
<1>3. /\ new \in Seq(Cell) /\ Len(new) = Len(cells) + 1 /\ Len(cells) \in Nat
      /\ \A k \in 1 .. Len(cells) : new[k] = cells[k]
      /\ new[Len(cells) + 1] = x
  BY AppendProperties, LenProperties
<1> HIDE DEF new
<1>4. n[h][1] = w[h][1] /\ n[h][2] = w[h][2] + 1 /\ w[h][2] \in Nat /\ w[h][1] \in Type
  BY <1>1, <1>2 DEF Step
<1>5. n \notin DOMAIN at
  <2>1. SUFFICES ASSUME n \in DOMAIN at PROVE FALSE OBVIOUS
  <2>2. Upto(n, h - 1) = Upto(w, h - 1) BY <1>1, <1>2
  <2>3. Last(n)[2] <= w[h][2] BY <1>1, <1>2, <2>1, <2>2 DEF Layout, LatestInv
  <2> QED BY <1>2, <1>4, <2>3 DEF Last
<1>6. /\ DOMAIN to = DOMAIN at \cup {n} /\ to[n] = Len(new)
      /\ \A q \in DOMAIN at : to[q] = at[q]
  BY <1>5 DEF Place
<1>7. n[1][1] = Root
  <2>1. CASE h = 1 BY <1>1, <1>4, <2>1
  <2>2. CASE h # 1
    <3>1. 1 \in 1 .. h - 1
      <4>1. \A i \in Nat : i > 0 /\ i # 1 => 1 \in 1 .. i - 1 OBVIOUS
      <4> HIDE DEF h
      <4> QED BY <1>1, <2>2, <4>1
    <3>2. n[1] = w[1] BY <1>2, <3>1
    <3> QED BY <1>1, <3>2
  <2> QED BY <2>1, <2>2
<1>8. Last(n)[2] <= Count(n, v) + 1
  <2>1. Count(n, v) = Count(w, v) BY <1>2, <1>4 DEF Count, Last
  <2>2. w[h][2] <= Count(w, v) BY DEF IsField, Last
  <2>3. Count(w, v) \in Nat BY <1>1, LayoutShape
  <2> QED BY <1>2, <1>4, <2>1, <2>2, <2>3 DEF Last
<1>9. ASSUME NEW k \in 1 .. Len(n) - 1
      PROVE  /\ Upto(n, k) \in DOMAIN at /\ IsField(Upto(n, k), v)
             /\ n[k + 1][1] = FieldAt(Upto(n, k), v)
             /\ at[Upto(n, k)] + 2 <= Len(new)
             /\ new[at[Upto(n, k)] + 1] = Flag(1) /\ new[at[Upto(n, k)] + 2][1] = "size"
  <2> DEFINE q == Upto(w, k)
  <2>1. k \in 1 .. h - 1 BY <1>2
  <2>2. Upto(n, k) = q BY <1>2, <2>1
  <2>3. /\ q \in DOMAIN at /\ IsField(q, v)
        /\ w[k + 1][1] = FieldAt(q, v)
        /\ at[q] + 2 <= at[w]
        /\ cells[at[q] + 1] = Flag(1) /\ cells[at[q] + 2][1] = "size"
    BY <1>1, <2>1 DEF Layout, AroundInv
  <2>4. n[k + 1][1] = w[k + 1][1]
    <3>1. CASE k + 1 = h BY <1>4, <3>1
    <3>2. CASE k + 1 # h
      <4>1. k + 1 \in 1 .. h - 1 BY <1>1, <2>1, <3>2
      <4> QED BY <1>2, <4>1
    <3> QED BY <3>1, <3>2
  <2> HIDE DEF q
  <2>5. at[q] \in Nat BY <1>1, <2>3
  <2>6. at[q] + 1 \in 1 .. Len(cells) /\ at[q] + 2 \in 1 .. Len(cells)
    BY <1>1, <1>3, <2>3, <2>5
  <2>7. at[q] + 2 <= Len(new) BY <1>1, <1>3, <2>3, <2>5
  <2> QED BY <1>3, <2>2, <2>3, <2>4, <2>6, <2>7
<1>10. Complete(to, new, v, w)
  <2>1. NextTo(w) \in DOMAIN to /\ to[NextTo(w)] = to[w] + 1 BY <1>1, <1>3, <1>6 DEF n
  <2>2. new[to[w] + 1] = x BY <1>1, <1>3, <1>6
  <2> QED BY <2>1, <2>2 DEF Complete
<1>11. OpenInv(to, n, v)
  <2>1. SUFFICES ASSUME NEW k \in 1 .. h - 1
                 PROVE  /\ First(Upto(w, k), v) \in DOMAIN to
                        /\ to[First(Upto(w, k), v)] = to[Upto(w, k)] + 2
    BY <1>2 DEF OpenInv
  <2>2. /\ First(Upto(w, k), v) \in DOMAIN at
        /\ at[First(Upto(w, k), v)] = at[Upto(w, k)] + 2
    BY DEF Layout, OpenInv
  <2>3. Upto(w, k) \in DOMAIN at BY <1>1 DEF Layout, AroundInv
  <2> QED BY <1>6, <2>2, <2>3
<1>12. LatestInv(to, n)
  <2>1. SUFFICES ASSUME NEW p \in DOMAIN at, Len(p) <= h, Upto(p, Len(p) - 1) = Upto(n, Len(p) - 1)
                 PROVE  Last(p)[2] <= n[Len(p)][2]
    <3>1. n[Len(n)][2] \in Nat BY <1>2, <1>4
    <3> QED BY <1>2, <1>6, <3>1 DEF LatestInv, Last
  <2>2. Len(p) \in Nat /\ Len(p) > 0 /\ p[Len(p)] \in Step BY LayoutShape
  <2>3. Len(p) - 1 \in 0 .. h - 1 BY <1>1, <2>1, <2>2
  <2>4. Upto(n, Len(p) - 1) = Upto(w, Len(p) - 1) BY <1>2, <2>3
  <2>5. Last(p)[2] <= w[Len(p)][2] BY <1>1, <2>1, <2>4 DEF Layout, LatestInv
  <2>6. CASE Len(p) = h
    <3>1. Last(p)[2] \in Nat BY <2>2 DEF Last, Step
    <3> QED BY <1>4, <2>5, <2>6, <3>1
  <2>7. CASE Len(p) # h
    <3>1. Len(p) \in 1 .. h - 1 BY <2>3, <2>2, <2>7, <1>1
    <3> QED BY <1>2, <2>5, <3>1
  <2> QED BY <2>6, <2>7
<1>13. IntsInv(to, new, v)
  <2>1. SUFFICES ASSUME NEW k \in 1 .. Len(new), new[k][1] = "int"
                 PROVE  /\ new[k][2] \in DOMAIN at /\ IsField(new[k][2], v)
                        /\ FieldAt(new[k][2], v) = "int"
    BY <1>6 DEF IntsInv
  <2>2. CASE k = Len(cells) + 1
    <3>1. x # Flag(0) BY <1>3, <2>1, <2>2 DEF Flag
    <3>2. new[k][2] = w /\ FieldAt(w, v) = "int" BY <1>3, <2>2, <3>1 DEF IntCell
    <3> QED BY <1>1, <3>2
  <2>3. CASE k # Len(cells) + 1
    <3>1. k \in 1 .. Len(cells) /\ new[k] = cells[k] BY <1>3, <2>3
    <3> QED BY <2>1, <3>1 DEF Layout, IntsInv
  <2> QED BY <2>2, <2>3
<1>14. \A k \in 1 .. h - 1 : Upto(n, k) = Upto(w, k) BY <1>2
<1>15. Len(new) > Len(cells) /\ Len(n) > 0 /\ Len(n) >= h BY <1>1, <1>2, <1>3
<1>16. Layout(Place(at, n, Len(new)), new, n, v)
  BY <1>2, <1>3, <1>5, <1>7, <1>8, <1>9, <1>10, <1>11, <1>12, <1>13, <1>14, <1>15, Grow
<1> QED BY <1>3, <1>16 DEF n, new

\* A parcelable is begun at w.
LEMMA LayoutAddFirst ==
  ASSUME NEW v \in Versions, NEW cells \in Seq(Cell), NEW new \in Seq(Cell), NEW at, NEW w,
         Layout(at, cells, w, v), IsField(w, v), FieldAt(w, v) # "int",
         Len(new) = Len(cells) + 2, \A k \in 1 .. Len(cells) : new[k] = cells[k],
         new[Len(cells) + 1] = Flag(1), new[Len(cells) + 2] = SizeOf(0)
  PROVE  Layout(Place(at, First(w, v), Len(cells) + 2), new, First(w, v), v)
<1> DEFINE x == <<FieldAt(w, v), 1>>
           n == First(w, v)
           to == Place(at, n, Len(new))
           h == Len(w)
<1>1. /\ at \in [DOMAIN at -> Nat] /\ w \in DOMAIN at /\ at[w] = Len(cells)
      /\ w \in Seq(Step) /\ h \in Nat /\ h > 0 /\ w[h] \in Step /\ w[1][1] = Root
      /\ Len(cells) \in Nat /\ Len(new) \in Nat
  BY LayoutShape
<1>2. FieldAt(w, v) \in Type /\ x \in Step BY <1>1, FieldHere
<1>3. /\ n \in Seq(Step) /\ Len(n) = h + 1
      /\ \A j \in 1 .. h : n[j] = w[j]
      /\ n[h + 1] = x
      /\ \A k \in 0 .. h : Upto(n, k) = Upto(w, k)
  BY <1>1, <1>2, AppendShape DEF First
<1> HIDE DEF n
<1>4. Upto(w, h) = w /\ Upto(n, h) = w BY <1>1, <1>3, UptoAll
<1>5. n \notin DOMAIN at
  <2>1. SUFFICES ASSUME n \in DOMAIN at PROVE FALSE OBVIOUS
  <2>2. h \in 1 .. Len(n) - 1 BY <1>1, <1>3
  <2>3. at[w] + 2 <= at[n] BY <1>4, <2>1, <2>2 DEF Layout, AroundInv
  <2>4. at[n] \in Nat /\ at[n] <= Len(cells) BY <2>1, LayoutShape
  <2> QED BY <1>1, <2>3, <2>4
<1>6. /\ DOMAIN to = DOMAIN at \cup {n} /\ to[n] = Len(new)
      /\ \A q \in DOMAIN at : to[q] = at[q]
  BY <1>5 DEF Place
<1>7. n[1][1] = Root
  <2>1. 1 \in 1 .. h BY <1>1
  <2> QED BY <1>1, <1>3, <2>1
<1>8. Last(n)[2] <= Count(n, v) + 1
  <2>1. Last(n) = x BY <1>1, <1>3 DEF Last
  <2>2. Len(Fields[FieldAt(w, v)][v]) \in Nat BY <1>2, FieldsAreTyped
  <2> QED BY <2>1, <2>2 DEF Count
<1>9. ASSUME NEW k \in 1 .. Len(n) - 1
      PROVE  /\ Upto(n, k) \in DOMAIN at /\ IsField(Upto(n, k), v)
             /\ n[k + 1][1] = FieldAt(Upto(n, k), v)
             /\ at[Upto(n, k)] + 2 <= Len(new)
             /\ new[at[Upto(n, k)] + 1] = Flag(1) /\ new[at[Upto(n, k)] + 2][1] = "size"
  <2>1. CASE k = h
    <3>1. new[at[w] + 1] = Flag(1) /\ new[at[w] + 2][1] = "size" BY <1>1 DEF SizeOf
    <3>2. at[w] + 2 <= Len(new) BY <1>1
    <3>3. n[k + 1][1] = FieldAt(w, v) BY <1>3, <2>1
    <3> QED BY <1>1, <1>4, <2>1, <3>1, <3>2, <3>3
  <2>2. CASE k # h
    <3> DEFINE q == Upto(w, k)
    <3>1. k \in 1 .. h - 1 BY <1>1, <1>3, <2>2
    <3>2. Upto(n, k) = q BY <1>3, <3>1
    <3>3. /\ q \in DOMAIN at /\ IsField(q, v)
          /\ w[k + 1][1] = FieldAt(q, v)
          /\ at[q] + 2 <= at[w]
          /\ cells[at[q] + 1] = Flag(1) /\ cells[at[q] + 2][1] = "size"
      BY <1>1, <3>1 DEF Layout, AroundInv
    <3>4. n[k + 1] = w[k + 1]
      <4>1. k + 1 \in 1 .. h BY <1>1, <3>1
      <4> QED BY <1>3, <4>1
    <3> HIDE DEF q
    <3>5. at[q] \in Nat BY <1>1, <3>3
    <3>6. at[q] + 1 \in 1 .. Len(cells) /\ at[q] + 2 \in 1 .. Len(cells)
      BY <1>1, <3>3, <3>5
    <3>7. at[q] + 2 <= Len(new) BY <1>1, <3>3, <3>5
    <3> QED BY <3>2, <3>3, <3>4, <3>6, <3>7
  <2> QED BY <2>1, <2>2
<1>10. Within(w, n)
  <2>1. h \in 1 .. Len(n) BY <1>1, <1>3
  <2> QED BY <1>4, <2>1 DEF Within
<1>11. OpenInv(to, n, v)
  <2>1. SUFFICES ASSUME NEW k \in 1 .. h
                 PROVE  /\ First(Upto(w, k), v) \in DOMAIN to
                        /\ to[First(Upto(w, k), v)] = to[Upto(w, k)] + 2
    <3>1. \A k \in 1 .. Len(n) - 1 : k \in 1 .. h /\ Upto(n, k) = Upto(w, k) BY <1>1, <1>3
    <3> QED BY <3>1 DEF OpenInv
  <2>2. CASE k = h
    <3>1. First(w, v) \in DOMAIN to /\ to[First(w, v)] = to[w] + 2 BY <1>1, <1>6 DEF n
    <3> QED BY <1>4, <2>2, <3>1
  <2>3. CASE k # h
    <3>1. k \in 1 .. h - 1 BY <1>1, <2>3
    <3>2. /\ First(Upto(w, k), v) \in DOMAIN at
          /\ at[First(Upto(w, k), v)] = at[Upto(w, k)] + 2
      BY <3>1 DEF Layout, OpenInv
    <3>3. Upto(w, k) \in DOMAIN at BY <1>1, <3>1 DEF Layout, AroundInv
    <3> QED BY <1>6, <3>2, <3>3
  <2> QED BY <2>2, <2>3
<1>12. LatestInv(to, n)
  <2>1. SUFFICES ASSUME NEW p \in DOMAIN at, Len(p) <= h + 1, Upto(p, Len(p) - 1) = Upto(n, Len(p) - 1)
                 PROVE  Last(p)[2] <= n[Len(p)][2]
    <3>1. n[Len(n)][2] \in Nat BY <1>3
    <3> QED BY <1>3, <1>6, <3>1 DEF LatestInv, Last
  <2>2. Len(p) \in Nat /\ Len(p) > 0 BY LayoutShape
  <2>3. CASE Len(p) = h + 1
    <3>1. h \in 1 .. Len(p) - 1 /\ Len(p) - 1 = h BY <1>1, <2>3
    <3>2. Upto(p, h) = w BY <1>4, <2>1, <3>1
    <3>3. at[w] + 2 <= at[p] BY <3>1, <3>2 DEF Layout, AroundInv
    <3>4. at[p] \in Nat /\ at[p] <= Len(cells) BY LayoutShape
    <3> QED BY <1>1, <3>3, <3>4
  <2>4. CASE Len(p) # h + 1
    <3>1. Len(p) \in 1 .. h /\ Len(p) - 1 \in 0 .. h /\ Len(p) <= h BY <1>1, <2>1, <2>2, <2>4
    <3>2. Upto(n, Len(p) - 1) = Upto(w, Len(p) - 1) BY <1>3, <3>1
    <3>3. Last(p)[2] <= w[Len(p)][2] BY <2>1, <3>1, <3>2 DEF Layout, LatestInv
    <3> QED BY <1>3, <3>1, <3>3
  <2> QED BY <2>3, <2>4
<1>13. IntsInv(to, new, v)
  <2>1. SUFFICES ASSUME NEW k \in 1 .. Len(new), new[k][1] = "int"
                 PROVE  /\ new[k][2] \in DOMAIN at /\ IsField(new[k][2], v)
                        /\ FieldAt(new[k][2], v) = "int"
    BY <1>6 DEF IntsInv
  <2>2. k # Len(cells) + 1 /\ k # Len(cells) + 2 BY <2>1 DEF Flag, SizeOf
  <2>3. k \in 1 .. Len(cells)
    <3>1. \A l \in Nat : \A i \in 1 .. l + 2 : i # l + 1 /\ i # l + 2 => i \in 1 .. l OBVIOUS
    <3>2. k \in 1 .. Len(cells) + 2 OBVIOUS
    <3> QED BY <1>1, <2>2, <3>1, <3>2
  <2>4. new[k] = cells[k] BY <2>3
  <2> QED BY <2>1, <2>3, <2>4 DEF Layout, IntsInv
<1>14. \A k \in 1 .. h - 1 : Upto(n, k) = Upto(w, k)
  <2>1. \A k \in 1 .. h - 1 : k \in 0 .. h BY <1>1
  <2> QED BY <1>3, <2>1
<1>15. Len(new) > Len(cells) /\ Len(n) > 0 /\ Len(n) >= h BY <1>1, <1>3
<1>16. Layout(Place(at, n, Len(new)), new, n, v)
  BY <1>3, <1>5, <1>7, <1>8, <1>9, <1>10, <1>11, <1>12, <1>13, <1>14, <1>15, Grow
<1> QED BY <1>16 DEF n

\* The parcelable that has w for its end is complete, and its size known.
LEMMA LayoutClose ==
  ASSUME NEW v \in Versions, NEW cells \in Seq(Cell), NEW new \in Seq(Cell), NEW at, NEW w, NEW q,
         Layout(at, cells, w, v), ~IsField(w, v), Len(w) > 1, q = Upto(w, Len(w) - 1),
         Len(new) = Len(cells),
         \A k \in 1 .. Len(cells) :
           new[k] = IF k = at[q] + 2 THEN SizeOf(Len(cells) - at[q] - 1) ELSE cells[k]
  PROVE  Layout(Place(at, NextTo(q), Len(cells)), new, NextTo(q), v)
<1> DEFINE n == NextTo(q)
           to == Place(at, n, Len(cells))
           h == Len(w) - 1
           g == at[q]
           l == Len(cells)
<1>1. /\ at \in [DOMAIN at -> Nat] /\ w \in DOMAIN at /\ at[w] = l
      /\ w \in Seq(Step) /\ w[Len(w)] \in Step /\ w[1][1] = Root
      /\ l \in Nat /\ h \in Nat /\ h > 0 /\ Len(w) = h + 1 /\ h \in 1 .. Len(w) - 1
  <2>1. /\ at \in [DOMAIN at -> Nat] /\ w \in DOMAIN at /\ at[w] = l
        /\ w \in Seq(Step) /\ Len(w) \in Nat /\ w[Len(w)] \in Step /\ w[1][1] = Root
    BY LayoutShape
  <2> QED BY <2>1
<1>2. /\ q \in DOMAIN at /\ IsField(q, v)
      /\ w[h + 1][1] = FieldAt(q, v)
      /\ g + 2 <= l
      /\ cells[g + 1] = Flag(1) /\ cells[g + 2][1] = "size"
  BY <1>1 DEF Layout, AroundInv
<1>3. /\ q \in Seq(Step) /\ Len(q) = h /\ q[h] \in Step /\ g \in Nat
      /\ \A j \in 1 .. h : q[j] = w[j]
      /\ \A j \in 0 .. h : Upto(q, j) = Upto(w, j)
  <2>0. h <= Len(w) /\ q = Upto(w, h) BY <1>1
  <2> HIDE DEF h
  <2>1. q \in Seq(Step) /\ Len(q) = h /\ \A j \in 1 .. h : q[j] = w[j]
    BY <1>1, <2>0, UptoShape
  <2>2. \A j \in 0 .. h : Upto(q, j) = Upto(w, j) BY <1>1, <2>0, UptoUpto
  <2>3. h \in 1 .. Len(q) BY <1>1, <2>1
  <2> QED BY <1>1, <1>2, <2>1, <2>2, <2>3
<1>4. /\ n \in Seq(Step) /\ Len(n) = h
      /\ \A j \in 1 .. h - 1 : n[j] = q[j]
      /\ n[h] = <<q[h][1], q[h][2] + 1>>
      /\ \A k \in 0 .. h - 1 : Upto(n, k) = Upto(q, k)
  <2> HIDE DEF h
  <2> QED BY <1>1, <1>3, NextToShape
<1> HIDE DEF n
<1>5. n[h][1] = w[h][1] /\ n[h][2] = w[h][2] + 1 /\ w[h][2] \in Nat /\ w[h][1] \in Type
  <2>1. h \in 1 .. h BY <1>1
  <2>2. q[h] = w[h] BY <1>3, <2>1
  <2> QED BY <1>3, <1>4, <2>2 DEF Step
<1>6. \A k \in 0 .. h - 1 : Upto(n, k) = Upto(w, k)
  BY <1>1, <1>3, <1>4
<1>7. n \notin DOMAIN at
  <2>1. SUFFICES ASSUME n \in DOMAIN at PROVE FALSE OBVIOUS
  <2>2. Upto(n, h - 1) = Upto(w, h - 1) BY <1>1, <1>6
  <2>3. Len(n) <= Len(w) BY <1>1, <1>4
  <2>4. Last(n)[2] <= w[h][2] BY <1>4, <2>1, <2>2, <2>3 DEF Layout, LatestInv
  <2> QED BY <1>4, <1>5, <2>4 DEF Last
<1>8. /\ DOMAIN to = DOMAIN at \cup {n} /\ to \in [DOMAIN to -> Nat] /\ to[n] = l
      /\ \A p \in DOMAIN at : to[p] = at[p]
  BY <1>1, <1>7 DEF Place
<1>9. /\ g + 1 \in 1 .. l /\ g + 2 \in 1 .. l
      /\ new[g + 1] = Flag(1) /\ new[g + 2] = SizeOf(l - g - 1)
      /\ \A k \in 1 .. l : cells[k][1] # "size" => new[k] = cells[k]
      /\ \A k \in 1 .. l : k # g + 2 => new[k] = cells[k]
      /\ \A k \in 1 .. l : cells[k][1] = "size" => new[k][1] = "size"
  <2>1. g + 1 \in 1 .. l /\ g + 2 \in 1 .. l BY <1>1, <1>2, <1>3
  <2>2. g + 1 # g + 2 BY <1>3
  <2>3. \A k \in 1 .. l : new[k] = IF k = g + 2 THEN SizeOf(l - g - 1) ELSE cells[k] OBVIOUS
  <2> HIDE DEF g, l
  <2>4. new[g + 1] = Flag(1) /\ new[g + 2] = SizeOf(l - g - 1) BY <1>2, <2>1, <2>2, <2>3
  <2>5. \A k \in 1 .. l : cells[k][1] # "size" => new[k] = cells[k] BY <1>2, <2>3
  <2>6. SizeOf(l - g - 1)[1] = "size" BY DEF SizeOf
  <2> QED BY <2>1, <2>3, <2>4, <2>5, <2>6
<1>10. PlacesInv(to, n, v)
  <2>1. n[1][1] = Root
    <3>1. CASE h = 1 BY <1>1, <1>5, <3>1
    <3>2. CASE h # 1
      <4>1. \A i \in Nat : i > 0 /\ i # 1 => 1 \in 1 .. i - 1 /\ 1 \in 1 .. i OBVIOUS
      <4>2. 1 \in 1 .. h - 1 /\ 1 \in 1 .. h
        <5> HIDE DEF h
        <5> QED BY <1>1, <3>2, <4>1
      <4>3. n[1] = q[1] /\ q[1] = w[1] BY <1>3, <1>4, <4>2
      <4> QED BY <1>1, <4>3
    <3> QED BY <3>1, <3>2
  <2>2. Last(n)[2] <= Count(n, v) + 1
    <3>1. Count(n, v) = Count(q, v) BY <1>3, <1>4 DEF Count, Last
    <3>2. q[h][2] <= Count(q, v) BY <1>2, <1>3 DEF IsField, Last
    <3>3. Count(q, v) \in Nat BY <1>2, LayoutShape
    <3>4. q[h][2] \in Nat BY <1>3 DEF Step
    <3> QED BY <1>4, <3>1, <3>2, <3>3, <3>4 DEF Last
  <2>3. Len(n) > 0 BY <1>1, <1>4
  <2> QED BY <1>4, <1>8, <2>1, <2>2, <2>3 DEF Layout, PlacesInv
<1>11. AroundInv(to, new, v)
  <2>1. ASSUME NEW p \in DOMAIN at, NEW k \in 1 .. Len(p) - 1
        PROVE  /\ Upto(p, k) \in DOMAIN at /\ IsField(Upto(p, k), v)
               /\ p[k + 1][1] = FieldAt(Upto(p, k), v)
               /\ at[Upto(p, k)] + 2 <= at[p]
               /\ new[at[Upto(p, k)] + 1] = Flag(1) /\ new[at[Upto(p, k)] + 2][1] = "size"
    <3> DEFINE u == Upto(p, k)
    <3>1. /\ u \in DOMAIN at /\ IsField(u, v)
          /\ p[k + 1][1] = FieldAt(u, v)
          /\ at[u] + 2 <= at[p]
          /\ cells[at[u] + 1] = Flag(1) /\ cells[at[u] + 2][1] = "size"
      BY DEF Layout, AroundInv
    <3> HIDE DEF u
    <3>2. at[p] <= l /\ at[p] \in Nat /\ at[u] \in Nat BY <3>1, LayoutShape
    <3>3. at[u] + 1 \in 1 .. l /\ at[u] + 2 \in 1 .. l
      <4>1. \A a, b, c \in Nat : a + 2 <= b /\ b <= c => a + 1 \in 1 .. c /\ a + 2 \in 1 .. c
        OBVIOUS
      <4> QED BY <1>1, <3>1, <3>2, <4>1
    <3>4. Flag(1)[1] # "size" BY DEF Flag
    <3>5. new[at[u] + 1] = Flag(1) BY <1>9, <3>1, <3>3, <3>4
    <3>6. new[at[u] + 2][1] = "size" BY <1>9, <3>1, <3>3
    <3> QED BY <3>1, <3>5, <3>6 DEF u
  <2>2. ASSUME NEW p \in DOMAIN to, NEW k \in 1 .. Len(p) - 1
        PROVE  /\ Upto(p, k) \in DOMAIN to /\ IsField(Upto(p, k), v)
               /\ p[k + 1][1] = FieldAt(Upto(p, k), v)
               /\ to[Upto(p, k)] + 2 <= to[p]
               /\ new[to[Upto(p, k)] + 1] = Flag(1) /\ new[to[Upto(p, k)] + 2][1] = "size"
    <3>1. CASE p \in DOMAIN at
      <4>1. Upto(p, k) \in DOMAIN at BY <2>1, <3>1
      <4>2. to[Upto(p, k)] = at[Upto(p, k)] /\ to[p] = at[p] /\ Upto(p, k) \in DOMAIN to
        BY <1>8, <3>1, <4>1
      <4> QED BY <2>1, <3>1, <4>2
    <3>2. CASE p = n
      <4> DEFINE u == Upto(w, k)
      <4>1. k \in 1 .. h - 1 /\ k \in 0 .. h - 1 /\ k \in 1 .. Len(w) - 1 /\ k \in 1 .. Len(q) - 1
        BY <1>1, <1>3, <1>4, <2>2, <3>2
      <4>2. Upto(n, k) = u BY <1>6, <4>1
      <4>3. /\ u \in DOMAIN at /\ IsField(u, v) /\ w[k + 1][1] = FieldAt(u, v)
            /\ new[at[u] + 1] = Flag(1) /\ new[at[u] + 2][1] = "size"
            /\ at[u] + 2 <= at[w]
        BY <1>1, <2>1, <4>1
      <4>4. n[k + 1][1] = w[k + 1][1]
        <5>1. CASE k + 1 = h BY <1>5, <5>1
        <5>2. CASE k + 1 # h
          <6>1. k + 1 \in 1 .. h - 1 /\ k + 1 \in 1 .. h BY <1>1, <4>1, <5>2
          <6> QED BY <1>3, <1>4, <6>1
        <5> QED BY <5>1, <5>2
      <4>5. to[u] = at[u] /\ u \in DOMAIN to /\ to[n] = at[w] BY <1>1, <1>8, <4>3
      <4> HIDE DEF u
      <4> QED BY <3>2, <4>2, <4>3, <4>4, <4>5
    <3> QED BY <1>8, <3>1, <3>2
  <2> QED BY <2>2 DEF AroundInv
<1>12. EndInv(to, new, n, v)
  <2>1. ASSUME NEW p \in DOMAIN at
        PROVE  at[p] <= l /\ (IsField(p, v) => at[p] < l)
    <3>1. IsField(p, v) => p # w OBVIOUS
    <3> QED BY <3>1 DEF Layout, EndInv
  <2>2. l <= l BY <1>1
  <2> QED BY <1>8, <2>1, <2>2 DEF EndInv
<1>13. OpenInv(to, n, v)
  <2>1. SUFFICES ASSUME NEW k \in 1 .. h - 1
                 PROVE  /\ First(Upto(w, k), v) \in DOMAIN to
                        /\ to[First(Upto(w, k), v)] = to[Upto(w, k)] + 2
    <3>1. \A k \in 1 .. Len(n) - 1 : k \in 1 .. h - 1 /\ Upto(n, k) = Upto(w, k)
      BY <1>1, <1>4, <1>6
    <3> QED BY <3>1 DEF OpenInv
  <2>2. k \in 1 .. Len(w) - 1 BY <1>1
  <2>3. /\ First(Upto(w, k), v) \in DOMAIN at
        /\ at[First(Upto(w, k), v)] = at[Upto(w, k)] + 2
    BY <2>2 DEF Layout, OpenInv
  <2>4. Upto(w, k) \in DOMAIN at BY <1>1, <2>2 DEF Layout, AroundInv
  <2> QED BY <1>8, <2>3, <2>4
<1>14. LatestInv(to, n)
  <2>1. SUFFICES ASSUME NEW p \in DOMAIN at, Len(p) <= h, Upto(p, Len(p) - 1) = Upto(n, Len(p) - 1)
                 PROVE  Last(p)[2] <= n[Len(p)][2]
    <3>1. n[Len(n)][2] \in Nat BY <1>4, <1>5
    <3> QED BY <1>4, <1>8, <3>1 DEF LatestInv, Last
  <2>2. Len(p) \in Nat /\ Len(p) > 0 /\ p[Len(p)] \in Step BY LayoutShape
  <2>3. Len(p) - 1 \in 0 .. h - 1 /\ Len(p) <= Len(w) BY <1>1, <2>1, <2>2
  <2>4. Upto(n, Len(p) - 1) = Upto(w, Len(p) - 1) BY <1>6, <2>3
  <2>5. Last(p)[2] <= w[Len(p)][2] BY <2>1, <2>3, <2>4 DEF Layout, LatestInv
  <2>6. CASE Len(p) = h
    <3>1. Last(p)[2] \in Nat BY <2>2 DEF Last, Step
    <3> QED BY <1>5, <2>5, <2>6, <3>1
  <2>7. CASE Len(p) # h
    <3>1. Len(p) \in 1 .. h - 1 /\ Len(p) \in 1 .. h
      <4>1. \A i, j \in Nat : i > 0 /\ i <= j /\ i # j => i \in 1 .. j - 1 /\ i \in 1 .. j OBVIOUS
      <4> HIDE DEF h
      <4> QED BY <1>1, <2>1, <2>2, <2>7, <4>1
    <3>2. n[Len(p)] = w[Len(p)] BY <1>3, <1>4, <3>1
    <3> QED BY <2>5, <3>2
  <2> QED BY <2>6, <2>7
<1>15. ApartInv(to, n, v)
  <2>1. SUFFICES ASSUME NEW p \in DOMAIN at, NEW s \in DOMAIN at, IsField(p, v), IsField(s, v),
                        at[p] = at[s]
                 PROVE  p = s
    BY <1>8 DEF ApartInv
  <2>2. p # w /\ s # w BY <2>1
  <2> QED BY <2>1, <2>2 DEF Layout, ApartInv
<1>16. Complete(to, new, v, q)
  <2>1. NextTo(q) \in DOMAIN to /\ to[NextTo(q)] = l /\ to[q] = g BY <1>2, <1>8 DEF n
  <2>2. FieldAt(q, v) # "int"
    <3>1. w[h + 1][1] \in Type BY <1>1 DEF Step
    <3> QED BY <1>2, <3>1, ParcelableAssumption
  <2>3. /\ First(q, v) \in DOMAIN at /\ at[First(q, v)] = g + 2
    BY <1>1 DEF Layout, OpenInv
  <2>4. First(q, v) \in DOMAIN to /\ to[First(q, v)] = to[q] + 2 BY <1>8, <2>1, <2>3
  <2>5. ASSUME NEW c \in DOMAIN to, Len(c) = Len(q) + 1, Upto(c, Len(q)) = q
        PROVE  IF IsField(c, v) THEN to[c] < to[NextTo(q)] ELSE to[c] = to[NextTo(q)]
    <3>1. c # n BY <1>1, <1>3, <1>4, <2>5
    <3>2. c \in DOMAIN at /\ to[c] = at[c] BY <1>8, <3>1
    <3>3. CASE IsField(c, v)
      <4>1. c # w BY <3>3
      <4>2. at[c] < l BY <3>2, <3>3, <4>1 DEF Layout, EndInv
      <4> QED BY <2>1, <3>2, <3>3, <4>2
    <3>4. CASE ~IsField(c, v)
      <4>1. /\ c \in Seq(Step) /\ Len(c) = h + 1 /\ c[h + 1] \in Step
            /\ Last(c)[2] <= Count(c, v) + 1 /\ Last(w)[2] <= Count(w, v) + 1
            /\ Count(c, v) \in Nat /\ Count(w, v) \in Nat
        BY <1>1, <1>3, <2>5, <3>2, LayoutShape
      <4>2. h \in 1 .. Len(c) - 1 BY <1>1, <4>1
      <4>3. c[h + 1][1] = FieldAt(q, v) BY <1>3, <2>5, <3>2, <4>2 DEF Layout, AroundInv
      <4>4. c[h + 1][1] = w[h + 1][1] BY <1>2, <4>3
      <4>5. Count(c, v) = Count(w, v) BY <1>1, <4>1, <4>4 DEF Count, Last
      <4>6. c[h + 1][2] \in Nat /\ w[h + 1][2] \in Nat BY <1>1, <4>1 DEF Step
      <4>7. c[h + 1][2] = w[h + 1][2]
        <5>1. ~(c[h + 1][2] <= Count(c, v)) /\ ~(w[h + 1][2] <= Count(w, v))
          BY <1>1, <3>4, <4>1 DEF IsField, Last
        <5>2. c[h + 1][2] <= Count(c, v) + 1 /\ w[h + 1][2] <= Count(w, v) + 1
          BY <1>1, <4>1 DEF Last
        <5> QED BY <4>1, <4>5, <4>6, <5>1, <5>2
      <4>8. c[h + 1] = w[h + 1]
        <5>1. \A a, b \in Step : a[1] = b[1] /\ a[2] = b[2] => a = b BY DEF Step
        <5>2. w[h + 1] \in Step BY <1>1
        <5> QED BY <4>1, <4>4, <4>7, <5>1, <5>2
      <4>9. Upto(c, h) = Upto(w, h) BY <1>1, <1>3, <2>5
      <4>10. c = w
        <5>1. (h + 1) - 1 = h /\ h + 1 > 0 /\ h + 1 \in Nat BY <1>1
        <5> QED BY <1>1, <4>1, <4>8, <4>9, <5>1, PathEqual
      <4> QED BY <1>1, <2>1, <3>2, <3>4, <4>10
    <3> QED BY <3>3, <3>4
  <2>6. new[to[q] + 1] = Flag(1) /\ new[to[q] + 2] = SizeOf(to[NextTo(q)] - to[q] - 1)
    BY <1>9, <2>1
  <2> HIDE DEF to
  <2> QED BY <2>1, <2>2, <2>4, <2>5, <2>6 DEF Complete
<1>17. CompleteInv(to, new, n, v)
  <2>1. SUFFICES ASSUME NEW p \in DOMAIN to, IsField(p, v), ~Within(p, n)
                 PROVE  Complete(to, new, v, p)
    BY DEF CompleteInv
  <2>2. Upto(n, h) = n BY <1>4, UptoAll
  <2>3. p # n
    <3>1. h \in 1 .. Len(n) BY <1>1, <1>4
    <3> QED BY <2>1, <2>2, <3>1 DEF Within
  <2>4. p \in DOMAIN at BY <1>8, <2>3
  <2>5. CASE p = q BY <1>16, <2>5
  <2>6. CASE p # q
    <3>1. p # w BY <2>1
    <3>2. p \in Seq(Step) /\ Len(p) \in Nat /\ Len(p) > 0 /\ at[p] \in Nat BY <2>4, LayoutShape
    <3>3. ~Within(p, w)
      <4>1. SUFFICES ASSUME NEW k \in 1 .. Len(w), p = Upto(w, k) PROVE FALSE BY DEF Within
      <4>2. CASE k = h + 1 BY <1>1, <3>1, <4>1, <4>2, UptoAll
      <4>3. CASE k = h BY <1>1, <2>6, <4>1, <4>3
      <4>4. CASE k < h
        <5>1. k \in 1 .. Len(n) /\ k \in 0 .. h - 1 BY <1>1, <1>4, <4>4
        <5>2. p = Upto(n, k) BY <1>6, <4>1, <5>1
        <5> QED BY <2>1, <5>1, <5>2 DEF Within
      <4> QED BY <1>1, <4>2, <4>3, <4>4
    <3>4. Complete(at, cells, v, p) BY <2>1, <2>4, <3>3 DEF Layout, CompleteInv
    <3>5. at[p] < l BY <2>1, <2>4, <3>1 DEF Layout, EndInv
    <3>6. at[p] + 1 \in 1 .. l BY <1>1, <3>2, <3>5
    <3>7. cells[at[p] + 1][1] # "size" BY <3>4 DEF Complete, IntCell, Flag
    <3>8. new[at[p] + 1] = cells[at[p] + 1] BY <1>9, <3>6, <3>7
    <3>9. ASSUME First(p, v) \in DOMAIN at, cells[at[p] + 1] = Flag(1)
          PROVE  new[at[p] + 2] = cells[at[p] + 2]
      <4>1. at[First(p, v)] = at[p] + 2
        <5>1. Flag(1) # Flag(0) /\ Flag(1) # IntCell(p) BY DEF Flag, IntCell
        <5> QED BY <3>4, <3>9, <5>1 DEF Complete
      <4>2. at[First(p, v)] <= l BY <3>9, LayoutShape
      <4>3. at[p] + 2 \in 1 .. l BY <1>1, <3>2, <4>1, <4>2
      <4>4. q # w BY <1>1, <1>3
      <4>5. at[p] # g BY <1>2, <2>1, <2>4, <2>6, <3>1, <4>4 DEF Layout, ApartInv
      <4>6. at[p] + 2 # g + 2 BY <1>3, <3>2, <4>5
      <4> QED BY <1>9, <4>3, <4>6
    <3>10. ~(Len(n) = Len(p) + 1 /\ Upto(n, Len(p)) = p)
      <4>1. SUFFICES ASSUME Len(n) = Len(p) + 1, Upto(n, Len(p)) = p PROVE FALSE OBVIOUS
      <4>2. Len(p) \in 1 .. Len(n) BY <1>1, <1>4, <3>2, <4>1
      <4> QED BY <2>1, <4>1, <4>2 DEF Within
    <3> QED BY <1>1, <1>7, <2>4, <3>2, <3>4, <3>8, <3>9, <3>10, CompleteStays
  <2> QED BY <2>5, <2>6
<1>18. IntsInv(to, new, v)
  <2>1. SUFFICES ASSUME NEW k \in 1 .. l, new[k][1] = "int"
                 PROVE  /\ new[k][2] \in DOMAIN at /\ IsField(new[k][2], v)
                        /\ FieldAt(new[k][2], v) = "int"
    BY <1>8 DEF IntsInv
  <2>2. new[k] = cells[k]
    <3>1. k # g + 2 BY <1>9, <2>1 DEF SizeOf
    <3> QED BY <1>9, <3>1
  <2> QED BY <2>1, <2>2 DEF Layout, IntsInv
<1> QED BY <1>10, <1>11, <1>12, <1>13, <1>14, <1>15, <1>17, <1>18 DEF Layout, n

-----------------------------------------------------------------------------
(* Paths of calls in progress.                                             *)

LEMMA PathIs ==
  ASSUME NEW F, \A f \in F : f.type \in Type /\ f.next \in Nat \ {0}, NEW s \in Seq(F)
  PROVE  /\ Path(s) \in Seq(Step) /\ Len(Path(s)) = Len(s) /\ Len(s) \in Nat
         /\ \A k \in 1 .. Len(s) : Path(s)[k] = <<s[k].type, s[k].next>>
<1>1. /\ Len(s) \in Nat /\ DOMAIN s = 1 .. Len(s)
      /\ \A k \in 1 .. Len(s) : s[k].type \in Type /\ s[k].next \in Nat \ {0}
  OBVIOUS
<1>2. Path(s) \in [1 .. Len(s) -> Step] BY <1>1 DEF Path, Step
<1>3. Path(s) \in Seq(Step) /\ Len(Path(s)) = Len(s) BY <1>1, <1>2
<1> QED BY <1>1, <1>3 DEF Path

LEMMA SamePath ==
  ASSUME NEW F, \A f \in F : f.type \in Type /\ f.next \in Nat \ {0}, NEW s \in Seq(F),
         NEW p \in Seq(Step), Len(p) = Len(s),
         \A k \in 1 .. Len(s) : p[k] = <<s[k].type, s[k].next>>
  PROVE  Path(s) = p
<1>1. /\ Path(s) \in Seq(Step) /\ Len(Path(s)) = Len(s) /\ Len(s) \in Nat
      /\ \A k \in 1 .. Len(s) : Path(s)[k] = p[k]
  BY PathIs
<1> QED BY <1>1, SeqEqual

LEMMA FrameTypes ==
  /\ \A f \in WriteFrame : f.type \in Type /\ f.next \in Nat \ {0}
  /\ \A f \in ReadFrame : f.type \in Type /\ f.next \in Nat \ {0}
BY DEF WriteFrame, ReadFrame

LEMMA PopPath ==
  ASSUME NEW F, \A f \in F : f.type \in Type /\ f.next \in Nat \ {0}, NEW s \in Seq(F), Len(s) > 1
  PROVE  Path(Pop(s)) = Upto(Path(s), Len(s) - 1)
<1> DEFINE n == Len(s) - 1
<1>1. Pop(s) \in Seq(F) /\ Len(Pop(s)) = n /\ \A k \in 1 .. n : Pop(s)[k] = s[k]
  BY PopShape
<1>2. /\ Path(s) \in Seq(Step) /\ Len(Path(s)) = Len(s) /\ n \in Nat /\ n <= Len(Path(s))
      /\ \A k \in 1 .. n : Path(s)[k] = <<s[k].type, s[k].next>>
  BY PathIs
<1> HIDE DEF n
<1>3. /\ Upto(Path(s), n) \in Seq(Step) /\ Len(Upto(Path(s), n)) = n
      /\ \A k \in 1 .. n : Upto(Path(s), n)[k] = Path(s)[k]
  BY <1>2, UptoShape
<1>4. \A k \in 1 .. n : Upto(Path(s), n)[k] = <<Pop(s)[k].type, Pop(s)[k].next>>
  BY <1>1, <1>2, <1>3
<1>5. Path(Pop(s)) = Upto(Path(s), n) BY <1>1, <1>3, <1>4, SamePath
<1> QED BY <1>5 DEF n

LEMMA AppendPath ==
  ASSUME NEW F, \A f \in F : f.type \in Type /\ f.next \in Nat \ {0}, NEW s \in Seq(F), NEW f \in F
  PROVE  Path(Append(s, f)) = Append(Path(s), <<f.type, f.next>>)
<1> DEFINE x == <<f.type, f.next>>
<1>1. /\ Append(s, f) \in Seq(F) /\ Len(Append(s, f)) = Len(s) + 1 /\ Len(s) \in Nat
      /\ \A k \in 1 .. Len(s) : Append(s, f)[k] = s[k]
      /\ Append(s, f)[Len(s) + 1] = f
  BY AppendProperties, LenProperties
<1>2. /\ Path(s) \in Seq(Step) /\ Len(Path(s)) = Len(s)
      /\ \A k \in 1 .. Len(s) : Path(s)[k] = <<s[k].type, s[k].next>>
  BY PathIs
<1>3. x \in Step BY DEF Step
<1> HIDE DEF x
<1>4. /\ Append(Path(s), x) \in Seq(Step) /\ Len(Append(Path(s), x)) = Len(s) + 1
      /\ \A k \in 1 .. Len(s) : Append(Path(s), x)[k] = Path(s)[k]
      /\ Append(Path(s), x)[Len(s) + 1] = x
  BY <1>2, <1>3, AppendShape
<1>5. ASSUME NEW k \in 1 .. Len(Append(s, f))
      PROVE  Append(Path(s), x)[k] = <<Append(s, f)[k].type, Append(s, f)[k].next>>
  <2>1. CASE k = Len(s) + 1 BY <1>1, <1>4, <2>1 DEF x
  <2>2. CASE k # Len(s) + 1
    <3>1. k \in 1 .. Len(s) BY <1>1, <2>2
    <3> QED BY <1>1, <1>2, <1>4, <3>1
  <2> QED BY <2>1, <2>2
<1>6. Path(Append(s, f)) = Append(Path(s), x) BY <1>1, <1>4, <1>5, SamePath
<1> QED BY <1>6 DEF x

\* A stack whose innermost call goes on to its next field.
LEMMA NextPath ==
  ASSUME NEW F, \A f \in F : f.type \in Type /\ f.next \in Nat \ {0},
         NEW s \in Seq(F), NEW t \in Seq(F), Len(s) > 0, Len(t) = Len(s),
         \A k \in 1 .. Len(s) - 1 : t[k] = s[k],
         t[Len(s)].type = s[Len(s)].type, t[Len(s)].next = s[Len(s)].next + 1
  PROVE  Path(t) = NextTo(Path(s))
<1> DEFINE n == Len(s)
<1>1. /\ Path(s) \in Seq(Step) /\ Len(Path(s)) = n /\ n \in Nat /\ n \in 1 .. n
      /\ \A k \in 1 .. n : Path(s)[k] = <<s[k].type, s[k].next>>
  BY PathIs
<1>2. /\ NextTo(Path(s)) \in Seq(Step) /\ Len(NextTo(Path(s))) = n
      /\ \A k \in 1 .. n - 1 : NextTo(Path(s))[k] = Path(s)[k]
      /\ NextTo(Path(s))[n] = <<Path(s)[n][1], Path(s)[n][2] + 1>>
  BY <1>1, NextToShape
<1>3. ASSUME NEW k \in 1 .. n PROVE NextTo(Path(s))[k] = <<t[k].type, t[k].next>>
  <2>1. CASE k = n
    <3>1. Path(s)[n] = <<s[n].type, s[n].next>> BY <1>1
    <3> QED BY <1>2, <2>1, <3>1
  <2>2. CASE k # n
    <3>1. k \in 1 .. n - 1 BY <1>1, <2>2
    <3> QED BY <1>1, <1>2, <3>1
  <2> QED BY <2>1, <2>2
<1> QED BY <1>2, <1>3, SamePath

LEMMA WriteNextIs ==
  ASSUME NEW s \in Seq(WriteFrame), Len(s) > 0
  PROVE  /\ Path(WriteNext(s)) = NextTo(Path(s))
         /\ WriteNext(s) \in Seq(WriteFrame) /\ Len(WriteNext(s)) = Len(s)
         /\ \A k \in 1 .. Len(s) : WriteNext(s)[k].start = s[k].start
<1> DEFINE n == Len(s)
           f == s[n]
           top == [f EXCEPT !.next = f.next + 1]
<1>1. n \in 1 .. n /\ n \in Nat /\ f \in WriteFrame OBVIOUS
<1>2. WriteNext(s) = [s EXCEPT ![n] = top] BY DEF WriteNext
<1> HIDE DEF f
<1>3. top \in WriteFrame /\ top.type = f.type /\ top.next = f.next + 1
  <2>1. f \in WriteFrame BY <1>1
  <2>2. top \in WriteFrame BY <2>1 DEF WriteFrame
  <2>3. top.type = f.type /\ top.next = f.next + 1 BY <2>1 DEF WriteFrame
  <2> QED BY <2>2, <2>3
<1> HIDE DEF top
<1>4. /\ WriteNext(s) \in Seq(WriteFrame) /\ Len(WriteNext(s)) = n
      /\ \A k \in 1 .. n : WriteNext(s)[k] = IF k = n THEN top ELSE s[k]
  BY <1>1, <1>2, <1>3, ExceptSeq
<1>5. \A k \in 1 .. n - 1 : WriteNext(s)[k] = s[k] BY <1>1, <1>4
<1>6. WriteNext(s)[n] = top BY <1>1, <1>4
<1>7. Path(WriteNext(s)) = NextTo(Path(s))
  BY <1>3, <1>4, <1>5, <1>6, FrameTypes, NextPath DEF f
<1> QED BY <1>7, WriteNextShape

-----------------------------------------------------------------------------
(* What the writer leaves in the parcel.                                   *)

LaidOut(at) ==
  /\ Layout(at, parcel, Path(writing), written)
  /\ \A k \in 1 .. Len(writing) - 1 : writing[k + 1].start = at[Upto(Path(writing), k)] + 1
  /\ outcome # "write" => Len(writing) = 1 /\ ~IsField(Path(writing), written)

\* The call that is writing, and the field it writes next.
LEMMA WriterFacts ==
  ASSUME IInv
  PROVE  /\ writing \in Seq(WriteFrame) /\ Len(writing) \in Nat /\ Len(writing) > 0
         /\ parcel \in Seq(Cell) /\ written \in Versions /\ known \in Versions
         /\ Path(writing) \in Seq(Step) /\ Len(Path(writing)) = Len(writing)
         /\ Last(Path(writing)) = <<Writing.type, Writing.next>>
         /\ IsField(Path(writing), written) <=> Writing.next <= Len(ToWrite)
         /\ Writing.next > Len(ToWrite) => ~IsField(Path(writing), written)
         /\ FieldAt(Path(writing), written) = ToWrite[Writing.next]
<1>1. /\ writing \in Seq(WriteFrame) /\ Len(writing) \in Nat /\ Len(writing) > 0
      /\ parcel \in Seq(Cell) /\ written \in Versions /\ known \in Versions
  BY DEF IInv, ConfigInv, WriterInv, FramesIn
<1>2. /\ Path(writing) \in Seq(Step) /\ Len(Path(writing)) = Len(writing)
      /\ \A k \in 1 .. Len(writing) : Path(writing)[k] = <<writing[k].type, writing[k].next>>
  BY <1>1, PathIs, FrameTypes
<1>3. Len(writing) \in 1 .. Len(writing) BY <1>1
<1>4. Last(Path(writing)) = <<Writing.type, Writing.next>> BY <1>2, <1>3 DEF Last, Writing
<1>5. Writing.next \in Nat /\ Len(ToWrite) \in Nat
  <2>1. Writing \in WriteFrame BY <1>1, <1>3 DEF Writing, Last
  <2>2. Writing.type \in Type /\ Writing.next \in Nat BY <2>1 DEF WriteFrame
  <2> QED BY <1>1, <2>2, FieldsAreTyped DEF ToWrite
<1>6. IsField(Path(writing), written) <=> Writing.next <= Len(ToWrite)
  BY <1>4 DEF IsField, Count, ToWrite
<1>7. Writing.next > Len(ToWrite) => ~(Writing.next <= Len(ToWrite)) BY <1>5
<1>8. FieldAt(Path(writing), written) = ToWrite[Writing.next]
  BY <1>4 DEF FieldAt, ToWrite
<1> QED BY <1>1, <1>2, <1>4, <1>6, <1>7, <1>8

LEMMA WriteOne ==
  ASSUME IInv, outcome = "write", outcome' = outcome, written' = written, NEW at, LaidOut(at), NEW x \in Cell,
         Writing.next <= Len(ToWrite),
         parcel' = Append(parcel, x), writing' = WriteNext(writing),
         \/ ToWrite[Writing.next] = "int" /\ x = IntCell(Path(writing))
         \/ ToWrite[Writing.next] # "int" /\ x = Flag(0)
  PROVE  \E to : LaidOut(to)'
<1> DEFINE w == Path(writing)
           to == Place(at, NextTo(w), Len(parcel) + 1)
           n == Len(writing)
<1>1. /\ writing \in Seq(WriteFrame) /\ n \in Nat /\ n > 0 /\ parcel \in Seq(Cell)
      /\ written \in Versions /\ w \in Seq(Step) /\ Len(w) = n
      /\ IsField(w, written) /\ FieldAt(w, written) = ToWrite[Writing.next]
  BY WriterFacts
<1>2. Layout(at, parcel, w, written) BY DEF LaidOut
<1>3. /\ Path(writing') = NextTo(w) /\ Len(writing') = n
      /\ \A k \in 1 .. n : writing'[k].start = writing[k].start
  BY <1>1, WriteNextIs
<1>4. Layout(to, parcel', Path(writing'), written')
  BY <1>1, <1>2, <1>3, LayoutAddNext
<1>5. ASSUME NEW k \in 1 .. Len(writing') - 1
      PROVE  writing'[k + 1].start = to[Upto(Path(writing'), k)] + 1
  <2>1. k \in 1 .. n - 1 /\ k + 1 \in 1 .. n /\ k \in 0 .. n - 1 BY <1>1, <1>3
  <2>2. writing'[k + 1].start = at[Upto(w, k)] + 1 BY <1>3, <2>1 DEF LaidOut
  <2>3. Upto(NextTo(w), k) = Upto(w, k) BY <1>1, <2>1, NextToShape
  <2>4. Upto(w, k) \in DOMAIN at
    <3>1. w \in DOMAIN at BY <1>1, <1>2, LayoutShape
    <3> QED BY <1>1, <1>2, <2>1, <3>1 DEF Layout, AroundInv
  <2>5. to[Upto(w, k)] = at[Upto(w, k)]
    <3>1. NextTo(w) # Upto(w, k)
      <4>1. Len(NextTo(w)) = n BY <1>1, NextToShape
      <4>2. Len(Upto(w, k)) = k BY <1>1, <2>1, UptoShape
      <4> QED BY <1>1, <2>1, <4>1, <4>2
    <3> QED BY <2>4, <3>1 DEF Place
  <2> QED BY <1>3, <2>2, <2>3, <2>5
<1> HIDE DEF to
<1>6. PICK m : m = to OBVIOUS
<1>7. LaidOut(m)' BY <1>4, <1>5, <1>6 DEF LaidOut
<1> QED BY <1>7

LEMMA WriteIntLays == ASSUME IInv, NEW at, LaidOut(at), WriteInt PROVE \E to : LaidOut(to)'
<1>1. IntCell(Path(writing)) \in Cell BY WriterFacts, PathShape
<1> QED BY <1>1, WriteOne DEF WriteInt, config

LEMMA WriteNullLays == ASSUME IInv, NEW at, LaidOut(at), WriteNull PROVE \E to : LaidOut(to)'
<1>1. Flag(0) \in Cell BY DEF Flag, Cell
<1> QED BY <1>1, WriteOne DEF WriteNull, config

LEMMA WriteParcelableLays ==
  ASSUME IInv, NEW at, LaidOut(at), WriteParcelable PROVE \E to : LaidOut(to)'
<1> DEFINE w == Path(writing)
           t == ToWrite[Writing.next]
           f == [type |-> t, next |-> 1, start |-> Len(parcel) + 1]
           to == Place(at, First(w, written), Len(parcel) + 2)
           n == Len(writing)
<1>1. /\ writing \in Seq(WriteFrame) /\ n \in Nat /\ n > 0 /\ parcel \in Seq(Cell)
      /\ written \in Versions /\ w \in Seq(Step) /\ Len(w) = n
      /\ IsField(w, written) /\ FieldAt(w, written) = t /\ t # "int"
  BY WriterFacts DEF WriteParcelable
<1>2. Layout(at, parcel, w, written) BY DEF LaidOut
<1>3. t \in Type /\ <<t, 1>> \in Step BY <1>1, FieldHere
<1> HIDE DEF t
<1>4. f \in WriteFrame /\ f.type = t /\ f.next = 1 /\ f.start = Len(parcel) + 1
  <2>1. Len(parcel) + 1 \in Nat BY <1>1
  <2>2. f \in WriteFrame BY <1>3, <2>1 DEF WriteFrame
  <2> QED BY <2>2
<1>5. writing' = Append(writing, f) /\ parcel' = parcel \o <<Flag(1), SizeOf(0)>>
      /\ outcome = "write" /\ outcome' = outcome /\ written' = written
  BY DEF WriteParcelable, config, t
<1> HIDE DEF f
<1>6. /\ parcel' \in Seq(Cell) /\ Len(parcel') = Len(parcel) + 2
      /\ \A k \in 1 .. Len(parcel) : parcel'[k] = parcel[k]
      /\ parcel'[Len(parcel) + 1] = Flag(1) /\ parcel'[Len(parcel) + 2] = SizeOf(0)
  <2>1. Flag(1) \in Cell /\ SizeOf(0) \in Cell BY DEF Flag, SizeOf, Cell
  <2> DEFINE one == Append(parcel, Flag(1))
             two == Append(one, SizeOf(0))
  <2>2. parcel \in Seq(Cell) /\ Len(parcel) \in Nat BY <1>1
  <2>3. parcel \o <<Flag(1), SizeOf(0)>> = two BY <2>1, <2>2
  <2>4. /\ one \in Seq(Cell) /\ Len(one) = Len(parcel) + 1 /\ one[Len(parcel) + 1] = Flag(1)
        /\ \A k \in 1 .. Len(parcel) : one[k] = parcel[k]
    BY <2>1, <2>2, AppendProperties
  <2> HIDE DEF one
  <2>5. /\ two \in Seq(Cell) /\ Len(two) = Len(parcel) + 2 /\ two[Len(parcel) + 2] = SizeOf(0)
        /\ \A k \in 1 .. Len(parcel) + 1 : two[k] = one[k]
    BY <2>1, <2>2, <2>4, AppendProperties
  <2> HIDE DEF two
  <2>6. \A k \in 1 .. Len(parcel) : k \in 1 .. Len(parcel) + 1 BY <2>2
  <2>7. Len(parcel) + 1 \in 1 .. Len(parcel) + 1 BY <2>2
  <2> QED BY <1>5, <2>3, <2>4, <2>5, <2>6, <2>7
<1>7. Path(writing') = First(w, written) /\ Len(writing') = n + 1
      /\ \A k \in 1 .. n : writing'[k] = writing[k]
      /\ writing'[n + 1] = f
  <2>1. Path(writing') = Append(w, <<t, 1>>) BY <1>1, <1>4, <1>5, AppendPath, FrameTypes
  <2>2. Path(writing') = First(w, written) BY <1>1, <2>1 DEF First
  <2> QED BY <1>1, <1>4, <1>5, <2>2, AppendProperties
<1>8. Layout(to, parcel', First(w, written), written)
  BY <1>1, <1>2, <1>6, LayoutAddFirst
<1>9. ASSUME NEW k \in 1 .. Len(writing') - 1
      PROVE  writing'[k + 1].start = to[Upto(Path(writing'), k)] + 1
  <2>1. k \in 1 .. n /\ k \in 0 .. n BY <1>1, <1>7
  <2>2. Upto(First(w, written), k) = Upto(w, k) BY <1>1, <1>3, <2>1, AppendShape DEF First
  <2>3. w \in DOMAIN at /\ at[w] = Len(parcel) BY <1>1, <1>2, LayoutShape
  <2>4. Upto(w, n) = w BY <1>1, UptoAll
  <2>5. Upto(w, k) \in DOMAIN at
    <3>1. CASE k = n BY <2>3, <2>4, <3>1
    <3>2. CASE k # n
      <4>1. k \in 1 .. Len(w) - 1 BY <1>1, <2>1, <3>2
      <4> QED BY <1>2, <2>3, <4>1 DEF Layout, AroundInv
    <3> QED BY <3>1, <3>2
  <2>6. to[Upto(w, k)] = at[Upto(w, k)]
    <3>1. First(w, written) # Upto(w, k)
      <4>1. Len(First(w, written)) = n + 1 BY <1>1, <1>3, AppendShape DEF First
      <4>2. Len(Upto(w, k)) = k BY <1>1, <2>1, UptoShape
      <4> QED BY <1>1, <2>1, <4>1, <4>2
    <3> QED BY <2>5, <3>1 DEF Place
  <2>7. writing'[k + 1].start = at[Upto(w, k)] + 1
    <3>1. CASE k = n BY <1>4, <1>7, <2>3, <2>4, <3>1
    <3>2. CASE k # n
      <4>1. k \in 1 .. n - 1 /\ k + 1 \in 1 .. n BY <1>1, <2>1, <3>2
      <4> QED BY <1>7, <4>1 DEF LaidOut
    <3> QED BY <3>1, <3>2
  <2> QED BY <1>7, <2>2, <2>6, <2>7
<1> HIDE DEF to
<1>10. PICK m : m = to OBVIOUS
<1>11. LaidOut(m)' BY <1>5, <1>7, <1>8, <1>9, <1>10 DEF LaidOut
<1> QED BY <1>11

LEMMA WriteEndLays == ASSUME IInv, NEW at, LaidOut(at), WriteEnd PROVE \E to : LaidOut(to)'
<1> DEFINE w == Path(writing)
           h == Len(writing) - 1
           q == Upto(w, h)
           to == Place(at, NextTo(q), Len(parcel))
           old == Pop(writing)
<1>1. /\ writing \in Seq(WriteFrame) /\ Len(writing) \in Nat /\ Len(writing) > 1 /\ parcel \in Seq(Cell)
      /\ written \in Versions /\ w \in Seq(Step) /\ Len(w) = Len(writing)
      /\ ~IsField(w, written) /\ h \in Nat /\ h > 0 /\ h <= Len(w) /\ Len(writing) = h + 1
      /\ Len(parcel) \in Nat
  <2>1. /\ writing \in Seq(WriteFrame) /\ Len(writing) \in Nat /\ Len(writing) > 1 /\ parcel \in Seq(Cell)
        /\ written \in Versions /\ w \in Seq(Step) /\ Len(w) = Len(writing)
        /\ ~IsField(w, written)
    BY WriterFacts DEF WriteEnd
  <2> QED BY <2>1
<1>2. Layout(at, parcel, w, written) BY DEF LaidOut
<1>3. /\ old \in Seq(WriteFrame) /\ Len(old) = h /\ Path(old) = q
      /\ \A k \in 1 .. h : old[k] = writing[k]
  BY <1>1, PopShape, PopPath, FrameTypes
<1>4. q \in Seq(Step) /\ Len(q) = h /\ \A k \in 0 .. h : Upto(q, k) = Upto(w, k)
  <2>1. q \in Seq(Step) /\ Len(q) = h BY <1>1, UptoShape
  <2>2. \A k \in 0 .. h : Upto(q, k) = Upto(w, k) BY <1>1, UptoUpto
  <2> QED BY <2>1, <2>2
<1>5. Writing.start = at[q] + 1
  <2>1. h \in 1 .. Len(writing) - 1 BY <1>1
  <2>2. writing[h + 1].start = at[q] + 1 BY <2>1 DEF LaidOut
  <2> QED BY <1>1, <2>2 DEF Writing, Last
<1>6. q \in DOMAIN at /\ at[q] \in Nat /\ at[q] + 2 <= Len(parcel)
  <2>1. w \in DOMAIN at /\ at[w] = Len(parcel) BY <1>1, <1>2, LayoutShape
  <2>2. h \in 1 .. Len(w) - 1 BY <1>1
  <2>3. q \in DOMAIN at /\ at[q] + 2 <= at[w] BY <1>2, <2>1, <2>2 DEF Layout, AroundInv
  <2> QED BY <1>1, <1>2, <2>1, <2>3, LayoutShape
<1> HIDE DEF q, old, h
<1>7. /\ parcel' = [parcel EXCEPT ![at[q] + 2] = SizeOf(Len(parcel) - at[q] - 1)]
      /\ writing' = WriteNext(old)
      /\ outcome = "write" /\ outcome' = outcome /\ written' = written
  <2>1. Writing.start + 1 = at[q] + 2 /\ Len(parcel) - Writing.start = Len(parcel) - at[q] - 1
    BY <1>1, <1>5, <1>6
  <2> QED BY <2>1 DEF WriteEnd, old, config
<1>8. /\ parcel' \in Seq(Cell) /\ Len(parcel') = Len(parcel)
      /\ \A k \in 1 .. Len(parcel) :
           parcel'[k] = IF k = at[q] + 2 THEN SizeOf(Len(parcel) - at[q] - 1) ELSE parcel[k]
  <2> DEFINE x == SizeOf(Len(parcel) - at[q] - 1)
             i == at[q] + 2
  <2>1. x \in Cell
    <3>1. Len(parcel) - at[q] - 1 \in Nat BY <1>1, <1>6
    <3> QED BY <3>1 DEF SizeOf, Cell
  <2>2. i \in 1 .. Len(parcel) BY <1>1, <1>6
  <2>3. parcel' = [parcel EXCEPT ![i] = x] BY <1>7
  <2> HIDE DEF x, i
  <2>4. /\ parcel' \in Seq(Cell) /\ Len(parcel') = Len(parcel)
        /\ \A k \in 1 .. Len(parcel) : parcel'[k] = IF k = i THEN x ELSE parcel[k]
    BY <1>1, <2>1, <2>2, <2>3, ExceptSeq
  <2> QED BY <2>4 DEF x, i
<1>9. /\ Path(writing') = NextTo(q) /\ Len(writing') = h
      /\ \A k \in 1 .. h : writing'[k].start = writing[k].start
  <2>1. /\ Path(WriteNext(old)) = NextTo(Path(old)) /\ Len(WriteNext(old)) = h
        /\ \A k \in 1 .. h : WriteNext(old)[k].start = old[k].start
    BY <1>1, <1>3, WriteNextIs
  <2> QED BY <1>3, <1>7, <2>1
<1>10. Layout(to, parcel', NextTo(q), written)
  <2>1. q = Upto(w, Len(w) - 1) /\ Len(w) > 1 BY <1>1 DEF q, h
  <2> QED BY <1>1, <1>2, <1>8, <2>1, LayoutClose
<1>11. ASSUME NEW k \in 1 .. Len(writing') - 1
       PROVE  writing'[k + 1].start = to[Upto(Path(writing'), k)] + 1
  <2>1. k \in 0 .. h - 1 /\ k \in 0 .. h /\ k + 1 \in 1 .. h /\ k \in 1 .. Len(w) - 1
        /\ k \in 1 .. Len(writing) - 1
    BY <1>1, <1>9
  <2>2. Upto(NextTo(q), k) = Upto(w, k) BY <1>1, <1>4, <2>1, NextToShape
  <2>3. writing'[k + 1].start = at[Upto(w, k)] + 1 BY <1>9, <2>1 DEF LaidOut
  <2>4. Upto(w, k) \in DOMAIN at
    <3>1. w \in DOMAIN at BY <1>1, <1>2, LayoutShape
    <3> QED BY <1>2, <2>1, <3>1 DEF Layout, AroundInv
  <2>5. to[Upto(w, k)] = at[Upto(w, k)]
    <3>1. NextTo(q) # Upto(w, k)
      <4>1. Len(NextTo(q)) = h BY <1>1, <1>4, NextToShape
      <4>2. Len(Upto(w, k)) = k BY <1>1, <2>1, UptoShape
      <4> QED BY <1>1, <2>1, <4>1, <4>2
    <3> QED BY <2>4, <3>1 DEF Place
  <2> QED BY <1>9, <2>2, <2>3, <2>5
<1> HIDE DEF to
<1>12. PICK m : m = to OBVIOUS
<1>13. LaidOut(m)' BY <1>7, <1>9, <1>10, <1>11, <1>12 DEF LaidOut
<1> QED BY <1>13

LEMMA InitLays == ASSUME Init PROVE \E at : LaidOut(at)
<1> DEFINE f == [type |-> Root, next |-> 1, start |-> 0]
           w == <<<<Root, 1>>>>
           at == [p \in {w} |-> 0]
<1>1. /\ f \in WriteFrame /\ writing = <<f>> /\ parcel = <<>> /\ outcome = "write"
      /\ f.type = Root /\ f.next = 1 /\ written \in Versions
  BY ParcelableAssumption DEF Init, WriteFrame
<1> HIDE DEF f
<1>2. writing \in Seq(WriteFrame) /\ Len(writing) = 1 /\ writing[1] = f BY <1>1
<1>3. <<Root, 1>> \in Step BY ParcelableAssumption DEF Step
<1>4. w \in Seq(Step) /\ Len(w) = 1 /\ w[1] = <<Root, 1>> BY <1>3
<1>5. Path(writing) = w
  <2>1. \A k \in 1 .. Len(writing) : w[k] = <<writing[k].type, writing[k].next>> BY <1>1, <1>2, <1>4
  <2>2. Len(w) = Len(writing) BY <1>2, <1>4
  <2> HIDE DEF w
  <2> QED BY <1>2, <1>4, <2>1, <2>2, FrameTypes, SamePath
<1> HIDE DEF w
<1>6. DOMAIN at = {w} /\ at[w] = 0 /\ at \in [DOMAIN at -> Nat] OBVIOUS
<1>7. Last(w) = <<Root, 1>> BY <1>4 DEF Last
<1>8. Count(w, written) \in Nat
  <2>1. Root \in Type BY ParcelableAssumption
  <2> QED BY <1>1, <1>7, <2>1, FieldsAreTyped DEF Count
<1>9. Upto(w, 1) = w BY <1>4, UptoAll
<1> HIDE DEF at
<1>10. PlacesInv(at, w, written)
  <2>1. Begin = w BY DEF Begin, w
  <2> QED BY <1>4, <1>6, <1>7, <1>8, <2>1 DEF PlacesInv
<1>11. AroundInv(at, parcel, written) /\ OpenInv(at, w, written)
  <2>1. \A k \in 1 .. Len(w) - 1 : FALSE BY <1>4
  <2> QED BY <1>6, <2>1 DEF AroundInv, OpenInv
<1>12. EndInv(at, parcel, w, written) /\ IntsInv(at, parcel, written)
  <2>1. Len(parcel) = 0 BY <1>1
  <2> QED BY <1>6, <2>1 DEF EndInv, IntsInv
<1>13. LatestInv(at, w)
  <2>1. Last(w)[2] <= w[Len(w)][2] BY <1>4, <1>7
  <2> QED BY <1>6, <2>1 DEF LatestInv
<1>14. ApartInv(at, w, written) BY <1>6 DEF ApartInv
<1>15. CompleteInv(at, parcel, w, written)
  <2>1. Within(w, w)
    <3>1. 1 \in 1 .. Len(w) BY <1>4
    <3> QED BY <1>9, <3>1 DEF Within
  <2> QED BY <1>6, <2>1 DEF CompleteInv
<1>16. Layout(at, parcel, w, written) BY <1>10, <1>11, <1>12, <1>13, <1>14, <1>15 DEF Layout
<1>17. \A k \in 1 .. Len(writing) - 1 : FALSE BY <1>2
<1>18. LaidOut(at) BY <1>1, <1>5, <1>16, <1>17 DEF LaidOut
<1> QED BY <1>18

LEMMA SendLays == ASSUME IInv, NEW at, LaidOut(at), Send PROVE LaidOut(at)'
<1>1. /\ Len(writing) = 1 /\ ~IsField(Path(writing), written)
      /\ UNCHANGED <<parcel, writing, written>>
  <2>1. Writing.next \in Nat /\ Len(ToWrite) \in Nat
    <3>1. writing \in Seq(WriteFrame) /\ Len(writing) \in 1 .. Len(writing) /\ written \in Versions
      BY WriterFacts
    <3>2. Writing \in WriteFrame BY <3>1 DEF Writing, Last
    <3>3. Writing.type \in Type /\ Writing.next \in Nat BY <3>2 DEF WriteFrame
    <3> QED BY <3>1, <3>3, FieldsAreTyped DEF ToWrite
  <2>2. ~(Writing.next <= Len(ToWrite)) BY <2>1 DEF Send
  <2> QED BY <2>2, WriterFacts DEF Send, config
<1> QED BY <1>1 DEF LaidOut

-----------------------------------------------------------------------------
(* The reader follows the layout.                                          *)

\* at is the layout, cells the parcel, s the calls in progress, d the data
\* position, v the writer's version and u the reader's.
Entered(at, cells, s, v, u) ==
  \A k \in 1 .. Len(s) - 1 :
    /\ Upto(Path(s), k) \in DOMAIN at /\ IsField(Upto(Path(s), k), v)
    /\ cells[at[Upto(Path(s), k)] + 1] = Flag(1)
    /\ s[k].next <= Len(Fields[s[k].type][u]) /\ ~s[k].check
    /\ s[k + 1].type = FieldAt(Upto(Path(s), k), v)
    /\ s[k + 1].start = at[Upto(Path(s), k)] + 1
    /\ s[k + 1].size = at[NextTo(Upto(Path(s), k))] - at[Upto(Path(s), k)] - 1

Nested(s) ==
  \A j, k \in 1 .. Len(s) : 1 < j /\ j < k =>
    s[j].start < s[k].start /\ s[k].start + s[k].size <= s[j].start + s[j].size

\* The next field is read, from where it was written; or there is none.
AtField(at, s, d, v) ==
  /\ ~Last(s).check /\ Path(s) \in DOMAIN at /\ d = at[Path(s)]
  /\ IsField(Path(s), v) \/ Len(s) = 1 \/ Last(s).next = 1

\* A field was read, or one the writer did not have.
AfterField(at, s, d, v, u) ==
  /\ Last(s).check /\ Len(s) > 1 /\ Last(s).next <= Len(Fields[Last(s).type][u])
  /\ \/ Path(s) \in DOMAIN at /\ IsField(Path(s), v) /\ d = at[NextTo(Path(s))]
     \/ /\ Len(Fields[Last(s).type][v]) = 0 /\ Last(s).next = 1
        /\ d \in {Last(s).start + 1, Last(s).start + 2}

OnTrack(at, cells, s, d, v, u) ==
  /\ s \in Seq(ReadFrame) /\ Len(s) > 0 /\ s[1].type = Root
  /\ Entered(at, cells, s, v, u) /\ Nested(s)
  /\ AtField(at, s, d, v) \/ AfterField(at, s, d, v, u)

LEMMA AfterValueIs ==
  ASSUME NEW s \in Seq(ReadFrame), Len(s) > 0
  PROVE  /\ AfterValue(s) \in Seq(ReadFrame) /\ Len(AfterValue(s)) = Len(s)
         /\ \A k \in 1 .. Len(s) - 1 : AfterValue(s)[k] = s[k]
         /\ \A k \in 1 .. Len(s) : /\ AfterValue(s)[k].start = s[k].start
                                   /\ AfterValue(s)[k].size = s[k].size
                                   /\ AfterValue(s)[k].type = s[k].type
         /\ Len(s) = 1 => AfterValue(s)[1].next = s[1].next + 1 /\ AfterValue(s)[1].check = s[1].check
         /\ Len(s) > 1 => /\ AfterValue(s)[Len(s)].next = s[Len(s)].next
                          /\ AfterValue(s)[Len(s)].check
         /\ Path(AfterValue(s)) = IF Len(s) = 1 THEN NextTo(Path(s)) ELSE Path(s)
<1> DEFINE n == Len(s)
           f == s[n]
           next == [f EXCEPT !.next = f.next + 1]
           check == [f EXCEPT !.check = TRUE]
           top == IF n = 1 THEN next ELSE check
<1>1. n \in Nat /\ n \in 1 .. n /\ f \in ReadFrame
  OBVIOUS
<1>2. AfterValue(s) = IF n = 1 THEN [s EXCEPT ![n] = next] ELSE [s EXCEPT ![n] = check]
  BY <1>1 DEF AfterValue
<1> HIDE DEF f
<1>3. next \in ReadFrame BY <1>1 DEF ReadFrame
<1>4. next.start = f.start /\ next.size = f.size /\ next.type = f.type
      /\ next.next = f.next + 1 /\ next.check = f.check
  BY <1>1 DEF ReadFrame
<1>5. check \in ReadFrame BY <1>1 DEF ReadFrame
<1>6. check.start = f.start /\ check.size = f.size /\ check.type = f.type
      /\ check.next = f.next /\ check.check
  BY <1>1 DEF ReadFrame
<1> HIDE DEF next, check
<1>7. top \in ReadFrame /\ top.start = f.start /\ top.size = f.size /\ top.type = f.type
      /\ (n = 1 => top.next = f.next + 1 /\ top.check = f.check)
      /\ (n # 1 => top.next = f.next /\ top.check)
  BY <1>3, <1>4, <1>5, <1>6
<1>8. AfterValue(s) = [s EXCEPT ![n] = top] BY <1>2
<1> HIDE DEF top
<1>9. /\ AfterValue(s) \in Seq(ReadFrame) /\ Len(AfterValue(s)) = n
      /\ \A k \in 1 .. n : AfterValue(s)[k] = IF k = n THEN top ELSE s[k]
  BY <1>1, <1>7, <1>8, ExceptSeq
<1>10. \A k \in 1 .. n - 1 : AfterValue(s)[k] = s[k] BY <1>1, <1>9
<1>11. AfterValue(s)[n] = top BY <1>1, <1>9
<1>12. ASSUME NEW k \in 1 .. n
       PROVE  /\ AfterValue(s)[k].start = s[k].start
              /\ AfterValue(s)[k].size = s[k].size
              /\ AfterValue(s)[k].type = s[k].type
  <2>1. CASE k = n BY <1>7, <1>11, <2>1 DEF f
  <2>2. CASE k # n
    <3>1. AfterValue(s)[k] = s[k] BY <1>9, <2>2
    <3> QED BY <3>1
  <2> QED BY <2>1, <2>2
<1>13. CASE n = 1
  <2>1. AfterValue(s)[1] = top /\ f = s[1] BY <1>11, <1>13 DEF f
  <2>2. Path(AfterValue(s)) = NextTo(Path(s))
    <3>1. AfterValue(s)[n].type = s[n].type /\ AfterValue(s)[n].next = s[n].next + 1
      BY <1>7, <1>11, <1>13 DEF f
    <3> QED BY <1>9, <1>10, <3>1, FrameTypes, NextPath
  <2> QED BY <1>7, <1>9, <1>10, <1>12, <1>13, <2>1, <2>2
<1>14. CASE n # 1
  <2>1. AfterValue(s)[n].next = s[n].next /\ AfterValue(s)[n].check BY <1>7, <1>11, <1>14 DEF f
  <2>2. /\ Path(s) \in Seq(Step) /\ Len(Path(s)) = n
        /\ \A k \in 1 .. n : Path(s)[k] = <<s[k].type, s[k].next>>
    BY PathIs, FrameTypes
  <2>3. \A k \in 1 .. n : AfterValue(s)[k].type = s[k].type /\ AfterValue(s)[k].next = s[k].next
    <3>1. ASSUME NEW k \in 1 .. n PROVE AfterValue(s)[k].next = s[k].next
      <4>1. CASE k = n BY <2>1, <4>1
      <4>2. CASE k # n
        <5>1. AfterValue(s)[k] = s[k] BY <1>9, <4>2
        <5> QED BY <5>1
      <4> QED BY <4>1, <4>2
    <3> QED BY <1>12, <3>1
  <2>4. Path(AfterValue(s)) = Path(s)
    <3>1. \A k \in 1 .. n : Path(s)[k] = <<AfterValue(s)[k].type, AfterValue(s)[k].next>>
      BY <2>2, <2>3
    <3> QED BY <1>9, <2>2, <3>1, FrameTypes, SamePath
  <2> QED BY <1>9, <1>10, <1>12, <1>14, <2>1, <2>4
<1> QED BY <1>13, <1>14

\* Calls above the innermost one stay as they are.
LEMMA EnteredStays ==
  ASSUME NEW at, NEW cells, NEW v, NEW u, NEW s \in Seq(ReadFrame), NEW t \in Seq(ReadFrame),
         Entered(at, cells, s, v, u), Len(t) > 0, Len(t) <= Len(s),
         \A k \in 1 .. Len(t) - 1 : t[k] = s[k],
         t[Len(t)].type = s[Len(t)].type, t[Len(t)].start = s[Len(t)].start,
         t[Len(t)].size = s[Len(t)].size
  PROVE  /\ Entered(at, cells, t, v, u)
         /\ Nested(s) => Nested(t)
         /\ \A k \in 1 .. Len(t) - 1 : Upto(Path(t), k) = Upto(Path(s), k)
<1> DEFINE n == Len(t)
<1>1. /\ Path(s) \in Seq(Step) /\ Len(Path(s)) = Len(s) /\ Len(s) \in Nat
      /\ \A k \in 1 .. Len(s) : Path(s)[k] = <<s[k].type, s[k].next>>
      /\ Path(t) \in Seq(Step) /\ Len(Path(t)) = n /\ n \in Nat /\ n <= Len(s)
      /\ \A k \in 1 .. n : Path(t)[k] = <<t[k].type, t[k].next>>
  BY PathIs, FrameTypes
<1>2. \A k \in 1 .. n - 1 : t[k] = s[k] /\ k \in 1 .. n /\ k \in 1 .. Len(s) BY <1>1
<1>3. \A k \in 1 .. n - 1 : Path(t)[k] = Path(s)[k] BY <1>1, <1>2
<1>4. ASSUME NEW k \in 1 .. n - 1 PROVE Upto(Path(t), k) = Upto(Path(s), k)
  <2>1. k \in Nat /\ k <= Len(Path(t)) /\ k <= Len(Path(s)) /\ \A j \in 1 .. k : j \in 1 .. n - 1
    BY <1>1
  <2>2. \A j \in 1 .. k : Path(t)[j] = Path(s)[j] BY <1>3, <2>1
  <2> QED BY <1>1, <2>1, <2>2, UptoSame
<1>5. \A k \in 1 .. n : t[k].type = s[k].type /\ t[k].start = s[k].start /\ t[k].size = s[k].size
  <2>1. \A k \in 1 .. n : k = n \/ k \in 1 .. n - 1 BY <1>1
  <2> QED BY <1>2, <2>1
<1>6. ASSUME NEW k \in 1 .. n - 1
      PROVE  /\ Upto(Path(t), k) \in DOMAIN at /\ IsField(Upto(Path(t), k), v)
             /\ cells[at[Upto(Path(t), k)] + 1] = Flag(1)
             /\ t[k].next <= Len(Fields[t[k].type][u]) /\ ~t[k].check
             /\ t[k + 1].type = FieldAt(Upto(Path(t), k), v)
             /\ t[k + 1].start = at[Upto(Path(t), k)] + 1
             /\ t[k + 1].size = at[NextTo(Upto(Path(t), k))] - at[Upto(Path(t), k)] - 1
  <2>1. k \in 1 .. Len(s) - 1 /\ k + 1 \in 1 .. n BY <1>1
  <2>2. t[k] = s[k] /\ Upto(Path(t), k) = Upto(Path(s), k) BY <1>2, <1>4
  <2>3. /\ t[k + 1].type = s[k + 1].type /\ t[k + 1].start = s[k + 1].start
        /\ t[k + 1].size = s[k + 1].size
    BY <1>5, <2>1
  <2> HIDE DEF n
  <2> QED BY <2>1, <2>2, <2>3 DEF Entered
<1>7. Nested(s) => Nested(t)
  <2>1. \A k \in 1 .. n : k \in 1 .. Len(s) BY <1>1
  <2> HIDE DEF n
  <2> QED BY <1>5, <2>1 DEF Nested, n
<1> QED BY <1>4, <1>6, <1>7 DEF Entered

LEMMA NestedStays ==
  ASSUME NEW s \in Seq(ReadFrame), NEW t \in Seq(ReadFrame), Len(t) <= Len(s), Nested(s),
         \A k \in 1 .. Len(t) : t[k].start = s[k].start /\ t[k].size = s[k].size
  PROVE  Nested(t)
<1>1. \A k \in 1 .. Len(t) : k \in 1 .. Len(s) OBVIOUS
<1> QED BY <1>1 DEF Nested

LEMMA PopStays ==
  ASSUME NEW at, NEW cells, NEW v, NEW u, NEW s \in Seq(ReadFrame), Len(s) > 1,
         Entered(at, cells, s, v, u), Nested(s)
  PROVE  /\ Pop(s) \in Seq(ReadFrame) /\ Len(Pop(s)) = Len(s) - 1
         /\ \A k \in 1 .. Len(s) - 1 : Pop(s)[k] = s[k]
         /\ Path(Pop(s)) = Upto(Path(s), Len(s) - 1)
         /\ Entered(at, cells, Pop(s), v, u) /\ Nested(Pop(s))
<1> DEFINE t == Pop(s)
           n == Len(s) - 1
<1>1. t \in Seq(ReadFrame) /\ Len(t) = n /\ \A k \in 1 .. n : t[k] = s[k] BY PopShape
<1>2. Path(t) = Upto(Path(s), n) BY PopPath, FrameTypes
<1>3. n \in Nat /\ n > 0 /\ n <= Len(s) OBVIOUS
<1> HIDE DEF t, n
<1>4. n \in 1 .. n /\ \A k \in 1 .. n - 1 : k \in 1 .. n BY <1>3
<1>5. /\ \A k \in 1 .. Len(t) - 1 : t[k] = s[k]
      /\ t[Len(t)].type = s[Len(t)].type /\ t[Len(t)].start = s[Len(t)].start
      /\ t[Len(t)].size = s[Len(t)].size
  BY <1>1, <1>4
<1>6. Entered(at, cells, t, v, u) /\ Nested(t) BY <1>1, <1>3, <1>5, EnteredStays
<1> QED BY <1>1, <1>2, <1>6 DEF t, n

\* The parcel is complete.
Laid(at, cells, w, v) == Layout(at, cells, w, v) /\ Len(w) = 1 /\ ~IsField(w, v)

LEMMA AllComplete ==
  ASSUME NEW v \in Versions, NEW cells \in Seq(Cell), NEW at, NEW w, Laid(at, cells, w, v),
         NEW p \in DOMAIN at, IsField(p, v)
  PROVE  Complete(at, cells, v, p) /\ NextTo(p) \in DOMAIN at
<1>1. Layout(at, cells, w, v) /\ Len(w) = 1 /\ p # w BY DEF Laid
<1>2. w \in Seq(Step) BY <1>1, LayoutShape
<1>3. Upto(w, 1) = w BY <1>1, <1>2, UptoAll
<1>4. ~Within(p, w)
  <2>1. \A k \in 1 .. Len(w) : k = 1 BY <1>1
  <2> QED BY <1>1, <1>3, <2>1 DEF Within
<1>5. Complete(at, cells, v, p) BY <1>1, <1>4 DEF Layout, CompleteInv
<1> QED BY <1>5 DEF Complete

\* A field lies inside the parcelable it belongs to.
LEMMA Inside ==
  ASSUME NEW v \in Versions, NEW cells \in Seq(Cell), NEW at, NEW w, Laid(at, cells, w, v),
         NEW c \in DOMAIN at, Len(c) > 1, NEW q, q = Upto(c, Len(c) - 1)
  PROVE  /\ q \in DOMAIN at /\ IsField(q, v) /\ at[q] \in Nat /\ at[c] \in Nat /\ at[NextTo(q)] \in Nat
         /\ at[q] + 2 <= at[c] /\ cells[at[q] + 2] = SizeOf(at[NextTo(q)] - at[q] - 1)
         /\ IF IsField(c, v) THEN at[c] < at[NextTo(q)] ELSE at[c] = at[NextTo(q)]
<1> DEFINE h == Len(c) - 1
<1>1. Layout(at, cells, w, v) BY DEF Laid
<1>2. c \in Seq(Step) /\ Len(c) \in Nat /\ at[c] \in Nat BY <1>1, LayoutShape
<1>3. h \in 1 .. Len(c) - 1 /\ h \in Nat /\ h <= Len(c) /\ Len(c) = h + 1 BY <1>2
<1>4. /\ q \in DOMAIN at /\ IsField(q, v) /\ c[h + 1][1] = FieldAt(q, v)
      /\ at[q] + 2 <= at[c] /\ cells[at[q] + 1] = Flag(1)
  BY <1>1, <1>3 DEF Layout, AroundInv
<1>5. Len(q) = h
  <2> HIDE DEF h
  <2>1. q = Upto(c, h) BY DEF h
  <2> QED BY <1>2, <1>3, <2>1, UptoShape
<1>6. Complete(at, cells, v, q) /\ NextTo(q) \in DOMAIN at BY <1>4, AllComplete
<1>7. at[q] \in Nat /\ at[NextTo(q)] \in Nat BY <1>1, <1>4, <1>6, LayoutShape
<1>8. Flag(1) # Flag(0) /\ Flag(1) # IntCell(q) BY DEF Flag, IntCell
<1>9. /\ cells[at[q] + 2] = SizeOf(at[NextTo(q)] - at[q] - 1)
      /\ \A x \in DOMAIN at : Len(x) = Len(q) + 1 /\ Upto(x, Len(q)) = q =>
           IF IsField(x, v) THEN at[x] < at[NextTo(q)] ELSE at[x] = at[NextTo(q)]
  BY <1>4, <1>6, <1>8 DEF Complete
<1>10. Len(c) = Len(q) + 1 /\ Upto(c, Len(q)) = q BY <1>3, <1>5
<1> QED BY <1>2, <1>4, <1>7, <1>9, <1>10

\* A value was read: the next one is where the layout has it.
LEMMA Arrive ==
  ASSUME NEW v \in Versions, NEW u \in Versions, NEW cells \in Seq(Cell), NEW at, NEW w,
         Laid(at, cells, w, v), NEW s \in Seq(ReadFrame), Len(s) > 0, s[1].type = Root,
         Entered(at, cells, s, v, u), Nested(s), ~s[1].check,
         Path(s) \in DOMAIN at, IsField(Path(s), v), Last(s).next <= Len(Fields[Last(s).type][u])
  PROVE  OnTrack(at, cells, AfterValue(s), at[NextTo(Path(s))], v, u)
<1> DEFINE t == AfterValue(s)
           n == Len(s)
<1>1. /\ t \in Seq(ReadFrame) /\ Len(t) = n
      /\ \A k \in 1 .. n - 1 : t[k] = s[k]
      /\ \A k \in 1 .. n : t[k].start = s[k].start /\ t[k].size = s[k].size /\ t[k].type = s[k].type
      /\ n = 1 => t[1].next = s[1].next + 1 /\ t[1].check = s[1].check
      /\ n > 1 => t[n].next = s[n].next /\ t[n].check
      /\ Path(t) = IF n = 1 THEN NextTo(Path(s)) ELSE Path(s)
  BY AfterValueIs
<1>2. n \in Nat /\ n \in 1 .. n /\ 1 \in 1 .. n OBVIOUS
<1> HIDE DEF t
<1>3. Entered(at, cells, t, v, u) /\ Nested(t)
  <2>1. t[n].type = s[n].type /\ t[n].start = s[n].start /\ t[n].size = s[n].size BY <1>1, <1>2
  <2>2. \A k \in 1 .. Len(t) - 1 : t[k] = s[k] BY <1>1
  <2>3. Len(t) > 0 /\ Len(t) <= Len(s) BY <1>1, <1>2
  <2> QED BY <1>1, <2>1, <2>2, <2>3, EnteredStays
<1>4. NextTo(Path(s)) \in DOMAIN at BY AllComplete
<1>5. t[1].type = Root BY <1>1, <1>2
<1>6. CASE n = 1
  <2>1. ~Last(t).check BY <1>1, <1>6 DEF Last
  <2>2. AtField(at, t, at[NextTo(Path(s))], v) BY <1>1, <1>4, <1>6, <2>1 DEF AtField
  <2> QED BY <1>1, <1>3, <1>5, <2>2 DEF OnTrack, t
<1>7. CASE n # 1
  <2>1. n > 1 BY <1>2, <1>7, AboveOne
  <2>2. Last(t).check /\ Last(t).next = Last(s).next /\ Last(t).type = Last(s).type
    BY <1>1, <1>2, <2>1 DEF Last
  <2>3. AfterField(at, t, at[NextTo(Path(s))], v, u)
    BY <1>1, <1>7, <2>1, <2>2 DEF AfterField
  <2> QED BY <1>1, <1>3, <1>5, <2>3 DEF OnTrack, t
<1> QED BY <1>6, <1>7

\* The reader leaves a parcelable at the end its writer had.
LEMMA Leave ==
  ASSUME NEW v \in Versions, NEW u \in Versions, NEW cells \in Seq(Cell), NEW at, NEW w,
         Laid(at, cells, w, v), NEW s \in Seq(ReadFrame), NEW d,
         OnTrack(at, cells, s, d, v, u), Len(s) > 1
  PROVE  /\ OnTrack(at, cells, AfterValue(Pop(s)), Last(s).start + Last(s).size, v, u)
         /\ Last(s).start + Last(s).size = at[NextTo(Upto(Path(s), Len(s) - 1))]
<1> DEFINE t == Pop(s)
           n == Len(s) - 1
           q == Upto(Path(s), n)
<1>1. Entered(at, cells, s, v, u) /\ Nested(s) /\ s[1].type = Root BY DEF OnTrack
<1>2. /\ t \in Seq(ReadFrame) /\ Len(t) = n /\ \A k \in 1 .. n : t[k] = s[k]
      /\ Path(t) = q /\ Entered(at, cells, t, v, u) /\ Nested(t)
  BY <1>1, PopStays
<1>3. n \in Nat /\ n > 0 /\ n \in 1 .. Len(s) - 1 /\ n \in 1 .. n /\ 1 \in 1 .. Len(s) - 1 /\ 1 \in 1 .. n
      /\ Len(s) = n + 1
  OBVIOUS
<1>4. /\ q \in DOMAIN at /\ IsField(q, v)
      /\ s[n].next <= Len(Fields[s[n].type][u]) /\ ~s[1].check
      /\ s[n + 1].start = at[q] + 1
      /\ s[n + 1].size = at[NextTo(q)] - at[q] - 1
  BY <1>1, <1>3 DEF Entered
<1>5. NextTo(q) \in DOMAIN at BY <1>4, AllComplete
<1>6. at[q] \in Nat /\ at[NextTo(q)] \in Nat
  <2>1. Layout(at, cells, w, v) BY DEF Laid
  <2> QED BY <1>4, <1>5, <2>1, LayoutShape
<1> HIDE DEF t, n
<1>7. Last(s).start + Last(s).size = at[NextTo(q)]
  <2>1. \A a, b \in Nat : (a + 1) + (b - a - 1) = b OBVIOUS
  <2>2. Last(s) = s[n + 1] BY <1>3 DEF Last
  <2> QED BY <1>4, <1>6, <2>1, <2>2
<1>8. t[1].type = Root /\ ~t[1].check /\ Last(t).next <= Len(Fields[Last(t).type][u])
  BY <1>1, <1>2, <1>3, <1>4 DEF Last
<1>9. OnTrack(at, cells, AfterValue(t), at[NextTo(q)], v, u)
  BY <1>2, <1>3, <1>4, <1>8, Arrive
<1> QED BY <1>7, <1>9 DEF t, n

LEMMA NextFieldIs ==
  ASSUME NEW s \in Seq(ReadFrame), Len(s) > 0, NEW t, t = [s EXCEPT ![Len(s)] = NextField(@)]
  PROVE  /\ t \in Seq(ReadFrame) /\ Len(t) = Len(s)
         /\ \A k \in 1 .. Len(s) - 1 : t[k] = s[k]
         /\ t[Len(s)].type = s[Len(s)].type /\ t[Len(s)].start = s[Len(s)].start
         /\ t[Len(s)].size = s[Len(s)].size /\ t[Len(s)].next = s[Len(s)].next + 1
         /\ ~t[Len(s)].check
         /\ Path(t) = NextTo(Path(s))
<1> DEFINE n == Len(s)
           f == s[n]
           mid == [f EXCEPT !.next = f.next + 1]
           top == [mid EXCEPT !.check = FALSE]
<1>1. n \in Nat /\ n \in 1 .. n /\ f \in ReadFrame OBVIOUS
<1>2. t = [s EXCEPT ![n] = top] BY DEF NextField
<1> HIDE DEF f
<1>3. mid \in ReadFrame
  <2>1. f \in ReadFrame BY <1>1
  <2>2. f.next + 1 \in Nat \ {0} BY <2>1 DEF ReadFrame
  <2> QED BY <2>1, <2>2 DEF ReadFrame
<1>4. mid.type = f.type /\ mid.start = f.start /\ mid.size = f.size /\ mid.next = f.next + 1
  BY <1>1 DEF ReadFrame
<1> HIDE DEF mid
<1>5. top \in ReadFrame BY <1>3 DEF ReadFrame
<1>6. top.type = mid.type /\ top.start = mid.start /\ top.size = mid.size /\ top.next = mid.next
      /\ ~top.check
  BY <1>3 DEF ReadFrame
<1> HIDE DEF top
<1>7. t \in Seq(ReadFrame) /\ Len(t) = n /\ \A k \in 1 .. n : t[k] = IF k = n THEN top ELSE s[k]
  BY <1>1, <1>2, <1>5, ExceptSeq
<1>8. t[n] = top /\ \A k \in 1 .. n - 1 : t[k] = s[k]
  <2>1. t[n] = top BY <1>1, <1>7
  <2>2. \A k \in 1 .. n - 1 : k \in 1 .. n /\ k # n BY <1>1
  <2> QED BY <1>7, <2>1, <2>2
<1>9. t[n].type = s[n].type /\ t[n].next = s[n].next + 1 BY <1>4, <1>6, <1>8 DEF f
<1>10. Path(t) = NextTo(Path(s)) BY <1>7, <1>8, <1>9, FrameTypes, NextPath
<1> QED BY <1>4, <1>6, <1>7, <1>8, <1>9, <1>10 DEF f

LEMMA Advance ==
  ASSUME NEW v \in Versions, NEW u \in Versions, NEW cells \in Seq(Cell), NEW at, NEW w,
         Laid(at, cells, w, v), NEW s \in Seq(ReadFrame), NEW d, OnTrack(at, cells, s, d, v, u),
         Path(s) \in DOMAIN at, IsField(Path(s), v), d = at[NextTo(Path(s))], IsField(NextTo(Path(s)), v),
         NEW t, t = [s EXCEPT ![Len(s)] = NextField(@)]
  PROVE  OnTrack(at, cells, t, d, v, u)
<1>1. Entered(at, cells, s, v, u) /\ Nested(s) /\ s[1].type = Root /\ Len(s) > 0 BY DEF OnTrack
<1>2. /\ t \in Seq(ReadFrame) /\ Len(t) = Len(s)
      /\ \A k \in 1 .. Len(s) - 1 : t[k] = s[k]
      /\ t[Len(s)].type = s[Len(s)].type /\ t[Len(s)].start = s[Len(s)].start
      /\ t[Len(s)].size = s[Len(s)].size /\ ~t[Len(s)].check
      /\ Path(t) = NextTo(Path(s))
  BY <1>1, NextFieldIs
<1>3. Entered(at, cells, t, v, u) /\ Nested(t)
  <2>1. Len(t) <= Len(s) /\ Len(t) > 0
    <3>1. Len(s) \in Nat /\ Len(s) > 0 BY <1>1
    <3>2. Len(t) = Len(s) BY <1>2
    <3> QED BY <3>1, <3>2
  <2>2. /\ \A k \in 1 .. Len(t) - 1 : t[k] = s[k]
        /\ t[Len(t)].type = s[Len(t)].type /\ t[Len(t)].start = s[Len(t)].start
        /\ t[Len(t)].size = s[Len(t)].size
    BY <1>2
  <2>3. s \in Seq(ReadFrame) /\ t \in Seq(ReadFrame) BY <1>2
  <2>4. Entered(at, cells, t, v, u) BY <1>1, <2>1, <2>2, <2>3, EnteredStays
  <2>5. \A k \in 1 .. Len(t) : t[k].start = s[k].start /\ t[k].size = s[k].size
    <3>1. \A k \in 1 .. Len(t) : k = Len(t) \/ k \in 1 .. Len(t) - 1 BY <2>3
    <3> QED BY <2>2, <3>1
  <2>6. Nested(t) BY <1>1, <2>1, <2>3, <2>5, NestedStays
  <2> QED BY <2>4, <2>6
<1>4. t[1].type = Root
  <2>1. CASE Len(s) = 1 BY <1>1, <1>2, <2>1
  <2>2. CASE Len(s) # 1
    <3>1. 1 \in 1 .. Len(s) - 1
      <4>1. Len(s) \in Nat /\ Len(s) > 0 BY <1>1
      <4>2. \A i \in Nat : i > 0 /\ i # 1 => 1 \in 1 .. i - 1 OBVIOUS
      <4> QED BY <2>2, <4>1, <4>2
    <3>2. t[1] = s[1] BY <1>2, <3>1
    <3> QED BY <1>1, <3>2
  <2> QED BY <2>1, <2>2
<1>5. NextTo(Path(s)) \in DOMAIN at BY AllComplete
<1>6. AtField(at, t, d, v) BY <1>2, <1>5 DEF AtField, Last
<1> QED BY <1>1, <1>2, <1>3, <1>4, <1>6 DEF OnTrack

\* The reader enters a parcelable.
LEMMA Enter ==
  ASSUME NEW v \in Versions, NEW u \in Versions, NEW cells \in Seq(Cell), NEW at, NEW w,
         Laid(at, cells, w, v), NEW s \in Seq(ReadFrame), NEW d, OnTrack(at, cells, s, d, v, u),
         AtField(at, s, d, v), IsField(Path(s), v), cells[d + 1] = Flag(1),
         Last(s).next <= Len(Fields[Last(s).type][u]),
         NEW f \in ReadFrame, f.type = FieldAt(Path(s), v), f.next = 1, f.start = d + 1,
         f.size = cells[d + 2][2], ~f.check
  PROVE  OnTrack(at, cells, Append(s, f), d + 2, v, u)
<1> DEFINE p == Path(s)
           n == Len(s)
           t == Append(s, f)
           q == Upto(p, n - 1)
<1>1. /\ Entered(at, cells, s, v, u) /\ Nested(s) /\ s[1].type = Root
      /\ p \in DOMAIN at /\ d = at[p] /\ ~Last(s).check /\ n > 0 /\ n \in Nat
      /\ Layout(at, cells, w, v)
  BY DEF OnTrack, AtField, Laid
<1>2. Complete(at, cells, v, p) /\ NextTo(p) \in DOMAIN at BY <1>1, AllComplete
<1>3. at[p] \in Nat /\ at[NextTo(p)] \in Nat BY <1>1, <1>2, LayoutShape
<1>4. /\ FieldAt(p, v) # "int" /\ cells[d + 2] = SizeOf(at[NextTo(p)] - at[p] - 1)
      /\ First(p, v) \in DOMAIN at /\ at[First(p, v)] = d + 2
  <2>1. Flag(1) # Flag(0) /\ Flag(1) # IntCell(p) BY DEF Flag, IntCell
  <2> QED BY <1>1, <1>2, <2>1 DEF Complete
<1>5. f.size = at[NextTo(p)] - at[p] - 1 BY <1>4 DEF SizeOf
<1>6. /\ p \in Seq(Step) /\ Len(p) = n
      /\ \A k \in 1 .. n : p[k] = <<s[k].type, s[k].next>>
  BY PathIs, FrameTypes
<1>7. <<f.type, f.next>> \in Step BY FrameTypes DEF Step
<1>8. /\ t \in Seq(ReadFrame) /\ Len(t) = n + 1
      /\ \A k \in 1 .. n : t[k] = s[k]
      /\ t[n + 1] = f
  BY <1>1, AppendProperties
<1>9. Path(t) = Append(p, <<f.type, f.next>>) /\ Path(t) = First(p, v)
  <2>1. Path(t) = Append(p, <<f.type, f.next>>) BY AppendPath, FrameTypes
  <2> QED BY <2>1 DEF First
<1>10. \A k \in 0 .. n : Upto(Path(t), k) = Upto(p, k)
  BY <1>6, <1>7, <1>9, AppendShape
<1>11. Upto(p, n) = p BY <1>6, UptoAll
<1>12. Last(s) = s[n] /\ n \in 1 .. n BY <1>1 DEF Last
<1> HIDE DEF t, p
<1>13. Entered(at, cells, t, v, u)
  <2>1. SUFFICES ASSUME NEW k \in 1 .. n
                 PROVE  /\ Upto(p, k) \in DOMAIN at /\ IsField(Upto(p, k), v)
                        /\ cells[at[Upto(p, k)] + 1] = Flag(1)
                        /\ t[k].next <= Len(Fields[t[k].type][u]) /\ ~t[k].check
                        /\ t[k + 1].type = FieldAt(Upto(p, k), v)
                        /\ t[k + 1].start = at[Upto(p, k)] + 1
                        /\ t[k + 1].size = at[NextTo(Upto(p, k))] - at[Upto(p, k)] - 1
    <3>1. \A k \in 1 .. Len(t) - 1 : k \in 1 .. n /\ k \in 0 .. n BY <1>1, <1>8
    <3>2. \A k \in 1 .. Len(t) - 1 : Upto(Path(t), k) = Upto(p, k) BY <1>10, <3>1
    <3> QED BY <3>1, <3>2 DEF Entered
  <2>2. CASE k = n
    <3>1. t[k + 1] = f /\ t[k] = Last(s) /\ Upto(p, k) = p BY <1>8, <1>11, <1>12, <2>2
    <3> QED BY <1>1, <1>5, <3>1 DEF p
  <2>3. CASE k # n
    <3>1. k \in 1 .. n - 1 /\ k + 1 \in 1 .. n BY <1>1, <2>3
    <3>2. t[k] = s[k] /\ t[k + 1] = s[k + 1] BY <1>8, <3>1
    <3> QED BY <1>1, <3>1, <3>2 DEF Entered, p
  <2> QED BY <2>2, <2>3
<1>14. Nested(t)
  <2>1. SUFFICES ASSUME NEW j \in 1 .. n, 1 < j
                 PROVE  s[j].start < f.start /\ f.start + f.size <= s[j].start + s[j].size
    <3>1. SUFFICES ASSUME NEW j \in 1 .. n + 1, NEW k \in 1 .. n + 1, 1 < j, j < k
                   PROVE  /\ t[j].start < t[k].start
                          /\ t[k].start + t[k].size <= t[j].start + t[j].size
      BY <1>8 DEF Nested
    <3>2. j \in 1 .. n /\ t[j] = s[j] BY <1>1, <1>8, <3>1
    <3>3. CASE k = n + 1 BY <1>8, <2>1, <3>1, <3>2, <3>3
    <3>4. CASE k # n + 1
      <4>1. k \in 1 .. n /\ t[k] = s[k] BY <1>1, <1>8, <3>4
      <4> QED BY <1>1, <3>1, <3>2, <4>1 DEF Nested
    <3> QED BY <3>3, <3>4
  <2>2. n > 1 /\ n - 1 \in 1 .. n - 1 /\ (n - 1) + 1 = n BY <1>1, <2>1
  <2>3. s[n].start = at[q] + 1 /\ s[n].size = at[NextTo(q)] - at[q] - 1
    BY <1>1, <2>2 DEF Entered, p
  <2>4. /\ at[q] \in Nat /\ at[NextTo(q)] \in Nat /\ at[q] + 2 <= at[p]
    BY <1>1, <1>6, <2>2, Inside
  <2>5. at[NextTo(p)] <= at[NextTo(q)]
    <3>1. Len(NextTo(p)) = n /\ Upto(NextTo(p), n - 1) = q
      <4>1. n - 1 \in 0 .. Len(p) - 1 BY <1>6, <2>2
      <4> QED BY <1>1, <1>6, <4>1, NextToShape
    <3>2. IF IsField(NextTo(p), v) THEN at[NextTo(p)] < at[NextTo(q)] ELSE at[NextTo(p)] = at[NextTo(q)]
      BY <1>2, <2>2, <3>1, Inside
    <3> QED BY <1>3, <2>4, <3>2
  <2>6. s[n].start < f.start /\ f.start + f.size <= s[n].start + s[n].size
    <3>1. \A a, b, e, g \in Nat : a + 2 <= b /\ e <= g =>
            a + 1 < b + 1 /\ (b + 1) + (e - b - 1) <= (a + 1) + (g - a - 1)
      OBVIOUS
    <3>2. f.start = at[p] + 1 BY <1>1
    <3> QED BY <1>3, <1>5, <2>3, <2>4, <2>5, <3>1, <3>2
  <2>7. CASE j = n BY <2>6, <2>7
  <2>8. CASE j # n
    <3>1. s[j].start < s[n].start /\ s[n].start + s[n].size <= s[j].start + s[j].size
      <4>1. j < n BY <1>1, <2>8
      <4> QED BY <1>1, <1>12, <2>1, <4>1 DEF Nested
    <3>2. /\ s[j].start \in Nat /\ s[j].size \in Nat /\ s[n].start \in Nat /\ s[n].size \in Nat
          /\ f.start \in Nat /\ f.size \in Nat
      <4>1. s[j] \in ReadFrame /\ s[n] \in ReadFrame BY <1>12
      <4> QED BY <4>1 DEF ReadFrame
    <3>3. \A a, b, c, x, y, z \in Nat :
            a < b /\ b + y <= a + x /\ b < c /\ c + z <= b + y => a < c /\ c + z <= a + x
      OBVIOUS
    <3> DEFINE a == s[j].start
               b == s[n].start
               c == f.start
               x == s[j].size
               y == s[n].size
               z == f.size
    <3>4. a \in Nat /\ b \in Nat /\ c \in Nat /\ x \in Nat /\ y \in Nat /\ z \in Nat BY <3>2
    <3>5. a < b /\ b + y <= a + x /\ b < c /\ c + z <= b + y BY <2>6, <3>1
    <3> HIDE DEF a, b, c, x, y, z
    <3>6. a < c /\ c + z <= a + x BY <3>3, <3>4, <3>5
    <3> QED BY <3>6 DEF a, c, x, z
  <2> QED BY <2>7, <2>8
<1>15. AtField(at, t, d + 2, v)
  <2>1. Last(t) = f BY <1>1, <1>8 DEF Last
  <2> QED BY <1>4, <1>9, <2>1 DEF AtField
<1>16. t[1].type = Root
  <2>1. 1 \in 1 .. n BY <1>1
  <2> QED BY <1>1, <1>8, <2>1
<1>17. Len(t) > 0 BY <1>1, <1>8
<1> QED BY <1>8, <1>13, <1>14, <1>15, <1>16, <1>17 DEF OnTrack, t

-----------------------------------------------------------------------------
(* What the reader has still to read.                                      *)

\* The field at p comes after what the calls s have read.
Ahead(s, p) ==
  \E k \in 1 .. Len(s) :
    /\ k <= Len(p) /\ Upto(p, k - 1) = Upto(Path(s), k - 1) /\ p[k][1] = s[k].type
    /\ p[k][2] > s[k].next \/ (k = Len(s) /\ ~s[k].check /\ p[k][2] = s[k].next)

\* It is beyond the field that was read, at some depth.
Beyond(s, p) ==
  \E k \in 1 .. Len(s) :
    /\ k <= Len(p) /\ Upto(p, k - 1) = Upto(Path(s), k - 1) /\ p[k][1] = s[k].type
    /\ p[k][2] > s[k].next

LEMMA BeyondAfter ==
  ASSUME NEW s \in Seq(ReadFrame), Len(s) > 0, ~s[1].check, NEW p \in Seq(Step), Beyond(s, p)
  PROVE  Ahead(AfterValue(s), p)
<1> DEFINE t == AfterValue(s)
           n == Len(s)
<1>1. PICK k \in 1 .. n : /\ k <= Len(p) /\ Upto(p, k - 1) = Upto(Path(s), k - 1) /\ p[k][1] = s[k].type
                          /\ p[k][2] > s[k].next
  BY DEF Beyond
<1>2. /\ Len(t) = n /\ n \in Nat
      /\ \A i \in 1 .. n - 1 : t[i] = s[i]
      /\ \A i \in 1 .. n : t[i].type = s[i].type
      /\ n = 1 => t[1].next = s[1].next + 1 /\ t[1].check = s[1].check
      /\ n > 1 => t[n].next = s[n].next /\ t[n].check
      /\ Path(t) = IF n = 1 THEN NextTo(Path(s)) ELSE Path(s)
  BY AfterValueIs
<1>3. Path(s) \in Seq(Step) /\ Len(Path(s)) = n BY PathIs, FrameTypes
<1>4. Upto(p, k - 1) = Upto(Path(t), k - 1)
  <2>1. k - 1 \in 0 .. Len(Path(s)) - 1 BY <1>2, <1>3
  <2>2. Upto(NextTo(Path(s)), k - 1) = Upto(Path(s), k - 1) BY <1>3, <2>1, NextToShape
  <2> QED BY <1>1, <1>2, <2>2
<1>5. p[k][2] \in Nat /\ s[k].next \in Nat
  <2>1. p[k] \in Step /\ s[k] \in ReadFrame BY <1>1, <1>2
  <2> QED BY <2>1 DEF Step, ReadFrame
<1> HIDE DEF t
<1>6. CASE k = n /\ n = 1
  <2>1. p[k][2] > t[k].next \/ (~t[k].check /\ p[k][2] = t[k].next) BY <1>1, <1>2, <1>5, <1>6
  <2>2. k = Len(t) /\ k \in 1 .. Len(t) /\ p[k][1] = t[k].type BY <1>1, <1>2, <1>6
  <2> QED BY <1>1, <1>4, <2>1, <2>2 DEF Ahead, t
<1>7. CASE ~(k = n /\ n = 1)
  <2>1. t[k].next = s[k].next
    <3>1. CASE k = n
      <4>1. n > 1 BY <1>1, <1>2, <1>7, <3>1
      <4> QED BY <1>2, <3>1, <4>1
    <3>2. CASE k # n
      <4>1. k \in 1 .. n - 1 BY <1>2, <3>2
      <4> QED BY <1>2, <4>1
    <3> QED BY <3>1, <3>2
  <2>2. k \in 1 .. Len(t) /\ p[k][1] = t[k].type /\ p[k][2] > t[k].next BY <1>1, <1>2, <2>1
  <2> QED BY <1>1, <1>4, <2>2 DEF Ahead, t
<1> QED BY <1>6, <1>7

\* What is ahead of a field is beyond it, or that field, or in it.
LEMMA AheadArrive ==
  ASSUME NEW s \in Seq(ReadFrame), Len(s) > 0, ~s[1].check, NEW p \in Seq(Step), Ahead(s, p),
         p # Path(s), ~(Len(p) > Len(s) /\ Upto(p, Len(s)) = Path(s))
  PROVE  Ahead(AfterValue(s), p)
<1> DEFINE n == Len(s)
<1>1. PICK k \in 1 .. n :
        /\ k <= Len(p) /\ Upto(p, k - 1) = Upto(Path(s), k - 1) /\ p[k][1] = s[k].type
        /\ p[k][2] > s[k].next \/ (k = n /\ ~s[k].check /\ p[k][2] = s[k].next)
  BY DEF Ahead
<1>2. CASE p[k][2] > s[k].next
  <2>1. Beyond(s, p) BY <1>1, <1>2 DEF Beyond
  <2> QED BY <2>1, BeyondAfter
<1>3. CASE k = n /\ p[k][2] = s[k].next
  <2>1. /\ Path(s) \in Seq(Step) /\ Len(Path(s)) = n /\ n \in Nat /\ n \in 1 .. n
        /\ \A j \in 1 .. n : Path(s)[j] = <<s[j].type, s[j].next>>
    BY PathIs, FrameTypes
  <2>2. Len(p) \in Nat /\ n <= Len(p) /\ p[n] \in Step BY <1>1, <1>3, <2>1
  <2>3. p[n] = Path(s)[n]
    <3>1. p[n][1] = s[n].type /\ p[n][2] = s[n].next BY <1>1, <1>3
    <3>2. Path(s)[n] = <<s[n].type, s[n].next>> BY <2>1
    <3> QED BY <2>2, <3>1, <3>2 DEF Step
  <2>4. \A j \in 1 .. n : p[j] = Path(s)[j]
    <3>1. n - 1 \in Nat /\ n - 1 <= Len(p) /\ n - 1 <= Len(Path(s)) BY <2>1, <2>2
    <3>2. \A j \in 1 .. n - 1 : p[j] = Path(s)[j] BY <1>1, <1>3, <2>1, <3>1, SameUpto
    <3>3. \A j \in 1 .. n : j = n \/ j \in 1 .. n - 1 BY <2>1
    <3> QED BY <2>3, <3>2, <3>3
  <2>5. Upto(p, n) = Path(s)
    <3>1. Upto(p, n) = Upto(Path(s), n) BY <2>1, <2>2, <2>4, UptoSame
    <3> QED BY <2>1, <3>1, UptoAll
  <2>6. Len(p) = n
    <3>1. ~(Len(p) > n) BY <2>5
    <3> QED BY <2>1, <2>2, <3>1
  <2>7. p = Path(s) BY <2>5, <2>6, UptoAll
  <2> QED BY <2>7
<1> QED BY <1>1, <1>2, <1>3

\* Leaving a parcelable passes over what is ahead in it.
LEMMA AheadLeave ==
  ASSUME NEW s \in Seq(ReadFrame), Len(s) > 1, ~s[1].check, NEW p \in Seq(Step), Ahead(s, p)
  PROVE  \/ Ahead(AfterValue(Pop(s)), p)
         \/ /\ Len(s) <= Len(p) /\ Upto(p, Len(s) - 1) = Upto(Path(s), Len(s) - 1)
            /\ p[Len(s)][1] = Last(s).type
            /\ p[Len(s)][2] > Last(s).next \/ (~Last(s).check /\ p[Len(s)][2] = Last(s).next)
<1> DEFINE n == Len(s) - 1
           t == Pop(s)
<1>1. PICK k \in 1 .. Len(s) :
        /\ k <= Len(p) /\ Upto(p, k - 1) = Upto(Path(s), k - 1) /\ p[k][1] = s[k].type
        /\ p[k][2] > s[k].next \/ (k = Len(s) /\ ~s[k].check /\ p[k][2] = s[k].next)
  BY DEF Ahead
<1>2. CASE k = Len(s) BY <1>1, <1>2 DEF Last
<1>3. CASE k # Len(s)
  <2>1. t \in Seq(ReadFrame) /\ Len(t) = n /\ \A i \in 1 .. n : t[i] = s[i] BY PopShape
  <2>2. Path(t) = Upto(Path(s), n) BY PopPath, FrameTypes
  <2>3. Path(s) \in Seq(Step) /\ Len(Path(s)) = Len(s) BY PathIs, FrameTypes
  <2>4. k \in 1 .. n /\ k - 1 \in Nat /\ k - 1 <= n /\ n \in Nat /\ n <= Len(Path(s)) BY <1>3, <2>3
  <2>5. 1 \in 1 .. n BY <2>4
  <2> HIDE DEF n, t
  <2>6. Upto(Path(t), k - 1) = Upto(Path(s), k - 1) BY <2>2, <2>3, <2>4, UptoUpto
  <2>7. t[k] = s[k] /\ t[1] = s[1] BY <2>1, <2>4, <2>5
  <2>8. Beyond(t, p) BY <1>1, <1>3, <2>1, <2>4, <2>6, <2>7 DEF Beyond
  <2>9. Len(t) > 0 BY <2>1, <2>4
  <2>10. Ahead(AfterValue(t), p) BY <2>1, <2>7, <2>8, <2>9, BeyondAfter
  <2> QED BY <2>10 DEF t
<1> QED BY <1>2, <1>3

LEMMA AheadNext ==
  ASSUME NEW s \in Seq(ReadFrame), Len(s) > 0, Last(s).check, NEW p \in Seq(Step), Ahead(s, p),
         NEW t, t = [s EXCEPT ![Len(s)] = NextField(@)]
  PROVE  Ahead(t, p)
<1>0. /\ t \in Seq(ReadFrame) /\ Len(t) = Len(s)
      /\ \A k \in 1 .. Len(s) - 1 : t[k] = s[k]
      /\ t[Len(s)].type = s[Len(s)].type
      /\ t[Len(s)].next = s[Len(s)].next + 1
      /\ ~t[Len(s)].check
      /\ Path(t) = NextTo(Path(s))
  <2> DEFINE new == [s EXCEPT ![Len(s)] = NextField(@)]
  <2>1. t = new OBVIOUS
  <2>2. Len(s) > 0 OBVIOUS
  <2> HIDE DEF new
  <2>3. /\ new \in Seq(ReadFrame) /\ Len(new) = Len(s)
        /\ \A k \in 1 .. Len(s) - 1 : new[k] = s[k]
        /\ new[Len(s)].type = s[Len(s)].type
        /\ new[Len(s)].next = s[Len(s)].next + 1
        /\ ~new[Len(s)].check
        /\ Path(new) = NextTo(Path(s))
    BY <2>2, NextFieldIs DEF new
  <2> QED BY <2>1, <2>3
<1> DEFINE n == Len(s)
<1>1. PICK k \in 1 .. n :
        /\ k <= Len(p) /\ Upto(p, k - 1) = Upto(Path(s), k - 1) /\ p[k][1] = s[k].type
        /\ p[k][2] > s[k].next \/ (k = n /\ ~s[k].check /\ p[k][2] = s[k].next)
  BY DEF Ahead
<1>2. /\ t \in Seq(ReadFrame) /\ Len(t) = n
      /\ \A i \in 1 .. n - 1 : t[i] = s[i]
      /\ t[n].type = s[n].type /\ t[n].next = s[n].next + 1 /\ ~t[n].check
      /\ Path(t) = NextTo(Path(s))
  BY <1>0
<1>3. Path(s) \in Seq(Step) /\ Len(Path(s)) = n /\ n \in Nat BY PathIs, FrameTypes
<1>4. Upto(p, k - 1) = Upto(Path(t), k - 1)
  <2>1. k - 1 \in 0 .. Len(Path(s)) - 1 BY <1>3
  <2>2. Upto(NextTo(Path(s)), k - 1) = Upto(Path(s), k - 1) BY <1>3, <2>1, NextToShape
  <2> QED BY <1>1, <1>2, <2>2
<1>5. p[k][2] > s[k].next BY <1>1 DEF Last
<1>6. p[k][2] \in Nat /\ s[k].next \in Nat
  <2>1. p[k] \in Step /\ s[k] \in ReadFrame BY <1>1, <1>3
  <2> QED BY <2>1 DEF Step, ReadFrame
<1>7. CASE k = n
  <2>1. \A a, b \in Nat : a > b => a > b + 1 \/ a = b + 1 OBVIOUS
  <2>2. t[k].next = s[k].next + 1 BY <1>2, <1>7
  <2>3. p[k][2] > t[k].next \/ p[k][2] = t[k].next BY <1>5, <1>6, <2>1, <2>2
  <2> QED BY <1>1, <1>2, <1>4, <1>7, <2>3 DEF Ahead
<1>8. CASE k # n
  <2>1. k \in 1 .. n - 1 BY <1>3, <1>8
  <2>2. t[k] = s[k] BY <1>2, <2>1
  <2> QED BY <1>1, <1>2, <1>4, <1>5, <2>2 DEF Ahead
<1> QED BY <1>7, <1>8

\* Entering a parcelable passes over nothing.
LEMMA AheadEnter ==
  ASSUME NEW s \in Seq(ReadFrame), Len(s) > 0, NEW p \in Seq(Step), Ahead(s, p), p # Path(s),
         NEW f \in ReadFrame, f.next = 1, ~f.check,
         Len(p) > Len(s) /\ Upto(p, Len(s)) = Path(s) => p[Len(s) + 1][1] = f.type
  PROVE  Ahead(Append(s, f), p)
<1> DEFINE n == Len(s)
           t == Append(s, f)
<1>1. PICK k \in 1 .. n :
        /\ k <= Len(p) /\ Upto(p, k - 1) = Upto(Path(s), k - 1) /\ p[k][1] = s[k].type
        /\ p[k][2] > s[k].next \/ (k = n /\ ~s[k].check /\ p[k][2] = s[k].next)
  BY DEF Ahead
<1>2. /\ t \in Seq(ReadFrame) /\ Len(t) = n + 1 /\ n \in Nat
      /\ \A i \in 1 .. n : t[i] = s[i]
      /\ t[n + 1] = f
  BY AppendProperties, LenProperties
<1>3. /\ Path(s) \in Seq(Step) /\ Len(Path(s)) = n
      /\ \A j \in 1 .. n : Path(s)[j] = <<s[j].type, s[j].next>>
  BY PathIs, FrameTypes
<1>4. Path(t) = Append(Path(s), <<f.type, f.next>>) BY AppendPath, FrameTypes
<1>5. <<f.type, f.next>> \in Step BY FrameTypes DEF Step
<1>6. \A j \in 0 .. n : Upto(Path(t), j) = Upto(Path(s), j) BY <1>3, <1>4, <1>5, AppendShape
<1> HIDE DEF t
<1>7. CASE p[k][2] > s[k].next
  <2>1. k - 1 \in 0 .. n /\ k \in 1 .. Len(t) BY <1>2
  <2>2. Upto(p, k - 1) = Upto(Path(t), k - 1) /\ t[k] = s[k] BY <1>1, <1>2, <1>6, <2>1
  <2> QED BY <1>1, <1>7, <2>1, <2>2 DEF Ahead, t
<1>8. CASE k = n /\ p[k][2] = s[k].next
  <2>1. Len(p) \in Nat /\ n <= Len(p) /\ p[n] \in Step /\ n \in 1 .. n BY <1>1, <1>2, <1>8
  <2>2. p[n] = Path(s)[n]
    <3>1. p[n][1] = s[n].type /\ p[n][2] = s[n].next BY <1>1, <1>8
    <3>2. Path(s)[n] = <<s[n].type, s[n].next>> BY <1>3, <2>1
    <3> QED BY <2>1, <3>1, <3>2 DEF Step
  <2>3. \A j \in 1 .. n : p[j] = Path(s)[j]
    <3>1. n - 1 \in Nat /\ n - 1 <= Len(p) /\ n - 1 <= Len(Path(s)) BY <1>2, <1>3, <2>1
    <3>2. \A j \in 1 .. n - 1 : p[j] = Path(s)[j] BY <1>1, <1>3, <1>8, <3>1, SameUpto
    <3>3. \A j \in 1 .. n : j = n \/ j \in 1 .. n - 1 BY <1>2
    <3> QED BY <2>2, <3>2, <3>3
  <2>4. Upto(p, n) = Path(s)
    <3>1. Upto(p, n) = Upto(Path(s), n) BY <1>2, <1>3, <2>1, <2>3, UptoSame
    <3> QED BY <1>3, <3>1, UptoAll
  <2>5. Len(p) > n
    <3>1. Len(p) # n BY <2>4, UptoAll
    <3> QED BY <1>2, <2>1, <3>1
  <2>6. p[n + 1][1] = f.type BY <2>4, <2>5
  <2>7. p[n + 1][2] \in Nat \ {0}
    <3>1. n + 1 \in 1 .. Len(p) BY <1>2, <2>1, <2>5
    <3>2. p[n + 1] \in Step BY <3>1
    <3> QED BY <3>2 DEF Step
  <2>8. p[n + 1][2] > f.next \/ p[n + 1][2] = f.next BY <2>7
  <2>9. Upto(p, (n + 1) - 1) = Upto(Path(t), (n + 1) - 1)
    <3>1. (n + 1) - 1 = n /\ n \in 0 .. n BY <1>2
    <3>2. Upto(Path(s), n) = Path(s) BY <1>3, UptoAll
    <3> QED BY <1>6, <2>4, <3>1, <3>2
  <2>10. n + 1 \in 1 .. Len(t) /\ n + 1 <= Len(p) BY <1>2, <2>1, <2>5
  <2> QED BY <1>2, <2>6, <2>8, <2>9, <2>10 DEF Ahead, t
<1> QED BY <1>1, <1>7, <1>8

\* A field the writer wrote is within what its version has, at every depth.
LEMMA WithinFields ==
  ASSUME NEW v \in Versions, NEW cells \in Seq(Cell), NEW at, NEW w, Layout(at, cells, w, v),
         NEW p \in DOMAIN at, IsField(p, v), NEW k \in 1 .. Len(p)
  PROVE  p[k][2] <= Len(Fields[p[k][1]][v]) /\ p[k] \in Step
<1>1. p \in Seq(Step) /\ Len(p) \in Nat BY LayoutShape
<1>2. CASE k = Len(p) BY <1>1, <1>2 DEF IsField, Count, Last
<1>3. CASE k # Len(p)
  <2>1. k \in 1 .. Len(p) - 1 /\ k \in Nat /\ k <= Len(p) /\ k \in 1 .. k BY <1>1, <1>3
  <2>2. IsField(Upto(p, k), v) BY <2>1 DEF Layout, AroundInv
  <2>3. Last(Upto(p, k)) = p[k] BY <1>1, <2>1, UptoShape DEF Last
  <2> QED BY <1>1, <2>2, <2>3 DEF IsField, Count
<1> QED BY <1>2, <1>3

LEMMA SameFields ==
  ASSUME NEW v \in Versions, NEW u \in Versions, NEW t \in Type, NEW i \in Nat \ {0},
         i <= Len(Fields[t][v]), i <= Len(Fields[t][u])
  PROVE  Fields[t][v][i] = Fields[t][u][i]
<1>1. v \in Nat /\ u \in Nat BY ParcelableAssumption
<1>2. i \in DOMAIN Fields[t][v] /\ i \in DOMAIN Fields[t][u]
  <2>1. /\ Fields[t][v] \in Seq({"int"} \cup (Type \ {Root})) /\ Len(Fields[t][v]) \in Nat
        /\ Fields[t][u] \in Seq({"int"} \cup (Type \ {Root})) /\ Len(Fields[t][u]) \in Nat
    BY FieldsAreTyped
  <2> QED BY <2>1
<1>3. CASE v < u BY <1>2, <1>3, ParcelableAssumption
<1>4. CASE u < v BY <1>2, <1>4, ParcelableAssumption
<1>5. CASE u = v BY <1>5
<1> QED BY <1>1, <1>3, <1>4, <1>5

-----------------------------------------------------------------------------
(* What the reader has read.                                               *)

\* Reader and writer both know the int at p.
Common(p, v, u) ==
  /\ IsField(p, v) /\ FieldAt(p, v) = "int"
  /\ \A k \in 1 .. Len(p) : p[k][2] <= Len(Fields[p[k][1]][u])
EmptiedBy(t, v, u) == Len(Fields[t][v]) = 0 /\ Len(Fields[t][u]) > 0

\* What was assigned is right, or of a parcelable whose writer knew no field.
GotRight(at, g, v, u) ==
  \A x \in g : \/ EmptiedBy(Last(x[1])[1], v, u)
               \/ x[1] \in DOMAIN at /\ Common(x[1], v, u) /\ x[2] = IntCell(x[1])

\* What was not assigned is still ahead.
AllAhead(at, s, g, v, u) ==
  \A p \in DOMAIN at : Common(p, v, u) => (\E x \in g : x[1] = p) \/ Ahead(s, p)

Agreed(at, cells, s, d, g, v, u) ==
  OnTrack(at, cells, s, d, v, u) /\ GotRight(at, g, v, u) /\ AllAhead(at, s, g, v, u)

\* The field that is read next: the writer wrote it, or knew none.
LEMMA NextIs ==
  ASSUME NEW v \in Versions, NEW u \in Versions, NEW cells \in Seq(Cell), NEW at, NEW w,
         Laid(at, cells, w, v), NEW s \in Seq(ReadFrame), NEW d, OnTrack(at, cells, s, d, v, u),
         ~Last(s).check, Last(s).next <= Len(Fields[Last(s).type][u])
  PROVE  /\ AtField(at, s, d, v) /\ Entered(at, cells, s, v, u) /\ Nested(s) /\ s[1].type = Root
         /\ Path(s) \in DOMAIN at /\ d = at[Path(s)] /\ d \in Nat
         /\ Path(s) \in Seq(Step) /\ Len(Path(s)) = Len(s) /\ Len(s) \in Nat /\ Len(s) > 0
         /\ Last(Path(s)) = <<Last(s).type, Last(s).next>>
         /\ Last(s).type \in Type /\ Last(s).next \in Nat \ {0}
         /\ \/ /\ IsField(Path(s), v)
               /\ FieldAt(Path(s), v) = Fields[Last(s).type][u][Last(s).next]
            \/ /\ ~IsField(Path(s), v) /\ EmptiedBy(Last(s).type, v, u) /\ Last(s).next = 1 /\ Len(s) > 1
<1> DEFINE p == Path(s)
           n == Len(s)
           t == Last(s).type
           i == Last(s).next
<1>1. /\ AtField(at, s, d, v) /\ Entered(at, cells, s, v, u) /\ Nested(s) /\ s[1].type = Root
      /\ n > 0 /\ p \in DOMAIN at /\ d = at[p]
  BY DEF OnTrack, AfterField, AtField
<1>2. /\ p \in Seq(Step) /\ Len(p) = n /\ n \in Nat
      /\ \A k \in 1 .. n : p[k] = <<s[k].type, s[k].next>>
  BY PathIs, FrameTypes
<1>3. n \in 1 .. n /\ s[n] \in ReadFrame BY <1>1, <1>2
<1>4. Last(p) = <<t, i>> /\ t \in Type /\ i \in Nat \ {0} BY <1>2, <1>3, FrameTypes DEF Last
<1>5. d \in Nat BY <1>1, LayoutShape DEF Laid
<1> HIDE DEF p, n, t, i
<1>6. IsField(p, v) <=> i <= Len(Fields[t][v]) BY <1>4 DEF IsField, Count
<1>7. Len(Fields[t][v]) \in Nat /\ Len(Fields[t][u]) \in Nat BY <1>4, FieldsAreTyped
<1>8. i <= Len(Fields[t][u]) BY DEF i, t
<1>9. CASE IsField(p, v)
  <2>1. FieldAt(p, v) = Fields[t][v][i] BY <1>4 DEF FieldAt
  <2>2. Fields[t][v][i] = Fields[t][u][i] BY <1>4, <1>6, <1>8, <1>9, SameFields
  <2> QED BY <1>1, <1>2, <1>4, <1>5, <1>9, <2>1, <2>2 DEF p, n, t, i
<1>10. CASE ~IsField(p, v)
  <2>1. n # 1
    <3>1. SUFFICES ASSUME n = 1 PROVE FALSE OBVIOUS
    <3>2. t = Root BY <1>1, <3>1 DEF t, n, Last
    <3>3. Fields[t][v] = Fields[t][u] BY <3>2, ParcelableAssumption
    <3> QED BY <1>6, <1>8, <1>10, <3>3
  <2>2. i = 1 BY <1>1, <1>10, <2>1 DEF AtField, i, n, p
  <2>3. EmptiedBy(t, v, u)
    <3>1. \A a \in Nat : ~(1 <= a) => a = 0 OBVIOUS
    <3>2. \A a \in Nat : 1 <= a => a > 0 OBVIOUS
    <3>3. ~(1 <= Len(Fields[t][v])) /\ 1 <= Len(Fields[t][u]) BY <1>6, <1>8, <1>10, <2>2
    <3> QED BY <1>7, <3>1, <3>2, <3>3 DEF EmptiedBy
  <2>4. n > 1 BY <1>1, <1>2, <2>1, AboveOne
  <2> QED BY <1>1, <1>2, <1>4, <1>5, <1>10, <2>2, <2>3, <2>4 DEF p, n, t, i
<1> QED BY <1>9, <1>10

\* The path of a call in progress is known to the reader at every depth.
LEMMA PathKnown ==
  ASSUME NEW v \in Versions, NEW u \in Versions, NEW cells, NEW at, NEW s \in Seq(ReadFrame),
         Len(s) > 0, Entered(at, cells, s, v, u), Last(s).next <= Len(Fields[Last(s).type][u])
  PROVE  \A k \in 1 .. Len(Path(s)) : Path(s)[k][2] <= Len(Fields[Path(s)[k][1]][u])
<1>1. /\ Len(Path(s)) = Len(s) /\ Len(s) \in Nat
      /\ \A k \in 1 .. Len(s) : Path(s)[k] = <<s[k].type, s[k].next>>
  BY PathIs, FrameTypes
<1>2. SUFFICES ASSUME NEW k \in 1 .. Len(s) PROVE s[k].next <= Len(Fields[s[k].type][u]) BY <1>1
<1>3. CASE k = Len(s) BY <1>3 DEF Last
<1>4. CASE k # Len(s)
  <2>1. k \in 1 .. Len(s) - 1 BY <1>1, <1>4
  <2> QED BY <2>1 DEF Entered
<1> QED BY <1>3, <1>4

\* What is below a path is in a parcelable that was written there.
LEMMA Below ==
  ASSUME NEW v \in Versions, NEW cells \in Seq(Cell), NEW at, NEW w, Laid(at, cells, w, v),
         NEW q \in DOMAIN at, NEW p, NEW n \in Nat, n > 0, Len(q) > n, Upto(q, n) = p
  PROVE  /\ p \in DOMAIN at /\ IsField(p, v) /\ q[n + 1][1] = FieldAt(p, v) /\ q[n + 1][1] \in Type
         /\ cells[at[p] + 1] = Flag(1)
<1>1. q \in Seq(Step) /\ Len(q) \in Nat BY LayoutShape DEF Laid
<1>2. n \in 1 .. Len(q) - 1 /\ n + 1 \in 1 .. Len(q) BY <1>1
<1>3. q[n + 1] \in Step BY <1>1, <1>2
<1>4. /\ Upto(q, n) \in DOMAIN at /\ IsField(Upto(q, n), v)
      /\ q[n + 1][1] = FieldAt(Upto(q, n), v)
      /\ cells[at[Upto(q, n)] + 1] = Flag(1)
  BY <1>2 DEF Laid, Layout, AroundInv
<1> QED BY <1>3, <1>4 DEF Step

\* An int that the writer wrote is read.
LEMMA ReadIntAgrees ==
  ASSUME NEW v \in Versions, NEW u \in Versions, NEW cells \in Seq(Cell), NEW at, NEW w,
         Laid(at, cells, w, v), NEW s \in Seq(ReadFrame), NEW d, NEW g,
         Agreed(at, cells, s, d, g, v, u), ~s[1].check, ~Last(s).check,
         Last(s).next <= Len(Fields[Last(s).type][u]),
         Fields[Last(s).type][u][Last(s).next] = "int", IsField(Path(s), v)
  PROVE  /\ d < Len(cells) /\ cells[d + 1] = IntCell(Path(s))
         /\ Agreed(at, cells, AfterValue(s), d + 1, g \cup {<<Path(s), IntCell(Path(s))>>}, v, u)
<1> DEFINE p == Path(s)
           h == g \cup {<<p, IntCell(p)>>}
<1>1. OnTrack(at, cells, s, d, v, u) /\ GotRight(at, g, v, u) /\ AllAhead(at, s, g, v, u) BY DEF Agreed
<1>2. /\ Entered(at, cells, s, v, u) /\ Nested(s) /\ s[1].type = Root
      /\ p \in DOMAIN at /\ d = at[p] /\ d \in Nat
      /\ p \in Seq(Step) /\ Len(p) = Len(s) /\ Len(s) \in Nat /\ Len(s) > 0
      /\ FieldAt(p, v) = "int"
  BY <1>1, NextIs
<1>3. cells[d + 1] = IntCell(p) /\ at[NextTo(p)] = d + 1 /\ d < Len(cells)
  <2>1. Complete(at, cells, v, p) /\ NextTo(p) \in DOMAIN at BY <1>2, AllComplete
  <2>2. cells[d + 1] = IntCell(p) /\ at[NextTo(p)] = d + 1 BY <1>2, <2>1 DEF Complete
  <2>3. at[NextTo(p)] <= Len(cells) BY <2>1, LayoutShape DEF Laid
  <2> QED BY <1>2, <2>2, <2>3
<1>4. OnTrack(at, cells, AfterValue(s), d + 1, v, u) BY <1>2, <1>3, Arrive
<1>5. Common(p, v, u) BY <1>2, PathKnown DEF Common
<1>6. GotRight(at, h, v, u)
  <2>1. SUFFICES ASSUME NEW x \in h
                 PROVE  \/ EmptiedBy(Last(x[1])[1], v, u)
                        \/ x[1] \in DOMAIN at /\ Common(x[1], v, u) /\ x[2] = IntCell(x[1])
    BY DEF GotRight
  <2>2. CASE x \in g BY <1>1, <2>2 DEF GotRight
  <2>3. CASE x = <<p, IntCell(p)>> BY <1>2, <1>5, <2>3
  <2> QED BY <2>1, <2>2, <2>3
<1>7. AllAhead(at, AfterValue(s), h, v, u)
  <2>1. SUFFICES ASSUME NEW q \in DOMAIN at, Common(q, v, u)
                 PROVE  (\E x \in h : x[1] = q) \/ Ahead(AfterValue(s), q)
    BY DEF AllAhead
  <2>2. CASE \E x \in g : x[1] = q BY <2>2
  <2>3. CASE q = p
    <3>1. <<p, IntCell(p)>> \in h /\ <<p, IntCell(p)>>[1] = q BY <2>3
    <3> QED BY <3>1
  <2>4. CASE Ahead(s, q) /\ q # p
    <3>1. q \in Seq(Step) BY LayoutShape DEF Laid
    <3>2. ~(Len(q) > Len(s) /\ Upto(q, Len(s)) = p)
      <4>1. SUFFICES ASSUME Len(q) > Len(s), Upto(q, Len(s)) = p PROVE FALSE OBVIOUS
      <4>2. q[Len(s) + 1][1] = FieldAt(p, v) /\ q[Len(s) + 1][1] \in Type BY <1>2, <4>1, Below
      <4> QED BY <1>2, <4>2, ParcelableAssumption
    <3> QED BY <1>2, <2>4, <3>1, <3>2, AheadArrive
  <2> QED BY <1>1, <2>1, <2>2, <2>3, <2>4 DEF AllAhead
<1> QED BY <1>3, <1>4, <1>6, <1>7 DEF Agreed

\* Where a parcelable is that its writer knew no field of.
LEMMA NothingWritten ==
  ASSUME NEW v \in Versions, NEW u \in Versions, NEW cells \in Seq(Cell), NEW at, NEW w,
         Laid(at, cells, w, v), NEW s \in Seq(ReadFrame), Len(s) > 1, Entered(at, cells, s, v, u),
         Len(Fields[Last(s).type][v]) = 0
  PROVE  /\ Last(s).size = 1 /\ Last(s).start \in Nat
         /\ Path(s) \in DOMAIN at /\ Last(s).next = 1 => at[Path(s)] = Last(s).start + 1
<1> DEFINE n == Len(s)
           p == Path(s)
           q == Upto(p, n - 1)
           c == First(q, v)
<1>1. /\ p \in Seq(Step) /\ Len(p) = n /\ n \in Nat
      /\ \A k \in 1 .. n : p[k] = <<s[k].type, s[k].next>>
  BY PathIs, FrameTypes
<1>2. n - 1 \in 1 .. Len(s) - 1 /\ (n - 1) + 1 = n /\ n \in 1 .. n /\ n - 1 \in Nat /\ n - 1 <= n /\ n - 1 > 0
  BY <1>1
<1>3. /\ q \in DOMAIN at /\ IsField(q, v) /\ cells[at[q] + 1] = Flag(1)
      /\ s[n].type = FieldAt(q, v) /\ s[n].start = at[q] + 1
      /\ s[n].size = at[NextTo(q)] - at[q] - 1
  <2>1. /\ Upto(p, n - 1) \in DOMAIN at /\ IsField(Upto(p, n - 1), v)
        /\ cells[at[Upto(p, n - 1)] + 1] = Flag(1)
        /\ s[(n - 1) + 1].type = FieldAt(Upto(p, n - 1), v)
        /\ s[(n - 1) + 1].start = at[Upto(p, n - 1)] + 1
        /\ s[(n - 1) + 1].size = at[NextTo(Upto(p, n - 1))] - at[Upto(p, n - 1)] - 1
    BY <1>2 DEF Entered
  <2> QED BY <1>2, <2>1
<1>4. q \in Seq(Step) /\ Len(q) = n - 1 BY <1>1, <1>2, UptoShape
<1>5. s[n] \in ReadFrame /\ s[n].type \in Type /\ s[n].type # "int"
  <2>1. s[n] \in ReadFrame BY <1>2
  <2> QED BY <2>1, FrameTypes, ParcelableAssumption
<1>6. at[q] \in Nat BY <1>3, LayoutShape DEF Laid
<1>7. c \in DOMAIN at /\ at[c] = at[q] + 2
  <2>1. Complete(at, cells, v, q) BY <1>3, AllComplete
  <2>2. Flag(1) # Flag(0) BY DEF Flag
  <2> QED BY <1>3, <1>5, <2>1, <2>2 DEF Complete
<1>8. /\ c \in Seq(Step) /\ Len(c) = n /\ c[n] = <<s[n].type, 1>> /\ Upto(c, n - 1) = q
  <2>1. <<s[n].type, 1>> \in Step BY <1>5 DEF Step
  <2>2. c = Append(q, <<s[n].type, 1>>) BY <1>3 DEF First
  <2> HIDE DEF c, q
  <2>3. /\ c \in Seq(Step) /\ Len(c) = Len(q) + 1 /\ c[Len(q) + 1] = <<s[n].type, 1>>
        /\ \A k \in 0 .. Len(q) : Upto(c, k) = Upto(q, k)
    BY <1>4, <2>1, <2>2, AppendShape
  <2>4. n - 1 \in 0 .. Len(q) /\ Len(q) + 1 = n BY <1>1, <1>2, <1>4
  <2>5. Upto(q, n - 1) = q BY <1>4, UptoAll
  <2> QED BY <2>3, <2>4, <2>5
<1>9. ~IsField(c, v)
  <2>1. Last(c) = <<s[n].type, 1>> BY <1>8 DEF Last
  <2>2. Len(Fields[s[n].type][v]) = 0 BY DEF Last
  <2> QED BY <2>1, <2>2 DEF IsField, Count
<1> HIDE DEF c, q
<1>10. at[c] = at[NextTo(q)]
  <2>1. Len(c) > 1 /\ q = Upto(c, Len(c) - 1) BY <1>8
  <2> QED BY <1>7, <1>9, <2>1, Inside
<1>11. s[n].size = 1 /\ s[n].start \in Nat /\ s[n].start + 1 = at[c]
  <2>1. \A a, b \in Int : b = a + 2 => b - a - 1 = 1 /\ (a + 1) + 1 = b OBVIOUS
  <2> QED BY <1>3, <1>6, <1>7, <1>10, <2>1
<1>12. ASSUME p \in DOMAIN at, s[n].next = 1 PROVE p = c
  <2>1. p[n] = c[n] BY <1>1, <1>2, <1>8, <1>12
  <2>2. Upto(p, n - 1) = Upto(c, n - 1) BY <1>8 DEF q
  <2>3. n \in Nat /\ n > 0 /\ p \in Seq(Step) /\ Len(p) = n BY <1>1, <1>2
  <2> HIDE DEF n, p
  <2> QED BY <1>8, <2>1, <2>2, <2>3, PathEqual
<1> QED BY <1>11, <1>12 DEF Last

\* An int is read that the writer did not know.
LEMMA ReadUnwritten ==
  ASSUME NEW v \in Versions, NEW u \in Versions, NEW cells \in Seq(Cell), NEW at, NEW w,
         Laid(at, cells, w, v), NEW s \in Seq(ReadFrame), NEW d, NEW g,
         Agreed(at, cells, s, d, g, v, u), ~s[1].check, ~Last(s).check,
         Last(s).next <= Len(Fields[Last(s).type][u]), ~IsField(Path(s), v),
         NEW e \in {d, d + 1}, NEW y
  PROVE  Agreed(at, cells, AfterValue(s), e, g \cup {<<Path(s), y>>}, v, u)
<1> DEFINE p == Path(s)
           h == g \cup {<<p, y>>}
           t == AfterValue(s)
           n == Len(s)
<1>1. OnTrack(at, cells, s, d, v, u) /\ GotRight(at, g, v, u) /\ AllAhead(at, s, g, v, u) BY DEF Agreed
<1>2. /\ Entered(at, cells, s, v, u) /\ Nested(s) /\ s[1].type = Root
      /\ p \in DOMAIN at /\ d = at[p] /\ d \in Nat
      /\ p \in Seq(Step) /\ Len(p) = n /\ n \in Nat /\ n > 1
      /\ Last(p) = <<Last(s).type, Last(s).next>>
      /\ EmptiedBy(Last(s).type, v, u) /\ Last(s).next = 1
  BY <1>1, NextIs
<1>3. d = Last(s).start + 1 /\ Last(s).start \in Nat BY <1>2, NothingWritten DEF EmptiedBy
<1>4. /\ t \in Seq(ReadFrame) /\ Len(t) = n
      /\ \A k \in 1 .. n - 1 : t[k] = s[k]
      /\ \A k \in 1 .. n : t[k].start = s[k].start /\ t[k].size = s[k].size /\ t[k].type = s[k].type
      /\ t[n].next = s[n].next /\ t[n].check
  BY <1>2, AfterValueIs
<1>5. n \in 1 .. n /\ 1 \in 1 .. n - 1 BY <1>2
<1>6. Path(t) = p BY <1>2, AfterValueIs
<1> HIDE DEF t, n, p
<1>7. Entered(at, cells, t, v, u) /\ Nested(t)
  <2>1. Len(t) > 0 /\ Len(t) <= Len(s) BY <1>2, <1>4 DEF n
  <2>2. /\ \A k \in 1 .. Len(t) - 1 : t[k] = s[k]
        /\ t[Len(t)].type = s[Len(t)].type /\ t[Len(t)].start = s[Len(t)].start
        /\ t[Len(t)].size = s[Len(t)].size
    BY <1>4, <1>5
  <2>3. t \in Seq(ReadFrame) BY <1>4
  <2> QED BY <1>2, <2>1, <2>2, <2>3, EnteredStays
<1>8. AfterField(at, t, e, v, u)
  <2>1. /\ Last(t).check /\ Last(t).next = Last(s).next /\ Last(t).type = Last(s).type
        /\ Last(t).start = Last(s).start
    BY <1>4, <1>5 DEF Last, n
  <2>2. e \in {Last(s).start + 1, Last(s).start + 2} BY <1>3
  <2>3. Len(Fields[Last(s).type][v]) = 0 BY <1>2 DEF EmptiedBy
  <2> QED BY <1>2, <1>4, <2>1, <2>2, <2>3 DEF AfterField
<1>9. OnTrack(at, cells, t, e, v, u)
  <2>1. t[1].type = Root BY <1>2, <1>4, <1>5
  <2> QED BY <1>2, <1>4, <1>7, <1>8, <2>1 DEF OnTrack
<1>10. GotRight(at, h, v, u)
  <2>1. SUFFICES ASSUME NEW x \in h
                 PROVE  \/ EmptiedBy(Last(x[1])[1], v, u)
                        \/ x[1] \in DOMAIN at /\ Common(x[1], v, u) /\ x[2] = IntCell(x[1])
    BY DEF GotRight
  <2>2. CASE x \in g BY <1>1, <2>2 DEF GotRight
  <2>3. CASE x = <<p, y>> BY <1>2, <2>3
  <2> QED BY <2>1, <2>2, <2>3
<1>11. AllAhead(at, t, h, v, u)
  <2>1. SUFFICES ASSUME NEW q \in DOMAIN at, Common(q, v, u), ~(\E x \in h : x[1] = q)
                 PROVE  Ahead(t, q)
    BY DEF AllAhead
  <2>2. Ahead(s, q) BY <1>1, <2>1 DEF AllAhead
  <2>3. q # p BY <2>1 DEF Common, p
  <2>4. q \in Seq(Step) BY LayoutShape DEF Laid
  <2>5. ~(Len(q) > n /\ Upto(q, n) = p)
    <3>1. SUFFICES ASSUME Len(q) > n, Upto(q, n) = p PROVE FALSE OBVIOUS
    <3>2. IsField(p, v) BY <1>2, <3>1, Below
    <3> QED BY <3>2 DEF p
  <2>6. Len(s) > 0 BY <1>2 DEF n
  <2> QED BY <2>2, <2>3, <2>4, <2>5, <2>6, AheadArrive DEF t, n, p
<1> QED BY <1>9, <1>10, <1>11 DEF Agreed, t, p

\* Where a parcelable comes next, its flag does.
LEMMA ParcelableNext ==
  ASSUME NEW v \in Versions, NEW u \in Versions, NEW cells \in Seq(Cell), NEW at, NEW w,
         Laid(at, cells, w, v), NEW s \in Seq(ReadFrame), NEW d, OnTrack(at, cells, s, d, v, u),
         ~Last(s).check, Last(s).next <= Len(Fields[Last(s).type][u]),
         Fields[Last(s).type][u][Last(s).next] # "int",
         \A t \in Type : EmptiedBy(t, v, u) => Fields[t][u][1] = "int"
  PROVE  /\ IsField(Path(s), v) /\ FieldAt(Path(s), v) = Fields[Last(s).type][u][Last(s).next]
         /\ \/ d < Len(cells) /\ cells[d + 1] = Flag(0) /\ at[NextTo(Path(s))] = d + 1
            \/ d + 1 < Len(cells) /\ cells[d + 1] = Flag(1) /\ cells[d + 2][1] = "size"
<1> DEFINE p == Path(s)
<1>1. /\ p \in DOMAIN at /\ d = at[p] /\ d \in Nat
      /\ IsField(p, v) /\ FieldAt(p, v) = Fields[Last(s).type][u][Last(s).next]
  <2>1. /\ p \in DOMAIN at /\ d = at[p] /\ d \in Nat /\ Last(s).type \in Type
        /\ \/ /\ IsField(p, v)
              /\ FieldAt(p, v) = Fields[Last(s).type][u][Last(s).next]
           \/ EmptiedBy(Last(s).type, v, u) /\ Last(s).next = 1
    BY NextIs
  <2> QED BY <2>1
<1> HIDE DEF p
<1>2. Complete(at, cells, v, p) /\ NextTo(p) \in DOMAIN at BY <1>1, AllComplete
<1>3. Len(cells) \in Nat OBVIOUS
<1>4. CASE cells[at[p] + 1] = Flag(0) /\ at[NextTo(p)] = at[p] + 1
  <2>1. at[NextTo(p)] <= Len(cells) BY <1>2, LayoutShape DEF Laid
  <2>2. d < Len(cells) BY <1>1, <1>3, <1>4, <2>1
  <2> QED BY <1>1, <1>4, <2>2 DEF p
<1>5. CASE /\ cells[at[p] + 1] = Flag(1)
           /\ cells[at[p] + 2] = SizeOf(at[NextTo(p)] - at[p] - 1)
           /\ First(p, v) \in DOMAIN at /\ at[First(p, v)] = at[p] + 2
  <2>1. at[First(p, v)] <= Len(cells) BY <1>5, LayoutShape DEF Laid
  <2>2. d + 1 < Len(cells) BY <1>1, <1>3, <1>5, <2>1
  <2>3. cells[d + 2][1] = "size" BY <1>1, <1>5 DEF SizeOf
  <2> QED BY <1>1, <1>5, <2>2, <2>3 DEF p
<1>6. FieldAt(p, v) # "int" BY <1>1
<1> QED BY <1>2, <1>4, <1>5, <1>6 DEF Complete

\* A null reference is read.
LEMMA ReadNullAgrees ==
  ASSUME NEW v \in Versions, NEW u \in Versions, NEW cells \in Seq(Cell), NEW at, NEW w,
         Laid(at, cells, w, v), NEW s \in Seq(ReadFrame), NEW d, NEW g,
         Agreed(at, cells, s, d, g, v, u), ~s[1].check, ~Last(s).check,
         Last(s).next <= Len(Fields[Last(s).type][u]),
         IsField(Path(s), v), FieldAt(Path(s), v) # "int",
         cells[d + 1] = Flag(0), at[NextTo(Path(s))] = d + 1
  PROVE  Agreed(at, cells, AfterValue(s), d + 1, g, v, u)
<1> DEFINE p == Path(s)
<1>1. OnTrack(at, cells, s, d, v, u) /\ GotRight(at, g, v, u) /\ AllAhead(at, s, g, v, u) BY DEF Agreed
<1>2. /\ Entered(at, cells, s, v, u) /\ Nested(s) /\ s[1].type = Root
      /\ p \in DOMAIN at /\ d = at[p]
      /\ Len(s) \in Nat /\ Len(s) > 0
  BY <1>1, NextIs
<1>3. OnTrack(at, cells, AfterValue(s), d + 1, v, u) BY <1>2, Arrive
<1>4. AllAhead(at, AfterValue(s), g, v, u)
  <2>1. SUFFICES ASSUME NEW q \in DOMAIN at, Common(q, v, u), Ahead(s, q)
                 PROVE  Ahead(AfterValue(s), q)
    BY <1>1 DEF AllAhead
  <2>2. q # p BY <2>1 DEF Common
  <2>3. q \in Seq(Step) BY LayoutShape DEF Laid
  <2>4. ~(Len(q) > Len(s) /\ Upto(q, Len(s)) = p)
    <3>1. SUFFICES ASSUME Len(q) > Len(s), Upto(q, Len(s)) = p PROVE FALSE OBVIOUS
    <3>2. cells[d + 1] = Flag(1) BY <1>2, <3>1, Below
    <3> QED BY <3>2 DEF Flag
  <2> QED BY <1>2, <2>1, <2>2, <2>3, <2>4, AheadArrive
<1> QED BY <1>1, <1>3, <1>4 DEF Agreed

\* A parcelable is entered.
LEMMA EnterAgrees ==
  ASSUME NEW v \in Versions, NEW u \in Versions, NEW cells \in Seq(Cell), NEW at, NEW w,
         Laid(at, cells, w, v), NEW s \in Seq(ReadFrame), NEW d, NEW g,
         Agreed(at, cells, s, d, g, v, u), ~Last(s).check,
         Last(s).next <= Len(Fields[Last(s).type][u]),
         IsField(Path(s), v), FieldAt(Path(s), v) # "int", cells[d + 1] = Flag(1),
         NEW f \in ReadFrame, f.type = FieldAt(Path(s), v), f.next = 1, f.start = d + 1,
         f.size = cells[d + 2][2], ~f.check
  PROVE  Agreed(at, cells, Append(s, f), d + 2, g, v, u)
<1> DEFINE p == Path(s)
<1>1. OnTrack(at, cells, s, d, v, u) /\ GotRight(at, g, v, u) /\ AllAhead(at, s, g, v, u) BY DEF Agreed
<1>2. AtField(at, s, d, v) /\ p \in DOMAIN at /\ Len(s) \in Nat /\ Len(s) > 0 BY <1>1, NextIs
<1>3. OnTrack(at, cells, Append(s, f), d + 2, v, u) BY <1>1, <1>2, Enter
<1>4. AllAhead(at, Append(s, f), g, v, u)
  <2>1. SUFFICES ASSUME NEW q \in DOMAIN at, Common(q, v, u), Ahead(s, q)
                 PROVE  Ahead(Append(s, f), q)
    BY <1>1 DEF AllAhead
  <2>2. q # p BY <2>1 DEF Common
  <2>3. q \in Seq(Step) BY LayoutShape DEF Laid
  <2>4. Len(q) > Len(s) /\ Upto(q, Len(s)) = p => q[Len(s) + 1][1] = f.type BY <1>2, Below
  <2> QED BY <1>2, <2>1, <2>2, <2>3, <2>4, AheadEnter
<1> QED BY <1>1, <1>3, <1>4 DEF Agreed

\* A parcelable is left at its end: nothing in it that both know is ahead.
LEMMA LeaveAgrees ==
  ASSUME NEW v \in Versions, NEW u \in Versions, NEW cells \in Seq(Cell), NEW at, NEW w,
         Laid(at, cells, w, v), NEW s \in Seq(ReadFrame), Len(s) > 1, NEW d, NEW g,
         Agreed(at, cells, s, d, g, v, u), ~s[1].check,
         \/ Last(s).next > Len(Fields[Last(s).type][u])
         \/ Last(s).check /\ Last(s).next + 1 > Len(Fields[Last(s).type][v])
  PROVE  Agreed(at, cells, AfterValue(Pop(s)), Last(s).start + Last(s).size, g, v, u)
<1> DEFINE n == Len(s)
           t == Last(s).type
           i == Last(s).next
           r == AfterValue(Pop(s))
<1>1. OnTrack(at, cells, s, d, v, u) /\ GotRight(at, g, v, u) /\ AllAhead(at, s, g, v, u) BY DEF Agreed
<1>2. OnTrack(at, cells, r, Last(s).start + Last(s).size, v, u) BY <1>1, Leave
<1>3. n \in Nat /\ n \in 1 .. n /\ i \in Nat /\ t \in Type
  <2>1. n \in Nat /\ n \in 1 .. n OBVIOUS
  <2>2. s[n] \in ReadFrame BY <2>1
  <2> QED BY <2>1, <2>2, FrameTypes DEF Last
<1> HIDE DEF n, t, i, r
<1>4. AllAhead(at, r, g, v, u)
  <2>1. SUFFICES ASSUME NEW q \in DOMAIN at, Common(q, v, u), Ahead(s, q), ~Ahead(r, q)
                 PROVE  FALSE
    BY <1>1 DEF AllAhead
  <2>2. q \in Seq(Step) BY LayoutShape DEF Laid
  <2>3. /\ n <= Len(q) /\ q[n][1] = t
        /\ q[n][2] > i \/ (~Last(s).check /\ q[n][2] = i)
    BY <2>1, <2>2, AheadLeave DEF n, t, i, r
  <2>4. n \in 1 .. Len(q) BY <1>3, <2>2, <2>3
  <2>5. q[n][2] <= Len(Fields[t][v]) /\ q[n] \in Step BY <2>1, <2>3, <2>4, WithinFields DEF Laid, Common
  <2>6. q[n][2] <= Len(Fields[t][u]) BY <2>1, <2>3, <2>4 DEF Common
  <2>7. Len(Fields[t][v]) \in Nat /\ Len(Fields[t][u]) \in Nat BY <1>3, FieldsAreTyped
  <2>8. q[n][2] \in Nat BY <2>5 DEF Step
  <2>9. i > Len(Fields[t][u]) \/ (Last(s).check /\ i + 1 > Len(Fields[t][v])) BY DEF i, t
  <2> QED BY <1>3, <2>3, <2>5, <2>6, <2>7, <2>8, <2>9
<1> QED BY <1>1, <1>2, <1>4 DEF Agreed, r

\* The data position and the end of a parcelable, once a field of it was read.
LEMMA CheckedEnd ==
  ASSUME NEW v \in Versions, NEW u \in Versions, NEW cells \in Seq(Cell), NEW at, NEW w,
         Laid(at, cells, w, v), NEW s \in Seq(ReadFrame), NEW d,
         OnTrack(at, cells, s, d, v, u), Last(s).check
  PROVE  /\ Len(s) > 1 /\ Last(s).start \in Nat /\ Last(s).size \in Nat /\ d \in Nat
         /\ \/ /\ d - Last(s).start >= Last(s).size
               /\ Last(s).next + 1 > Len(Fields[Last(s).type][v])
            \/ /\ ~(d - Last(s).start >= Last(s).size)
               /\ Path(s) \in DOMAIN at /\ IsField(Path(s), v) /\ d = at[NextTo(Path(s))]
               /\ IsField(NextTo(Path(s)), v)
<1> DEFINE n == Len(s)
           p == Path(s)
           t == Last(s).type
           i == Last(s).next
           c == NextTo(p)
           q == Upto(c, n - 1)
<1>1. /\ AfterField(at, s, d, v, u) /\ n > 1 /\ Entered(at, cells, s, v, u)
  BY DEF OnTrack, AtField, AfterField
<1>2. /\ p \in Seq(Step) /\ Len(p) = n /\ n \in Nat
      /\ \A k \in 1 .. n : p[k] = <<s[k].type, s[k].next>>
  BY PathIs, FrameTypes
<1>3. n \in 1 .. n /\ n - 1 \in 1 .. n - 1 /\ n - 1 \in 0 .. n - 1 /\ (n - 1) + 1 = n BY <1>1, <1>2
<1>4. s[n] \in ReadFrame BY <1>3
<1>5. Last(s).start \in Nat /\ Last(s).size \in Nat /\ i \in Nat \ {0} /\ t \in Type
  BY <1>4 DEF Last, ReadFrame
<1>6. CASE Len(Fields[t][v]) = 0 /\ i = 1 /\ d \in {Last(s).start + 1, Last(s).start + 2}
  <2>1. Last(s).size = 1 BY <1>1, <1>6, NothingWritten
  <2> HIDE DEF n, p, c, q
  <2>2. d - Last(s).start >= Last(s).size BY <1>5, <1>6, <2>1
  <2>3. i + 1 > Len(Fields[t][v]) BY <1>6
  <2>4. d \in Nat BY <1>5, <1>6
  <2> QED BY <1>1, <1>5, <2>2, <2>3, <2>4 DEF n
<1>7. CASE p \in DOMAIN at /\ IsField(p, v) /\ d = at[c]
  <2>1. c \in DOMAIN at BY <1>7, AllComplete
  <2>2. /\ Len(c) = n /\ c[n] = <<p[n][1], p[n][2] + 1>> /\ q = Upto(p, n - 1)
    BY <1>1, <1>2, <1>3, NextToShape
  <2> HIDE DEF n, p, c, q, t, i
  <2>3. Last(c) = <<t, i + 1>> BY <1>2, <1>3, <2>2 DEF t, i, Last, n
  <2>4. IsField(c, v) <=> i + 1 <= Len(Fields[t][v]) BY <2>3 DEF IsField, Count
  <2>5. /\ at[q] \in Nat /\ at[c] \in Nat /\ at[NextTo(q)] \in Nat
        /\ IF IsField(c, v) THEN at[c] < at[NextTo(q)] ELSE at[c] = at[NextTo(q)]
    <3>1. Len(c) > 1 /\ q = Upto(c, Len(c) - 1) BY <1>1, <2>2 DEF q
    <3> QED BY <2>1, <3>1, Inside
  <2>6. s[n].start = at[q] + 1 /\ s[n].size = at[NextTo(q)] - at[q] - 1
    <3>1. /\ s[(n - 1) + 1].start = at[Upto(p, n - 1)] + 1
          /\ s[(n - 1) + 1].size = at[NextTo(Upto(p, n - 1))] - at[Upto(p, n - 1)] - 1
      BY <1>1, <1>3 DEF Entered, n, p
    <3> QED BY <1>3, <2>2, <3>1
  <2>7. Last(s).start = at[q] + 1 /\ Last(s).size = at[NextTo(q)] - at[q] - 1 BY <2>6 DEF Last, n
  <2>8. d - Last(s).start >= Last(s).size <=> d >= at[NextTo(q)]
    <3>1. \A a, b, e \in Nat : e - (a + 1) >= b - a - 1 <=> e >= b OBVIOUS
    <3> QED BY <1>7, <2>5, <2>7, <3>1
  <2>9. Len(Fields[t][v]) \in Nat BY <1>5, FieldsAreTyped
  <2>10. CASE IsField(c, v)
    <3>1. ~(d >= at[NextTo(q)]) BY <1>7, <2>5, <2>10
    <3> QED BY <1>1, <1>5, <1>7, <2>5, <2>8, <2>10, <3>1 DEF c, p, n
  <2>11. CASE ~IsField(c, v)
    <3>1. d >= at[NextTo(q)] BY <1>7, <2>5, <2>11
    <3>2. i + 1 > Len(Fields[t][v]) BY <1>5, <2>4, <2>9, <2>11
    <3> QED BY <1>1, <1>5, <1>7, <2>5, <2>8, <3>1, <3>2 DEF c, p, n, t, i
  <2> QED BY <2>10, <2>11
<1> QED BY <1>1, <1>6, <1>7 DEF AfterField

\* The reader goes on with the next field of a parcelable.
LEMMA AdvanceAgrees ==
  ASSUME NEW v \in Versions, NEW u \in Versions, NEW cells \in Seq(Cell), NEW at, NEW w,
         Laid(at, cells, w, v), NEW s \in Seq(ReadFrame), NEW d, NEW g,
         Agreed(at, cells, s, d, g, v, u), Last(s).check, Len(s) > 0,
         Path(s) \in DOMAIN at, IsField(Path(s), v), d = at[NextTo(Path(s))], IsField(NextTo(Path(s)), v),
         NEW t, t = [s EXCEPT ![Len(s)] = NextField(@)]
  PROVE  Agreed(at, cells, t, d, g, v, u)
<1>1. OnTrack(at, cells, s, d, v, u) /\ GotRight(at, g, v, u) /\ AllAhead(at, s, g, v, u) BY DEF Agreed
<1>2. OnTrack(at, cells, t, d, v, u) BY <1>1, Advance
<1>3. AllAhead(at, t, g, v, u)
  <2>1. SUFFICES ASSUME NEW q \in DOMAIN at, Common(q, v, u), Ahead(s, q) PROVE Ahead(t, q)
    BY <1>1 DEF AllAhead
  <2>2. q \in Seq(Step) BY LayoutShape DEF Laid
  <2> QED BY <2>1, <2>2, AheadNext
<1> QED BY <1>1, <1>2, <1>3 DEF Agreed

\* A reader that knows no more fields is at the end, or where newer ones are.
LEMMA EndIs ==
  ASSUME NEW v \in Versions, NEW u \in Versions, NEW cells \in Seq(Cell), NEW at, NEW w,
         Laid(at, cells, w, v), NEW s \in Seq(ReadFrame), Len(s) > 1, NEW d,
         OnTrack(at, cells, s, d, v, u), ~Last(s).check, Last(s).next > Len(Fields[Last(s).type][u])
  PROVE  \/ d = Last(s).start + Last(s).size
         \/ Len(Fields[Last(s).type][v]) > Len(Fields[Last(s).type][u])
<1> DEFINE n == Len(s)
           p == Path(s)
           q == Upto(p, n - 1)
<1>1. /\ AtField(at, s, d, v) /\ p \in DOMAIN at /\ d = at[p]
  BY DEF OnTrack, AtField, AfterField
<1>2. /\ p \in Seq(Step) /\ Len(p) = n /\ n \in Nat
      /\ \A k \in 1 .. n : p[k] = <<s[k].type, s[k].next>>
  BY PathIs, FrameTypes
<1>3. n \in 1 .. n BY <1>2
<1>4. s[n] \in ReadFrame BY <1>3
<1>5. Last(s).type \in Type /\ Last(s).next \in Nat BY <1>4, FrameTypes DEF Last
<1>6. Last(p) = <<Last(s).type, Last(s).next>> BY <1>2, <1>3 DEF Last
<1>7. Len(Fields[Last(s).type][v]) \in Nat /\ Len(Fields[Last(s).type][u]) \in Nat BY <1>5, FieldsAreTyped
<1> HIDE DEF n, p, q
<1>8. CASE IsField(p, v)
  <2>1. Last(s).next <= Len(Fields[Last(s).type][v]) BY <1>6, <1>8 DEF IsField, Count
  <2> QED BY <1>5, <1>7, <2>1
<1>9. CASE ~IsField(p, v)
  <2>1. at[p] = at[NextTo(q)] /\ at[q] \in Nat /\ at[p] \in Nat
    <3>1. Len(p) > 1 /\ q = Upto(p, Len(p) - 1) BY <1>2 DEF n, q
    <3> QED BY <1>1, <1>9, <3>1, Inside
  <2>2. Last(s).start + Last(s).size = at[NextTo(q)] BY Leave DEF q, p, n
  <2> QED BY <1>1, <2>1, <2>2
<1> QED BY <1>8, <1>9

\* The reader starts with the first field.
LEMMA StartAgrees ==
  ASSUME NEW v \in Versions, NEW u \in Versions, NEW cells \in Seq(Cell), NEW at, NEW w,
         Laid(at, cells, w, v),
         NEW f \in ReadFrame, f.type = Root, f.next = 1, ~f.check
  PROVE  Agreed(at, cells, <<f>>, 0, {}, v, u)
<1> DEFINE s == <<f>>
<1>1. s \in Seq(ReadFrame) /\ Len(s) = 1 /\ s[1] = f OBVIOUS
<1> HIDE DEF s
<1>2. /\ Path(s) \in Seq(Step) /\ Len(Path(s)) = Len(s)
      /\ \A k \in 1 .. Len(s) : Path(s)[k] = <<s[k].type, s[k].next>>
  BY <1>1, PathIs, FrameTypes
<1>3. Path(s) = Begin
  <2>1. Begin \in Seq(Step) /\ Len(Begin) = 1 /\ Begin[1] = <<Root, 1>>
    <3>1. <<Root, 1>> \in Step BY ParcelableAssumption DEF Step
    <3> QED BY <3>1 DEF Begin
  <2>2. \A k \in 1 .. Len(s) : Begin[k] = <<s[k].type, s[k].next>> BY <1>1, <2>1
  <2>3. Len(Begin) = Len(s) BY <1>1, <2>1
  <2> QED BY <1>1, <2>1, <2>2, <2>3, FrameTypes, SamePath
<1>4. Begin \in DOMAIN at /\ at[Begin] = 0 BY DEF Laid, Layout, PlacesInv
<1>5. AtField(at, s, 0, v) BY <1>1, <1>3, <1>4 DEF AtField, Last
<1>6. Entered(at, cells, s, v, u) /\ Nested(s)
  <2>1. \A k \in 1 .. Len(s) - 1 : FALSE BY <1>1
  <2>2. \A j, k \in 1 .. Len(s) : ~(1 < j /\ j < k) BY <1>1
  <2> QED BY <2>1, <2>2 DEF Entered, Nested
<1>7. OnTrack(at, cells, s, 0, v, u) BY <1>1, <1>5, <1>6 DEF OnTrack
<1>8. AllAhead(at, s, {}, v, u)
  <2>1. SUFFICES ASSUME NEW q \in DOMAIN at, Common(q, v, u) PROVE Ahead(s, q) BY DEF AllAhead
  <2>2. q \in Seq(Step) /\ Len(q) \in Nat /\ Len(q) > 0 /\ q[1][1] = Root BY LayoutShape DEF Laid
  <2>3. q[1] \in Step /\ 1 <= Len(q)
    <3>1. 1 \in 1 .. Len(q) BY <2>2
    <3> QED BY <2>2, <3>1
  <2>4. q[1][2] > 1 \/ q[1][2] = 1 BY <2>3 DEF Step
  <2>5. Upto(q, 1 - 1) = Upto(Path(s), 1 - 1)
    <3>1. 0 \in Nat /\ 0 <= Len(q) /\ 0 <= Len(Path(s)) /\ 1 - 1 = 0 BY <1>1, <1>2, <2>2
    <3>2. \A j \in 1 .. 0 : q[j] = Path(s)[j] OBVIOUS
    <3>3. Upto(q, 0) = Upto(Path(s), 0) BY <1>2, <2>2, <3>1, <3>2, UptoSame
    <3> QED BY <3>1, <3>3
  <2>6. 1 \in 1 .. Len(s) BY <1>1
  <2> QED BY <1>1, <2>2, <2>3, <2>4, <2>5, <2>6 DEF Ahead
<1>9. GotRight(at, {}, v, u) BY DEF GotRight
<1> QED BY <1>7, <1>8, <1>9 DEF Agreed, s

-----------------------------------------------------------------------------
(* Reader and writer agree.                                                *)

\* at is where the writer put every field.
LayoutInv(at) ==
  /\ LaidOut(at)
  /\ outcome = "write" => got = {} /\ pos = 0
  /\ outcome # "write" /\ ~Unskipped /\ ~Strays =>
       Agreed(at, parcel, reading, pos, got, written, known) /\ outcome # "misread"
  /\ outcome = "done" => Len(reading) = 1 /\ Reading.next > Len(ToRead)

LEMMA WriterKeeps ==
  ASSUME NEW at, LayoutInv(at), outcome = "write", UNCHANGED <<pos, outcome, got>>,
         \E to : LaidOut(to)'
  PROVE  \E to : LayoutInv(to)'
<1>1. PICK to : LaidOut(to)' OBVIOUS
<1>2. got' = {} /\ pos' = 0 /\ outcome' = "write" BY DEF LayoutInv
<1>3. LayoutInv(to)' BY <1>1, <1>2 DEF LayoutInv
<1> QED BY <1>3

LEMMA ReaderKeeps ==
  ASSUME NEW at, LayoutInv(at), outcome = "read", outcome' # "write", UNCHANGED <<config, parcel, writing>>,
         ~Unskipped /\ ~Strays =>
           Agreed(at, parcel, reading', pos', got', written, known) /\ outcome' # "misread",
         outcome' = "done" => Len(reading') = 1 /\ Reading'.next > Len(ToRead')
  PROVE  LayoutInv(at)'
<1>1. /\ written' = written /\ known' = known /\ readerLang' = readerLang
      /\ parcel' = parcel /\ writing' = writing
  BY DEF config
<1>2. LaidOut(at)' BY <1>1 DEF LayoutInv, LaidOut
<1>3. (Unskipped' <=> Unskipped) /\ (Strays' <=> Strays)
  BY <1>1 DEF Unskipped, Strays, Newer, Emptied
<1> QED BY <1>1, <1>2, <1>3 DEF LayoutInv

\* What is known when a reader's step is taken and the exceptions are not.
LEMMA AgreedFacts ==
  ASSUME IInv, NEW at, LayoutInv(at), outcome = "read", ~Unskipped, ~Strays
  PROVE  /\ Laid(at, parcel, Path(writing), written)
         /\ Agreed(at, parcel, reading, pos, got, written, known)
         /\ OnTrack(at, parcel, reading, pos, written, known)
         /\ written \in Versions /\ known \in Versions /\ parcel \in Seq(Cell)
         /\ reading \in Seq(ReadFrame) /\ Len(reading) \in Nat /\ Len(reading) > 0 /\ ~reading[1].check
         /\ Reading = Last(reading) /\ ToRead = Fields[Last(reading).type][known]
         /\ pos \in Nat /\ Len(parcel) \in Nat
         /\ \A t \in Type : EmptiedBy(t, written, known) => Fields[t][known][1] = "int"
         /\ readerLang = "CPP" => \A t \in Type : ~(Len(Fields[t][written]) > Len(Fields[t][known]))
<1>1. Agreed(at, parcel, reading, pos, got, written, known) BY DEF LayoutInv
<1>2. Laid(at, parcel, Path(writing), written)
  <2>1. Len(Path(writing)) = Len(writing) BY WriterFacts
  <2> QED BY <2>1 DEF LayoutInv, LaidOut, Laid
<1>3. written \in Versions BY WriterFacts
<1>4. \A t \in Type : EmptiedBy(t, written, known) => Fields[t][known][1] = "int"
  BY DEF Strays, Emptied, EmptiedBy
<1>5. readerLang = "CPP" => \A t \in Type : ~(Len(Fields[t][written]) > Len(Fields[t][known]))
  BY DEF Unskipped, Newer
<1> QED BY <1>1, <1>2, <1>3, <1>4, <1>5, ReaderFacts DEF Agreed, Reading, ToRead

LEMMA AbortKeeps ==
  ASSUME NEW at, LayoutInv(at), outcome = "read", Abort("error")
  PROVE  LayoutInv(at)'
<1>1. outcome' = "error" /\ UNCHANGED <<config, parcel, writing, reading, pos, got>> BY DEF Abort
<1>2. ~Unskipped /\ ~Strays => Agreed(at, parcel, reading', pos', got', written, known)
  BY <1>1 DEF LayoutInv
<1> QED BY <1>1, <1>2, ReaderKeeps

LEMMA ReadIntKeeps == ASSUME IInv, NEW at, LayoutInv(at), ReadInt PROVE LayoutInv(at)'
<1>1. /\ outcome = "read" /\ ~Reading.check /\ Reading.next <= Len(ToRead)
      /\ ToRead[Reading.next] = "int"
  BY DEF ReadInt, Wants
<1>2. CASE Abort("error") BY <1>1, <1>2, AbortKeeps
<1>3. CASE /\ got' = got \cup {<<Path(reading), CellAt(pos)>>}
           /\ pos' = IF pos < Len(parcel) THEN pos + 1 ELSE pos
           /\ reading' = AfterValue(reading)
           /\ UNCHANGED <<config, parcel, writing, outcome>>
  <2>1. ASSUME ~Unskipped, ~Strays
        PROVE  Agreed(at, parcel, reading', pos', got', written, known)
    <3> DEFINE w == Path(writing)
    <3>1. /\ Laid(at, parcel, w, written)
          /\ Agreed(at, parcel, reading, pos, got, written, known)
          /\ written \in Versions /\ known \in Versions /\ parcel \in Seq(Cell)
          /\ reading \in Seq(ReadFrame) /\ ~reading[1].check /\ pos \in Nat
          /\ ~Last(reading).check
          /\ Last(reading).next <= Len(Fields[Last(reading).type][known])
          /\ Fields[Last(reading).type][known][Last(reading).next] = "int"
      BY <1>1, <2>1, AgreedFacts
    <3> HIDE DEF w
    <3>2. CASE IsField(Path(reading), written)
      <4>1. /\ pos < Len(parcel) /\ parcel[pos + 1] = IntCell(Path(reading))
            /\ Agreed(at, parcel, AfterValue(reading), pos + 1,
                      got \cup {<<Path(reading), IntCell(Path(reading))>>}, written, known)
        BY <3>1, <3>2, ReadIntAgrees
      <4>2. CellAt(pos) = IntCell(Path(reading)) /\ pos' = pos + 1 BY <1>3, <4>1 DEF CellAt
      <4> QED BY <1>3, <4>1, <4>2
    <3>3. CASE ~IsField(Path(reading), written)
      <4>1. pos' \in {pos, pos + 1} BY <1>3
      <4> QED BY <1>3, <3>1, <3>3, <4>1, ReadUnwritten
    <3> QED BY <3>2, <3>3
  <2>2. outcome' = "read" BY <1>1, <1>3
  <2> QED BY <1>1, <1>3, <2>1, <2>2, ReaderKeeps
<1> QED BY <1>2, <1>3 DEF ReadInt

LEMMA ReadParcelableKeeps == ASSUME IInv, NEW at, LayoutInv(at), ReadParcelable PROVE LayoutInv(at)'
<1> DEFINE w == Path(writing)
           p == Path(reading)
           f == [type |-> ToRead[Reading.next], next |-> 1, start |-> pos + 1,
                 size |-> CellAt(pos + 1)[2], check |-> FALSE]
<1>1. /\ outcome = "read" /\ ~Reading.check /\ Reading.next <= Len(ToRead)
      /\ ToRead[Reading.next] # "int"
  BY DEF ReadParcelable, Wants
<1>2. ASSUME ~Unskipped, ~Strays
      PROVE  /\ Laid(at, parcel, w, written)
             /\ Agreed(at, parcel, reading, pos, got, written, known)
             /\ written \in Versions /\ known \in Versions /\ parcel \in Seq(Cell)
             /\ reading \in Seq(ReadFrame) /\ ~reading[1].check /\ pos \in Nat
             /\ ~Last(reading).check
             /\ Last(reading).next <= Len(Fields[Last(reading).type][known])
             /\ IsField(p, written) /\ FieldAt(p, written) = ToRead[Reading.next]
             /\ \/ /\ CellAt(pos) = Flag(0) /\ parcel[pos + 1] = Flag(0)
                   /\ at[NextTo(p)] = pos + 1
                \/ /\ CellAt(pos) = Flag(1) /\ parcel[pos + 1] = Flag(1)
                   /\ CellAt(pos + 1) = parcel[pos + 2] /\ parcel[pos + 2][1] = "size"
                   /\ pos + 2 \in 1 .. Len(parcel)
  <2>1. /\ Laid(at, parcel, w, written)
        /\ Agreed(at, parcel, reading, pos, got, written, known)
        /\ OnTrack(at, parcel, reading, pos, written, known)
        /\ written \in Versions /\ known \in Versions /\ parcel \in Seq(Cell)
        /\ reading \in Seq(ReadFrame) /\ ~reading[1].check /\ pos \in Nat /\ Len(parcel) \in Nat
        /\ ~Last(reading).check
        /\ Last(reading).next <= Len(Fields[Last(reading).type][known])
        /\ Fields[Last(reading).type][known][Last(reading).next] # "int"
        /\ ToRead[Reading.next] = Fields[Last(reading).type][known][Last(reading).next]
        /\ \A t \in Type : EmptiedBy(t, written, known) => Fields[t][known][1] = "int"
    BY <1>1, <1>2, AgreedFacts
  <2> HIDE DEF w, p
  <2>2. /\ IsField(p, written) /\ FieldAt(p, written) = ToRead[Reading.next]
        /\ \/ pos < Len(parcel) /\ parcel[pos + 1] = Flag(0) /\ at[NextTo(p)] = pos + 1
           \/ pos + 1 < Len(parcel) /\ parcel[pos + 1] = Flag(1) /\ parcel[pos + 2][1] = "size"
    BY <2>1, ParcelableNext DEF p
  <2>3. CASE pos < Len(parcel) /\ parcel[pos + 1] = Flag(0) /\ at[NextTo(p)] = pos + 1
    BY <2>1, <2>2, <2>3 DEF CellAt
  <2>4. CASE pos + 1 < Len(parcel) /\ parcel[pos + 1] = Flag(1) /\ parcel[pos + 2][1] = "size"
    <3>1. pos < Len(parcel) /\ (pos + 1) + 1 = pos + 2 /\ pos + 2 \in 1 .. Len(parcel) BY <2>1, <2>4
    <3>2. CellAt(pos) = parcel[pos + 1] /\ CellAt(pos + 1) = parcel[pos + 2] BY <2>4, <3>1 DEF CellAt
    <3> QED BY <2>1, <2>2, <2>4, <3>1, <3>2
  <2> QED BY <2>2, <2>3, <2>4
<1> HIDE DEF w, f, p
<1>3. CASE /\ CellAt(pos) = Flag(1) /\ CellAt(pos + 1)[1] = "size"
           /\ reading' = Append(reading, f)
           /\ pos' = pos + 2
           /\ UNCHANGED <<config, parcel, writing, outcome, got>>
  <2>1. ASSUME ~Unskipped, ~Strays
        PROVE  Agreed(at, parcel, reading', pos', got', written, known)
    <3>1. Flag(0) # Flag(1) BY DEF Flag
    <3>2. /\ parcel[pos + 1] = Flag(1) /\ CellAt(pos + 1) = parcel[pos + 2]
          /\ parcel[pos + 2][1] = "size" /\ pos + 2 \in 1 .. Len(parcel)
          /\ parcel \in Seq(Cell) /\ pos \in Nat
      BY <1>2, <1>3, <2>1, <3>1
    <3>3. parcel[pos + 2][2] \in Nat
      <4>1. parcel[pos + 2] \in Cell BY <3>2
      <4> QED BY <3>2, <4>1 DEF Cell
    <3>4. ToRead[Reading.next] \in Type
      <4>1. p \in Seq(Step) /\ Len(p) > 0
        <5>1. Len(reading) > 0 BY <1>1, ReaderFacts
        <5> QED BY <1>2, <2>1, <5>1, PathIs, FrameTypes DEF p
      <4> QED BY <1>1, <1>2, <2>1, <4>1, FieldHere
    <3>5. f \in ReadFrame
      <4>1. pos + 1 \in Nat BY <3>2
      <4> QED BY <3>2, <3>3, <3>4, <4>1 DEF f, ReadFrame
    <3>6. /\ f.type = FieldAt(p, written) /\ f.next = 1 /\ f.start = pos + 1
          /\ f.size = parcel[pos + 2][2] /\ ~f.check
      BY <1>2, <2>1, <3>2 DEF f
    <3>7. FieldAt(p, written) # "int" BY <1>1, <1>2, <2>1
    <3> QED BY <1>2, <1>3, <2>1, <3>2, <3>5, <3>6, <3>7, EnterAgrees DEF p
  <2>2. outcome' = "read" BY <1>1, <1>3
  <2> QED BY <1>1, <1>3, <2>1, <2>2, ReaderKeeps
<1>4. CASE /\ CellAt(pos) = Flag(0)
           /\ pos' = pos + 1
           /\ reading' = AfterValue(reading)
           /\ UNCHANGED <<config, parcel, writing, outcome, got>>
  <2>1. ASSUME ~Unskipped, ~Strays
        PROVE  Agreed(at, parcel, reading', pos', got', written, known)
    <3>1. Flag(0) # Flag(1) BY DEF Flag
    <3>2. parcel[pos + 1] = Flag(0) /\ at[NextTo(p)] = pos + 1 BY <1>2, <1>4, <2>1, <3>1
    <3>3. FieldAt(p, written) # "int" BY <1>1, <1>2, <2>1
    <3> QED BY <1>2, <1>4, <2>1, <3>2, <3>3, ReadNullAgrees DEF p
  <2>2. outcome' = "read" BY <1>1, <1>4
  <2> QED BY <1>1, <1>4, <2>1, <2>2, ReaderKeeps
<1>5. CASE Abort("error") BY <1>1, <1>5, AbortKeeps
<1>6. CASE /\ CellAt(pos)[1] # "flag" \/ (CellAt(pos) = Flag(1) /\ CellAt(pos + 1)[1] # "size")
           /\ Abort("misread")
  <2>1. Unskipped \/ Strays
    <3>1. Flag(0)[1] = "flag" /\ Flag(1)[1] = "flag" /\ Flag(0) # Flag(1) BY DEF Flag
    <3> QED BY <1>2, <1>6, <3>1
  <2>2. outcome' = "misread" /\ UNCHANGED <<config, parcel, writing, reading, pos, got>>
    BY <1>6 DEF Abort
  <2> QED BY <1>1, <2>1, <2>2, ReaderKeeps
<1> QED BY <1>3, <1>4, <1>5, <1>6 DEF ReadParcelable, f

LEMMA CheckSizeKeeps == ASSUME IInv, NEW at, LayoutInv(at), CheckSize PROVE LayoutInv(at)'
<1> DEFINE w == Path(writing)
           next == [reading EXCEPT ![Len(reading)] = NextField(@)]
<1>1. outcome = "read" /\ Reading.check /\ UNCHANGED <<config, parcel, writing, outcome, got>>
  BY DEF CheckSize
<1>2. IF pos - Reading.start >= Reading.size
      THEN pos' = Reading.start + Reading.size /\ reading' = AfterValue(Pop(reading))
      ELSE pos' = pos /\ reading' = next
  BY DEF CheckSize
<1> HIDE DEF w, next
<1>3. ASSUME ~Unskipped, ~Strays
      PROVE  Agreed(at, parcel, reading', pos', got', written, known)
  <2>1. /\ Laid(at, parcel, w, written)
        /\ Agreed(at, parcel, reading, pos, got, written, known)
        /\ OnTrack(at, parcel, reading, pos, written, known)
        /\ written \in Versions /\ known \in Versions /\ parcel \in Seq(Cell)
        /\ reading \in Seq(ReadFrame) /\ ~reading[1].check /\ Len(reading) > 0
        /\ Reading = Last(reading) /\ Last(reading).check
    BY <1>1, <1>3, AgreedFacts DEF w
  <2>2. /\ Len(reading) > 1
        /\ \/ /\ pos - Last(reading).start >= Last(reading).size
              /\ Last(reading).next + 1 > Len(Fields[Last(reading).type][written])
           \/ /\ ~(pos - Last(reading).start >= Last(reading).size)
              /\ Path(reading) \in DOMAIN at /\ IsField(Path(reading), written)
              /\ pos = at[NextTo(Path(reading))] /\ IsField(NextTo(Path(reading)), written)
    BY <2>1, CheckedEnd
  <2>3. CASE /\ pos - Last(reading).start >= Last(reading).size
             /\ Last(reading).next + 1 > Len(Fields[Last(reading).type][written])
    <3>1. pos' = Last(reading).start + Last(reading).size /\ reading' = AfterValue(Pop(reading))
      BY <1>2, <2>1, <2>3
    <3> QED BY <1>1, <2>1, <2>2, <2>3, <3>1, LeaveAgrees
  <2>4. CASE /\ ~(pos - Last(reading).start >= Last(reading).size)
             /\ Path(reading) \in DOMAIN at /\ IsField(Path(reading), written)
             /\ pos = at[NextTo(Path(reading))] /\ IsField(NextTo(Path(reading)), written)
    <3>1. pos' = pos /\ reading' = next BY <1>2, <2>1, <2>4
    <3>2. next = [reading EXCEPT ![Len(reading)] = NextField(@)] BY DEF next
    <3>3. Agreed(at, parcel, next, pos, got, written, known) BY <2>1, <2>4, <3>2, AdvanceAgrees
    <3> QED BY <1>1, <3>1, <3>3
  <2> QED BY <2>2, <2>3, <2>4
<1>4. outcome' = "read" BY <1>1
<1> QED BY <1>1, <1>3, <1>4, ReaderKeeps

LEMMA ReadEndKeeps == ASSUME IInv, NEW at, LayoutInv(at), ReadEnd PROVE LayoutInv(at)'
<1> DEFINE w == Path(writing)
<1>1. /\ outcome = "read" /\ Len(reading) > 1 /\ ~Reading.check /\ Reading.next > Len(ToRead)
      /\ pos' = IF readerLang = "CPP" THEN pos ELSE Reading.start + Reading.size
      /\ reading' = AfterValue(Pop(reading))
      /\ UNCHANGED <<config, parcel, writing, outcome, got>>
  BY DEF ReadEnd
<1> HIDE DEF w
<1>2. ASSUME ~Unskipped, ~Strays
      PROVE  Agreed(at, parcel, reading', pos', got', written, known)
  <2>1. /\ Laid(at, parcel, w, written)
        /\ Agreed(at, parcel, reading, pos, got, written, known)
        /\ OnTrack(at, parcel, reading, pos, written, known)
        /\ written \in Versions /\ known \in Versions /\ parcel \in Seq(Cell)
        /\ reading \in Seq(ReadFrame) /\ ~reading[1].check
        /\ Reading = Last(reading) /\ ~Last(reading).check
        /\ Last(reading).next > Len(Fields[Last(reading).type][known])
    BY <1>1, <1>2, AgreedFacts DEF w
  <2>2. pos' = Last(reading).start + Last(reading).size
    <3>1. \/ pos = Last(reading).start + Last(reading).size
          \/ Len(Fields[Last(reading).type][written]) > Len(Fields[Last(reading).type][known])
      BY <1>1, <2>1, EndIs
    <3>2. Last(reading).type \in Type BY <1>1, <2>1, ReaderFacts, FrameTypes
    <3>3. readerLang = "CPP" => pos = Last(reading).start + Last(reading).size
      BY <1>1, <1>2, <3>1, <3>2, AgreedFacts
    <3> QED BY <1>1, <2>1, <3>3
  <2>3. Agreed(at, parcel, AfterValue(Pop(reading)), Last(reading).start + Last(reading).size,
               got, written, known)
    BY <1>1, <2>1, LeaveAgrees
  <2> QED BY <1>1, <2>2, <2>3
<1>3. outcome' = "read" BY <1>1
<1> QED BY <1>1, <1>2, <1>3, ReaderKeeps

LEMMA ReceiveKeeps == ASSUME IInv, NEW at, LayoutInv(at), Receive PROVE LayoutInv(at)'
<1>1. /\ outcome = "read" /\ outcome' = "done" /\ Len(reading) = 1 /\ Reading.next > Len(ToRead)
      /\ UNCHANGED <<config, parcel, writing, reading, pos, got>>
  BY DEF Receive
<1>2. Reading' = Reading /\ ToRead' = ToRead BY <1>1 DEF Reading, ToRead, config
<1>3. ~Unskipped /\ ~Strays => Agreed(at, parcel, reading', pos', got', written, known)
  BY <1>1 DEF LayoutInv
<1> QED BY <1>1, <1>2, <1>3, ReaderKeeps

LEMMA SendKeeps == ASSUME IInv, NEW at, LayoutInv(at), Send PROVE LayoutInv(at)'
<1> DEFINE f == [type |-> Root, next |-> 1, start |-> 0, size |-> 0, check |-> FALSE]
           w == Path(writing)
<1>1. f \in ReadFrame /\ f.type = Root /\ f.next = 1 /\ ~f.check
  BY ParcelableAssumption DEF ReadFrame
<1> HIDE DEF f
<1>2. /\ reading' = <<f>> /\ outcome = "write" /\ outcome' = "read"
      /\ UNCHANGED <<config, parcel, writing, pos, got>>
  BY DEF Send, f
<1>3. LaidOut(at)' BY SendLays DEF LayoutInv
<1>4. got' = {} /\ pos' = 0 BY <1>2 DEF LayoutInv
<1>5. written \in Versions /\ known \in Versions /\ parcel \in Seq(Cell) /\ Len(w) = Len(writing)
  BY WriterFacts
<1>6. written' = written /\ known' = known /\ parcel' = parcel /\ writing' = writing BY <1>2 DEF config
<1>7. Laid(at, parcel, w, written) BY <1>2, <1>3, <1>5, <1>6 DEF LaidOut, Laid
<1>8. Agreed(at, parcel, <<f>>, 0, {}, written, known) BY <1>1, <1>5, <1>7, StartAgrees
<1> QED BY <1>2, <1>3, <1>4, <1>6, <1>8 DEF LayoutInv

LEMMA NextLayout == IInv /\ (\E at : LayoutInv(at)) /\ [Next]_vars => (\E at : LayoutInv(at))'
<1> SUFFICES ASSUME IInv, NEW at, LayoutInv(at), [Next]_vars PROVE \E to : LayoutInv(to)'
  OBVIOUS
<1>1. CASE UNCHANGED vars
  <2>1. LayoutInv(at)'
    BY <1>1 DEF vars, config, LayoutInv, LaidOut, Unskipped, Strays, Newer, Emptied, Reading, ToRead
  <2> QED BY <2>1
<1>2. LaidOut(at) BY DEF LayoutInv
<1>3. CASE WriteInt BY <1>2, <1>3, WriteIntLays, WriterKeeps DEF WriteInt
<1>4. CASE WriteParcelable BY <1>2, <1>4, WriteParcelableLays, WriterKeeps DEF WriteParcelable
<1>5. CASE WriteNull BY <1>2, <1>5, WriteNullLays, WriterKeeps DEF WriteNull
<1>6. CASE WriteEnd BY <1>2, <1>6, WriteEndLays, WriterKeeps DEF WriteEnd
<1>7. CASE Send BY <1>7, SendKeeps
<1>8. CASE ReadInt BY <1>8, ReadIntKeeps
<1>9. CASE ReadParcelable BY <1>9, ReadParcelableKeeps
<1>10. CASE CheckSize BY <1>10, CheckSizeKeeps
<1>11. CASE ReadEnd BY <1>11, ReadEndKeeps
<1>12. CASE Receive BY <1>12, ReceiveKeeps
<1> QED BY <1>1, <1>3, <1>4, <1>5, <1>6, <1>7, <1>8, <1>9, <1>10, <1>11, <1>12 DEF Next

LEMMA InitLayout == Init => \E at : LayoutInv(at)
<1> SUFFICES ASSUME Init PROVE \E at : LayoutInv(at) OBVIOUS
<1>1. PICK at : LaidOut(at) BY InitLays
<1>2. outcome = "write" /\ got = {} /\ pos = 0 BY DEF Init
<1> QED BY <1>1, <1>2 DEF LayoutInv

\* The inductive invariant of the values: for any types and versions there is
\* a layout of the parcel, one data position for every field that was written,
\* and every reader that is within the stated exceptions is where the layout
\* has the field it reads next.
THEOREM LayoutInvariance == Spec => [](IInv /\ \E at : LayoutInv(at))
<1>1. Init => IInv /\ \E at : LayoutInv(at) BY InitIInv, InitLayout
<1>2. (IInv /\ \E at : LayoutInv(at)) /\ [Next]_vars => (IInv /\ \E at : LayoutInv(at))'
  BY NextIInv, NextLayout
<1> QED BY <1>1, <1>2, PTL DEF Spec

\* The ints of the parcel are those of the layout.
LEMMA SentIs ==
  ASSUME IInv, NEW at, LayoutInv(at), outcome # "write"
  PROVE  /\ \A cell \in Sent : /\ cell[2] \in DOMAIN at /\ IsField(cell[2], written)
                               /\ FieldAt(cell[2], written) = "int"
         /\ \A p \in DOMAIN at :
              IsField(p, written) /\ FieldAt(p, written) = "int" => IntCell(p) \in Sent
<1> DEFINE w == Path(writing)
<1>1. /\ Laid(at, parcel, w, written) /\ parcel \in Seq(Cell) /\ written \in Versions
  <2>1. Len(w) = Len(writing) /\ parcel \in Seq(Cell) /\ written \in Versions BY WriterFacts
  <2> QED BY <2>1 DEF LayoutInv, LaidOut, Laid
<1> HIDE DEF w
<1>2. DOMAIN parcel = 1 .. Len(parcel) /\ Len(parcel) \in Nat BY <1>1
<1>3. ASSUME NEW cell \in Sent
      PROVE  cell[2] \in DOMAIN at /\ IsField(cell[2], written) /\ FieldAt(cell[2], written) = "int"
  <2>1. PICK k \in 1 .. Len(parcel) : cell = parcel[k] /\ parcel[k][1] = "int" BY <1>2 DEF Sent
  <2> QED BY <1>1, <2>1 DEF Laid, Layout, IntsInv
<1>4. ASSUME NEW p \in DOMAIN at, IsField(p, written), FieldAt(p, written) = "int"
      PROVE  IntCell(p) \in Sent
  <2>1. Complete(at, parcel, written, p) /\ NextTo(p) \in DOMAIN at BY <1>1, <1>4, AllComplete
  <2>2. parcel[at[p] + 1] = IntCell(p) /\ at[NextTo(p)] = at[p] + 1 BY <1>4, <2>1 DEF Complete
  <2>3. at[p] \in Nat /\ at[NextTo(p)] <= Len(parcel) BY <1>1, <1>4, <2>1, LayoutShape DEF Laid
  <2>4. at[p] + 1 \in 1 .. Len(parcel) BY <1>2, <2>2, <2>3
  <2>5. IntCell(p)[1] = "int" BY DEF IntCell
  <2> QED BY <1>2, <2>2, <2>4, <2>5 DEF Sent
<1> QED BY <1>3, <1>4

\* For any types, versions, nesting and backends, and the stated exceptions
\* aside: a reader assigns every field both sides know the value written for
\* it, assigns no other value, and at the end has missed none.
THEOREM CommonFieldsAgreeAlways == Spec => []CommonFieldsAgree
<1>1. ASSUME IInv, NEW at, LayoutInv(at) PROVE CommonFieldsAgree
  <2>1. SUFFICES ASSUME ~Unskipped, ~Strays
                 PROVE  /\ outcome # "misread"
                        /\ \A g \in got : g[2] = IntCell(g[1]) \/ Unchecked(g[1])
                        /\ outcome = "done" =>
                             {g[1] : g \in {h \in got : ~Unchecked(h[1])}}
                               = {cell[2] : cell \in {s \in Sent : Knows(s[2], known)}}
    BY DEF CommonFieldsAgree
  <2>2. CASE outcome = "write" BY <1>1, <2>2 DEF LayoutInv
  <2>3. CASE outcome # "write"
    <3>1. /\ OnTrack(at, parcel, reading, pos, written, known) /\ GotRight(at, got, written, known)
          /\ AllAhead(at, reading, got, written, known) /\ outcome # "misread"
      BY <1>1, <2>1, <2>3 DEF LayoutInv, Agreed
    <3>2. \A p : EmptiedBy(Last(p)[1], written, known) <=> Unchecked(p)
      BY DEF EmptiedBy, Unchecked, Emptied
    <3>3. \A g \in got : \/ Unchecked(g[1])
                         \/ g[1] \in DOMAIN at /\ Common(g[1], written, known) /\ g[2] = IntCell(g[1])
      BY <3>1, <3>2 DEF GotRight
    <3>4. /\ \A cell \in Sent : /\ cell[2] \in DOMAIN at /\ IsField(cell[2], written)
                                /\ FieldAt(cell[2], written) = "int"
          /\ \A p \in DOMAIN at :
               IsField(p, written) /\ FieldAt(p, written) = "int" => IntCell(p) \in Sent
      BY <1>1, <2>3, SentIs
    <3>5. \A p \in DOMAIN at : DOMAIN p = 1 .. Len(p) /\ p \in Seq(Step)
      <4>1. /\ Layout(at, parcel, Path(writing), written) /\ parcel \in Seq(Cell) /\ written \in Versions
        BY <1>1, WriterFacts DEF LayoutInv, LaidOut
      <4>2. \A p \in DOMAIN at : p \in Seq(Step) BY <4>1, LayoutShape
      <4> QED BY <4>2
    <3>6. ASSUME outcome = "done"
          PROVE  {g[1] : g \in {h \in got : ~Unchecked(h[1])}}
                   = {cell[2] : cell \in {s \in Sent : Knows(s[2], known)}}
      <4>1. ASSUME NEW g \in got, ~Unchecked(g[1])
            PROVE  \E cell \in Sent : Knows(cell[2], known) /\ g[1] = cell[2]
        <5>1. g[1] \in DOMAIN at /\ Common(g[1], written, known) BY <3>3, <4>1
        <5>2. IntCell(g[1]) \in Sent BY <3>4, <5>1 DEF Common
        <5>3. Knows(g[1], known) BY <3>5, <5>1 DEF Common, Knows
        <5>4. IntCell(g[1])[2] = g[1] BY DEF IntCell
        <5> QED BY <5>2, <5>3, <5>4
      <4>2. ASSUME NEW cell \in Sent, Knows(cell[2], known)
            PROVE  \E g \in got : ~Unchecked(g[1]) /\ g[1] = cell[2]
        <5> DEFINE p == cell[2]
        <5>1. /\ p \in DOMAIN at /\ IsField(p, written) /\ FieldAt(p, written) = "int"
              /\ DOMAIN p = 1 .. Len(p) /\ p \in Seq(Step)
          BY <3>4, <3>5
        <5>2. Knows(p, known) BY <4>2
        <5> HIDE DEF p
        <5>3. Common(p, written, known) BY <5>1, <5>2 DEF Common, Knows
        <5>4. ~Ahead(reading, p)
          <6>1. SUFFICES ASSUME Ahead(reading, p) PROVE FALSE OBVIOUS
          <6>2. /\ Len(reading) = 1 /\ Reading.next > Len(ToRead)
                /\ reading \in Seq(ReadFrame)
            BY <1>1, <3>1, <3>6 DEF LayoutInv, OnTrack
          <6>3. PICK k \in 1 .. 1 :
                  /\ k <= Len(p) /\ p[k][1] = reading[k].type
                  /\ p[k][2] > reading[k].next \/ p[k][2] = reading[k].next
            BY <6>1, <6>2 DEF Ahead
          <6>4. k = 1 OBVIOUS
          <6>5. /\ reading[1].next > Len(Fields[reading[1].type][known])
                /\ reading[1].next \in Nat /\ reading[1].type \in Type
            <7>1. Reading = reading[1] BY <6>2 DEF Reading, Last
            <7>2. reading[1] \in ReadFrame
              <8>1. 1 \in 1 .. Len(reading) BY <6>2
              <8>2. \A s \in Seq(ReadFrame) : \A j \in 1 .. Len(s) : s[j] \in ReadFrame OBVIOUS
              <8> QED BY <6>2, <8>1, <8>2
            <7> QED BY <6>2, <7>1, <7>2, FrameTypes DEF ToRead
          <6>6. 1 \in 1 .. Len(p) /\ p[1] \in Step BY <5>1, <6>3, <6>4
          <6>7. p[1][2] <= Len(Fields[reading[1].type][known]) /\ p[1][2] \in Nat
            BY <5>3, <6>3, <6>4, <6>6 DEF Common, Step
          <6>8. Len(Fields[reading[1].type][known]) \in Nat
            <7>1. known \in Versions BY <1>1, WriterFacts
            <7> QED BY <6>5, <7>1, FieldsAreTyped
          <6> QED BY <6>3, <6>4, <6>5, <6>7, <6>8
        <5>5. PICK g \in got : g[1] = p BY <3>1, <5>1, <5>3, <5>4 DEF AllAhead
        <5>6. ~Unchecked(p)
          <6>1. SUFFICES ASSUME Len(Fields[Last(p)[1]][written]) = 0 PROVE FALSE
            BY DEF Unchecked, Emptied
          <6>2. Last(p)[2] <= 0 BY <5>1, <6>1 DEF IsField, Count
          <6>3. Len(p) > 0
            <7>1. /\ Layout(at, parcel, Path(writing), written) /\ parcel \in Seq(Cell)
                  /\ written \in Versions
              BY <1>1, WriterFacts DEF LayoutInv, LaidOut
            <7> QED BY <5>1, <7>1, LayoutShape
          <6>4. p[Len(p)] \in Step BY <5>1, <6>3
          <6> QED BY <6>2, <6>4 DEF Last, Step
        <5> QED BY <5>5, <5>6 DEF p
      <4> QED BY <4>1, <4>2
    <3> QED BY <3>1, <3>3, <3>6
  <2> QED BY <2>2, <2>3
<1>2. IInv /\ (\E at : LayoutInv(at)) => CommonFieldsAgree BY <1>1
<1> QED BY <1>2, LayoutInvariance, PTL

\* The calls in progress are inside what was written for them.
LEMMA TrackAligned ==
  ASSUME NEW v \in Versions, NEW u \in Versions, NEW cells \in Seq(Cell), NEW at, NEW w,
         Laid(at, cells, w, v), NEW s \in Seq(ReadFrame), NEW d, OnTrack(at, cells, s, d, v, u),
         NEW k \in 1 .. Len(s), k > 1
  PROVE  /\ cells[s[k].start + 1] = SizeOf(s[k].size)
         /\ s[k].start < d
         /\ d <= s[k].start + s[k].size \/ EmptiedBy(Last(s).type, v, u)
<1> DEFINE n == Len(s)
           p == Path(s)
           top == s[n]
<1>1. Entered(at, cells, s, v, u) /\ Nested(s) /\ n > 1 /\ n \in Nat
  <2>1. n \in Nat /\ n > 1 OBVIOUS
  <2> QED BY <2>1 DEF OnTrack
<1>2. p \in Seq(Step) /\ Len(p) = n BY PathIs, FrameTypes
<1>3. ASSUME NEW j \in 1 .. n, j > 1
      PROVE  /\ Upto(p, j - 1) \in DOMAIN at /\ IsField(Upto(p, j - 1), v)
             /\ cells[at[Upto(p, j - 1)] + 1] = Flag(1)
             /\ s[j].start = at[Upto(p, j - 1)] + 1
             /\ s[j].size = at[NextTo(Upto(p, j - 1))] - at[Upto(p, j - 1)] - 1
             /\ at[Upto(p, j - 1)] \in Nat /\ at[NextTo(Upto(p, j - 1))] \in Nat
             /\ s[j].start \in Nat /\ s[j].size \in Nat /\ s[j].type # "int"
             /\ s[j].type = FieldAt(Upto(p, j - 1), v)
  <2>1. j - 1 \in 1 .. n - 1 /\ (j - 1) + 1 = j BY <1>1, <1>3
  <2>2. /\ Upto(p, j - 1) \in DOMAIN at /\ IsField(Upto(p, j - 1), v)
        /\ cells[at[Upto(p, j - 1)] + 1] = Flag(1)
        /\ s[(j - 1) + 1].start = at[Upto(p, j - 1)] + 1
        /\ s[(j - 1) + 1].size = at[NextTo(Upto(p, j - 1))] - at[Upto(p, j - 1)] - 1
        /\ s[(j - 1) + 1].type = FieldAt(Upto(p, j - 1), v)
    BY <1>1, <2>1 DEF Entered
  <2>3. NextTo(Upto(p, j - 1)) \in DOMAIN at BY <2>2, AllComplete
  <2>4. at[Upto(p, j - 1)] \in Nat /\ at[NextTo(Upto(p, j - 1))] \in Nat
    BY <2>2, <2>3, LayoutShape DEF Laid
  <2>5. s[j] \in ReadFrame BY <1>3
  <2>6. s[j].start \in Nat /\ s[j].size \in Nat /\ s[j].type \in Type BY <2>5 DEF ReadFrame
  <2> QED BY <2>1, <2>2, <2>4, <2>6, ParcelableAssumption
<1> HIDE DEF n, p
<1>4. n \in 1 .. n /\ k \in 1 .. n BY <1>1 DEF n
<1>5. cells[s[k].start + 1] = SizeOf(s[k].size)
  <2> DEFINE q == Upto(p, k - 1)
  <2>1. /\ q \in DOMAIN at /\ IsField(q, v) /\ cells[at[q] + 1] = Flag(1) /\ s[k].start = at[q] + 1
        /\ s[k].size = at[NextTo(q)] - at[q] - 1 /\ at[q] \in Nat /\ FieldAt(q, v) # "int"
    BY <1>3, <1>4
  <2> HIDE DEF q
  <2>2. Complete(at, cells, v, q) BY <2>1, AllComplete
  <2>3. Flag(1) # Flag(0) BY DEF Flag
  <2>4. cells[at[q] + 2] = SizeOf(at[NextTo(q)] - at[q] - 1) BY <2>1, <2>2, <2>3 DEF Complete
  <2>5. s[k].start + 1 = at[q] + 2 BY <2>1
  <2> QED BY <2>1, <2>4, <2>5
<1>6. /\ s[k].start <= top.start /\ top.start + top.size <= s[k].start + s[k].size
      /\ top.start \in Nat /\ top.size \in Nat /\ s[k].start \in Nat /\ s[k].size \in Nat
  <2>1. /\ top.start \in Nat /\ top.size \in Nat /\ s[k].start \in Nat /\ s[k].size \in Nat
    BY <1>1, <1>3, <1>4
  <2>2. CASE k = n BY <2>1, <2>2
  <2>3. CASE k # n
    <3>1. k < n BY <1>1, <1>4, <2>3
    <3>2. top.start > s[k].start /\ top.start + top.size <= s[k].start + s[k].size
      BY <1>1, <1>4, <3>1 DEF Nested, n
    <3> QED BY <2>1, <3>2
  <2> QED BY <2>2, <2>3
<1>7. ASSUME NEW c \in DOMAIN at, Len(c) = n, Upto(c, n - 1) = Upto(p, n - 1), d = at[c]
      PROVE  top.start < d /\ d <= top.start + top.size
  <2> DEFINE q == Upto(p, n - 1)
  <2>1. /\ at[q] \in Nat /\ at[c] \in Nat /\ at[NextTo(q)] \in Nat /\ at[q] + 2 <= at[c]
        /\ IF IsField(c, v) THEN at[c] < at[NextTo(q)] ELSE at[c] = at[NextTo(q)]
    <3>1. Len(c) > 1 /\ q = Upto(c, Len(c) - 1) BY <1>1, <1>7
    <3> QED BY <3>1, Inside
  <2>2. top.start = at[q] + 1 /\ top.size = at[NextTo(q)] - at[q] - 1 BY <1>1, <1>3, <1>4
  <2> HIDE DEF q, top
  <2>3. at[c] <= at[NextTo(q)] BY <2>1
  <2>4. \A a, b, e \in Nat : a + 2 <= e /\ e <= b => a + 1 < e /\ e <= (a + 1) + (b - a - 1) OBVIOUS
  <2> QED BY <1>7, <2>1, <2>2, <2>3, <2>4
<1>8. \/ top.start < d /\ d <= top.start + top.size
      \/ top.start < d /\ EmptiedBy(Last(s).type, v, u)
  <2>1. CASE p \in DOMAIN at /\ d = at[p] BY <1>2, <1>7, <2>1
  <2>2. CASE p \in DOMAIN at /\ IsField(p, v) /\ d = at[NextTo(p)]
    <3>1. NextTo(p) \in DOMAIN at BY <2>2, AllComplete
    <3>2. Len(NextTo(p)) = n /\ Upto(NextTo(p), n - 1) = Upto(p, n - 1)
      <4>1. n - 1 \in 0 .. Len(p) - 1 BY <1>1, <1>2
      <4> QED BY <1>1, <1>2, <4>1, NextToShape
    <3> QED BY <1>7, <2>2, <3>1, <3>2
  <2>3. CASE /\ Len(Fields[Last(s).type][v]) = 0 /\ Last(s).next = 1
             /\ d \in {Last(s).start + 1, Last(s).start + 2}
             /\ Last(s).next <= Len(Fields[Last(s).type][u])
    <3>1. top = Last(s) BY DEF Last, n
    <3>2. top.start < d BY <1>6, <2>3, <3>1
    <3>3. Len(Fields[Last(s).type][u]) > 0
      <4>1. u \in Versions /\ Last(s).type \in Type
        <5>1. s[n] \in ReadFrame BY <1>4 DEF n
        <5> QED BY <5>1, FrameTypes DEF Last, n
      <4>2. Len(Fields[Last(s).type][u]) \in Nat BY <4>1, FieldsAreTyped
      <4> QED BY <2>3, <4>2
    <3> QED BY <2>3, <3>2, <3>3 DEF EmptiedBy
  <2> QED BY <2>1, <2>2, <2>3 DEF OnTrack, AtField, AfterField, p
<1>9. d \in Nat
  <2>1. CASE p \in DOMAIN at /\ d = at[p] BY <2>1, LayoutShape DEF Laid
  <2>2. CASE p \in DOMAIN at /\ IsField(p, v) /\ d = at[NextTo(p)]
    <3>1. NextTo(p) \in DOMAIN at BY <2>2, AllComplete
    <3> QED BY <2>2, <3>1, LayoutShape DEF Laid
  <2>3. CASE d \in {Last(s).start + 1, Last(s).start + 2}
    <3>1. top = Last(s) BY DEF Last, n
    <3> QED BY <1>6, <2>3, <3>1
  <2> QED BY <2>1, <2>2, <2>3 DEF OnTrack, AtField, AfterField, p
<1> HIDE DEF top
<1> QED BY <1>5, <1>6, <1>8, <1>9

\* For any types, versions, nesting and backends, and the stated exceptions
\* aside: a reader stays inside what was written for each parcelable it is in,
\* and so finds what follows it where it was written.
THEOREM AlignedAlways == Spec => []Aligned
<1>1. ASSUME IInv, NEW at, LayoutInv(at) PROVE Aligned
  <2>1. SUFFICES ASSUME outcome \in {"read", "done"}, ~Unskipped, ~Strays, NEW k \in DOMAIN reading, k > 1
                 PROVE  /\ parcel[reading[k].start + 1] = SizeOf(reading[k].size)
                        /\ reading[k].start < pos
                        /\ pos <= reading[k].start + reading[k].size \/ Emptied(Reading.type)
    BY DEF Aligned
  <2> DEFINE w == Path(writing)
  <2>2. /\ OnTrack(at, parcel, reading, pos, written, known)
        /\ Laid(at, parcel, w, written)
        /\ parcel \in Seq(Cell) /\ written \in Versions /\ known \in Versions
    <3>1. Len(w) = Len(writing) BY <1>1, WriterFacts
    <3> QED BY <1>1, <2>1, <3>1, WriterFacts DEF LayoutInv, LaidOut, Laid, Agreed
  <2>3. reading \in Seq(ReadFrame) /\ k \in 1 .. Len(reading) BY <2>1, <2>2 DEF OnTrack
  <2>4. /\ parcel[reading[k].start + 1] = SizeOf(reading[k].size)
        /\ reading[k].start < pos
        /\ pos <= reading[k].start + reading[k].size \/ EmptiedBy(Last(reading).type, written, known)
    <3> HIDE DEF w
    <3> QED BY <2>1, <2>2, <2>3, TrackAligned
  <2> QED BY <2>4 DEF EmptiedBy, Emptied, Reading
<1>2. IInv /\ (\E at : LayoutInv(at)) => Aligned BY <1>1
<1> QED BY <1>2, LayoutInvariance, PTL
=============================================================================
