--------------------------- MODULE KeyboardProofs ---------------------------
(***************************************************************************)
(* The keyboard driver keeps its promise, for a ring of every size and for *)
(* all tables of characters.                                               *)
(***************************************************************************)
EXTENDS Keyboard, SequenceTheorems, TLAPS

USE SlotsAssumption, KeysAssumption, TablesAssumption

(* What the reader saw stays true until it frees the slot.                 *)
ReaderSound ==
  /\ pc \in {"reads", "frees"} => head # tail
  /\ pc = "frees" => c = ring[tail]

IInv == TypeOK /\ ReaderSound

-----------------------------------------------------------------------------
LEMMA AfterWraps == \A i \in Index : After(i) = IF i = Slots - 1 THEN 0 ELSE i + 1
BY DEF After, Index

LEMMA AfterType == \A i \in Index : After(i) \in Index
BY AfterWraps DEF Index

LEMMA CharsTyped == \A k \in Keys : CharOf(k) \in Char
BY DEF CharOf, Char

(* The ring's characters are a sequence as long as the indices say.        *)
ContentsSound ==
  /\ Count \in 0 .. Slots - 1 /\ (Count = 0 <=> head = tail)
  /\ Contents \in Seq(Char) /\ Len(Contents) = Count
  /\ \A i \in 1 .. Count : SlotOf(i) \in Index /\ Contents[i] = ring[SlotOf(i)]

LEMMA ContentsType == TypeOK => ContentsSound
<1>. SUFFICES ASSUME TypeOK PROVE ContentsSound
  OBVIOUS
<1>1. head \in Nat /\ tail \in Nat /\ head < Slots /\ tail < Slots
  BY DEF TypeOK, Index
<1>2. Count \in 0 .. Slots - 1 /\ (Count = 0 <=> head = tail)
  BY <1>1 DEF Count
<1>3. \A i \in 1 .. Count : SlotOf(i) \in Index
  BY <1>1, <1>2 DEF SlotOf, Index
<1>4. \A i \in 1 .. Count : ring[SlotOf(i)] \in Char
  BY <1>3 DEF TypeOK
<1>5. Contents \in [1 .. Count -> Char]
  BY <1>4 DEF Contents
<1>6. Contents \in Seq(Char) /\ Len(Contents) = Count
  BY <1>2, <1>5
<1>. QED
  BY <1>2, <1>3, <1>6 DEF Contents, ContentsSound

(* A character that is entered comes behind those that wait.               *)
LEMMA EnteredAppends ==
  ASSUME TypeOK, TypeOK', Room, NEW ch \in Char, UNCHANGED tail,
         ring' = [ring EXCEPT ![head] = ch], head' = After(head)
  PROVE  Contents' = Append(Contents, ch) /\ Count < Slots - 1
<1>1. head \in Nat /\ tail \in Nat /\ head < Slots /\ tail < Slots
  BY DEF TypeOK, Index
<1>2. head' = (IF head = Slots - 1 THEN 0 ELSE head + 1) /\ head' # tail
  BY AfterWraps DEF TypeOK, Room
<1>3. Count' = Count + 1 /\ Count < Slots - 1
  BY <1>1, <1>2 DEF Count
<1>4. \A i \in 1 .. Count + 1 : SlotOf(i)' = SlotOf(i)
  BY DEF SlotOf
<1>5. SlotOf(Count + 1) = head
  BY <1>1, <1>3 DEF SlotOf, Count
<1>6. \A i \in 1 .. Count : SlotOf(i) # head
  BY <1>1, <1>3 DEF SlotOf, Count
<1>7. Count \in Nat /\ Contents \in Seq(Char) /\ Len(Contents) = Count
  BY ContentsType DEF ContentsSound
<1>8. \A i \in 1 .. Count : Contents[i] = ring[SlotOf(i)] /\ SlotOf(i) \in Index
  BY ContentsType DEF ContentsSound
<1>9. \A i \in 1 .. Count + 1 : Contents'[i] = ring'[SlotOf(i)]
  BY <1>3, <1>4 DEF Contents
<1>10. ring'[head] = ch /\ \A j \in Index \ {head} : ring'[j] = ring[j]
  BY DEF TypeOK
<1>11. Contents' \in Seq(Char) /\ Len(Contents') = Count + 1
  <2>1. ContentsSound'
    BY ContentsType, PTL
  <2>. QED
    BY <1>3, <2>1 DEF ContentsSound
<1>12. \A i \in 1 .. Count + 1 : Contents'[i] = IF i <= Count THEN Contents[i] ELSE ch
  BY <1>5, <1>6, <1>7, <1>8, <1>9, <1>10
<1>. QED
  BY <1>3, <1>7, <1>11, <1>12

(* Freeing the slot takes away the oldest character.                       *)
LEMMA FreesOldest ==
  ASSUME TypeOK, TypeOK', head # tail, UNCHANGED <<ring, head>>, tail' = After(tail)
  PROVE  Contents # <<>> /\ Head(Contents) = ring[tail] /\ Contents' = Tail(Contents)
<1>1. head \in Nat /\ tail \in Nat /\ head < Slots /\ tail < Slots
  BY DEF TypeOK, Index
<1>2. tail' = IF tail = Slots - 1 THEN 0 ELSE tail + 1
  BY AfterWraps DEF TypeOK
<1>3. Count' = Count - 1 /\ Count \in Nat /\ Count > 0
  BY <1>1, <1>2 DEF Count
<1>4. \A i \in 1 .. Count - 1 : SlotOf(i)' = SlotOf(i + 1)
  <2>1. SUFFICES ASSUME NEW i \in 1 .. Count - 1 PROVE SlotOf(i)' = SlotOf(i + 1)
    OBVIOUS
  <2>3. i \in Nat /\ 0 < i /\ i < Slots
    BY <1>1, <1>3 DEF Count
  <2>2. SlotOf(i)' = IF tail' + i - 1 < Slots THEN tail' + i - 1 ELSE tail' + i - 1 - Slots
    BY DEF SlotOf
  <2>. QED
    BY <1>1, <1>2, <2>2, <2>3 DEF SlotOf
<1>5. SlotOf(1) = tail
  BY <1>1 DEF SlotOf
<1>6. ContentsSound /\ ContentsSound'
  BY ContentsType, PTL
<1>7. Contents \in Seq(Char) /\ Len(Contents) = Count /\ Contents # <<>>
  BY <1>3, <1>6 DEF ContentsSound
<1>8. Contents' \in Seq(Char) /\ Len(Contents') = Count - 1
  BY <1>3, <1>6 DEF ContentsSound
<1>9. Head(Contents) = ring[tail]
  BY <1>3, <1>5, <1>6, <1>7 DEF ContentsSound
<1>10. /\ Tail(Contents) \in Seq(Char) /\ Len(Tail(Contents)) = Count - 1
       /\ \A i \in 1 .. Count - 1 : Tail(Contents)[i] = Contents[i + 1]
  BY <1>3, <1>7
<1>11. \A i \in 1 .. Count - 1 : Contents'[i] = Contents[i + 1]
  <2>1. \A i \in 1 .. Count - 1 : i + 1 \in 1 .. Count
    BY <1>3
  <2>2. \A i \in 1 .. Count - 1 : Contents'[i] = ring[SlotOf(i + 1)]
    BY <1>3, <1>4, <1>6 DEF ContentsSound
  <2>. QED
    BY <1>6, <2>1, <2>2 DEF ContentsSound
<1>. QED
  BY <1>3, <1>7, <1>8, <1>9, <1>10, <1>11

-----------------------------------------------------------------------------
LEMMA InitIInv == Init => IInv /\ Promise!Init
<1>. SUFFICES ASSUME Init PROVE IInv /\ Promise!Init
  OBVIOUS
<1>1. None \in Char /\ 0 \in Index
  BY DEF Char, Index
<1>2. ring \in [Index -> Char]
  BY <1>1, Zenon DEF Init
<1>3. IInv
  BY <1>1, <1>2 DEF Init, IInv, TypeOK, ReaderSound
<1>4. Contents = <<>>
  BY <1>3, ContentsType DEF ContentsSound, IInv, Init
<1>. QED
  BY <1>3, <1>4 DEF Init, Promise!Init

(* A key press enters its character, or loses it to a full ring, or has    *)
(* none; the reader's slot is not touched.                                 *)
LEMMA PressKeeps ==
  ASSUME IInv, NEW k \in Keys, Press(k)
  PROVE  IInv' /\ Promise!Press(k)
<1>1. UNCHANGED readerVars /\ key' = k /\ beat' = ~beat /\ beat' \in BOOLEAN
  BY DEF Press, IInv, TypeOK
<1>2. CASE k \in Shifts
  <2>1. shift' = TRUE /\ UNCHANGED <<ring, head>>
    BY <1>2 DEF Press
  <2>2. IInv'
    BY <1>1, <2>1 DEF readerVars, IInv, TypeOK, ReaderSound
  <2>3. Contents' = Contents
    BY <1>1, <2>1 DEF Contents, Count, SlotOf, readerVars
  <2>. QED
    BY <1>1, <1>2, <2>1, <2>2, <2>3 DEF Promise!Press, readerVars
<1>3. CASE k \notin Shifts
  <2>. DEFINE ch == CharOf(k)
  <2>1. Entered(ch) /\ UNCHANGED shift /\ shift' = (shift \/ k \in Shifts)
    BY <1>3 DEF Press, IInv, TypeOK
  <2>2. ch \in Char /\ Promise!CharOf(k) = ch
    BY CharsTyped DEF CharOf, Promise!CharOf
  <2>. HIDE DEF ch
  <2>3. CASE ch # None /\ Room
    <3>1. ring' = [ring EXCEPT ![head] = ch] /\ head' = After(head) /\ head' # tail
      BY <2>1, <2>3 DEF Entered, Room
    <3>2. ring' \in [Index -> Char] /\ head' \in Index
      BY <2>2, <3>1, AfterType DEF IInv, TypeOK
    <3>3. TypeOK'
      BY <1>1, <2>1, <3>2 DEF readerVars, IInv, TypeOK
    <3>4. pc = "frees" => ring'[tail] = ring[tail]
      BY <3>1 DEF IInv, TypeOK, ReaderSound
    <3>5. IInv'
      BY <1>1, <3>1, <3>3, <3>4 DEF readerVars, IInv, ReaderSound
    <3>6. Contents' = Append(Contents, ch) /\ Count < Slots - 1
      BY <1>1, <2>2, <2>3, <3>1, <3>3, EnteredAppends DEF readerVars, IInv
    <3>7. Len(Contents) # Slots - 1
      BY <3>6, ContentsType DEF ContentsSound, IInv
    <3>. QED
      BY <1>1, <1>3, <2>1, <2>2, <2>3, <3>5, <3>6, <3>7 DEF Promise!Press, readerVars
  <2>4. CASE ch = None \/ ~Room
    <3>1. UNCHANGED <<ring, head>>
      BY <2>1, <2>4 DEF Entered
    <3>2. IInv'
      BY <1>1, <2>1, <3>1 DEF readerVars, IInv, TypeOK, ReaderSound
    <3>3. Contents' = Contents
      BY <1>1, <3>1 DEF Contents, Count, SlotOf, readerVars
    <3>4. ~Room => Len(Contents) = Slots - 1
      <4>1. ~Room => Count = Slots - 1
        BY AfterWraps DEF Room, Count, IInv, TypeOK, Index
      <4>. QED
        BY <4>1, ContentsType DEF ContentsSound, IInv
    <3>. QED
      BY <1>1, <1>3, <2>1, <2>2, <2>4, <3>2, <3>3, <3>4 DEF Promise!Press, readerVars
  <2>. QED
    BY <2>3, <2>4
<1>. QED
  BY <1>2, <1>3

LEMMA LiftKeeps ==
  ASSUME IInv, NEW k \in Keys, Lift(k)
  PROVE  IInv' /\ Promise!Lift
<1>1. Contents' = Contents
  BY DEF Lift, Contents, Count, SlotOf, readerVars
<1>. QED
  BY <1>1 DEF Lift, readerVars, IInv, TypeOK, ReaderSound, Promise!Lift

PromiseVars == <<shift, Contents, answer, key, beat>>

(* The reader's steps: its look does nothing, its freeing is the answer.   *)
LEMMA ReaderKeeps ==
  ASSUME IInv, Reader
  PROVE  IInv' /\ (Promise!Answer \/ Promise!NothingTyped \/ UNCHANGED PromiseVars)
<1>1. CASE Getchar \/ Sees \/ Reads
  <2>1. UNCHANGED <<ring, head, tail, shift, answer, key, beat>>
    BY <1>1 DEF Getchar, Sees, Reads
  <2>2. Contents' = Contents
    BY <2>1 DEF Contents, Count, SlotOf
  <2>3. IInv'
    BY <1>1, <2>1 DEF Getchar, Sees, Reads, At, Typed, IInv, TypeOK, ReaderSound
  <2>. QED
    BY <2>1, <2>2, <2>3 DEF PromiseVars
<1>2. CASE Frees
  <2>1. /\ UNCHANGED <<ring, head, shift, key, beat>> /\ tail' = After(tail)
        /\ answer' = c /\ c = ring[tail] /\ head # tail
    BY <1>2 DEF Frees, At, IInv, ReaderSound
  <2>2. TypeOK' /\ IInv'
    BY <1>2, <2>1, AfterType DEF Frees, At, IInv, TypeOK, ReaderSound
  <2>3. Contents # <<>> /\ Head(Contents) = ring[tail] /\ Contents' = Tail(Contents)
    BY <2>1, <2>2, FreesOldest DEF IInv
  <2>. QED
    BY <2>1, <2>2, <2>3 DEF Promise!Answer
<1>3. CASE GetcharNonblock
  <2>1. UNCHANGED <<ring, head, tail, shift, c, key, beat>>
    BY <1>3 DEF GetcharNonblock
  <2>2. Contents' = Contents
    BY <2>1 DEF Contents, Count, SlotOf
  <2>3. None \in Char
    BY DEF Char
  <2>4. IInv'
    BY <1>3, <2>1, <2>3 DEF GetcharNonblock, At, Typed, IInv, TypeOK, ReaderSound
  <2>5. CASE Typed
    BY <1>3, <2>1, <2>2, <2>4, <2>5 DEF GetcharNonblock, PromiseVars
  <2>6. CASE ~Typed
    <3>1. Contents = <<>>
      BY <2>6, ContentsType DEF ContentsSound, Typed, IInv
    <3>. QED
      BY <1>3, <2>1, <2>2, <2>4, <2>6, <3>1 DEF GetcharNonblock, Promise!NothingTyped
  <2>. QED
    BY <2>5, <2>6
<1>. QED
  BY <1>1, <1>2, <1>3 DEF Reader

LEMMA StepKeeps ==
  ASSUME IInv, [Next]_vars
  PROVE  IInv' /\ [Promise!Next]_PromiseVars
<1>1. CASE Interrupt
  BY <1>1, PressKeeps, LiftKeeps DEF Interrupt, Promise!Next
<1>2. CASE Reader
  BY <1>2, ReaderKeeps DEF Promise!Next
<1>3. CASE UNCHANGED vars
  BY <1>3 DEF vars, IInv, TypeOK, ReaderSound, PromiseVars, Contents, Count, SlotOf
<1>. QED
  BY <1>1, <1>2, <1>3 DEF Next

(* The inductive invariant: a reader that has looked at a slot still owns  *)
(* it.                                                                     *)
THEOREM Invariance == Spec => []IInv
<1>1. Init => IInv
  BY InitIInv
<1>2. IInv /\ [Next]_vars => IInv'
  BY StepKeeps
<1>. QED
  BY <1>1, <1>2, PTL DEF Spec

(* Indices, characters and the reader's place stay in range.               *)
THEOREM TypeCorrect == Spec => []TypeOK
<1>1. IInv => TypeOK
  BY DEF IInv
<1>. QED
  BY <1>1, Invariance, PTL

(* The ring with its interrupts and its two-step reader implements the     *)
(* bounded queue of TypeAhead.                                             *)
THEOREM Implements == Spec => KeepsPromise
<1>1. Init => Promise!Init
  BY InitIInv
<1>2. IInv /\ [Next]_vars => [Promise!Next]_PromiseVars
  BY StepKeeps
<1>. QED
  BY <1>1, <1>2, Invariance, PTL DEF Spec, KeepsPromise, Promise!Spec, PromiseVars
=============================================================================
