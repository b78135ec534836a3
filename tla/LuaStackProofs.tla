--------------------------- MODULE LuaStackProofs ---------------------------
(***************************************************************************)
(* Proofs about LuaStack: what releasing a value does to the slots and to  *)
(* the queue, for frames of any size.                                      *)
(***************************************************************************)
EXTENDS LuaStack, FiniteSetTheorems, SequenceTheorems, TLAPS

Frames == [slots : Seq(Contents), dealloc : Seq(Nat)]

\* A read below the top is a slot, one above it is nil.
LEMMA AtType ==
  ASSUME NEW frame \in Frames, NEW i \in Nat
  PROVE  At(frame, i) \in Contents
BY DEF Frames, At, Contents

\* What is pushed is the last slot; the others stay.
LEMMA PushFrame ==
  ASSUME NEW frame \in Frames, NEW x \in Contents
  PROVE  /\ Push(frame, x) \in Frames
         /\ Push(frame, x).slots = Append(frame.slots, x)
         /\ Push(frame, x).dealloc = frame.dealloc
         /\ Len(Push(frame, x).slots) = Len(frame.slots) + 1
         /\ SubSeq(Push(frame, x).slots, 1, Len(frame.slots)) = frame.slots
<1>1. /\ frame.slots \in Seq(Contents) /\ frame.dealloc \in Seq(Nat)
      /\ Append(frame.slots, x) \in Seq(Contents)
      /\ Len(Append(frame.slots, x)) = Len(frame.slots) + 1
      /\ SubSeq(Append(frame.slots, x), 1, Len(frame.slots)) = frame.slots
  BY DEF Frames
<1>2. Push(frame, x).slots = Append(frame.slots, x) /\ Push(frame, x).dealloc = frame.dealloc
  BY DEF Frames, Push
<1>3. Push(frame, x) \in Frames
  BY <1>1 DEF Frames, Push
<1> QED
  BY <1>1, <1>2, <1>3

\* The indices of a queue that satisfy any condition can be counted.
LEMMA CountedIndices ==
  ASSUME NEW dealloc \in Seq(Nat), NEW S \in SUBSET DOMAIN dealloc
  PROVE  Cardinality(S) \in 0 .. Len(dealloc)
<1>1. DOMAIN dealloc = 1 .. Len(dealloc) /\ Len(dealloc) \in Nat
  OBVIOUS
<1>2. IsFiniteSet(1 .. Len(dealloc)) /\ Cardinality(1 .. Len(dealloc)) = Len(dealloc)
  <2>1. \A a, b \in Int : /\ IsFiniteSet(a .. b)
                          /\ Cardinality(a .. b) = IF a > b THEN 0 ELSE b - a + 1
    BY FS_Interval, Zenon
  <2>2. IsFiniteSet(1 .. Len(dealloc))
    BY <1>1, <2>1
  <2>3. Cardinality(1 .. Len(dealloc)) = IF 1 > Len(dealloc) THEN 0 ELSE Len(dealloc) - 1 + 1
    BY <1>1, <2>1, SMTT(60)
  <2> QED
    BY <1>1, <2>2, <2>3
<1>3. IsFiniteSet(S) /\ Cardinality(S) <= Cardinality(1 .. Len(dealloc))
  <2>1. S \in SUBSET (1 .. Len(dealloc))
    BY <1>1
  <2> QED
    BY <1>2, <2>1, FS_Subset, Zenon
<1>4. Cardinality(S) \in Nat
  BY <1>3, FS_CardinalityType
<1> QED
  BY <1>1, <1>2, <1>3, <1>4

\* Queueing a cap leaves a queue of caps.
LEMMA EnqueueType ==
  ASSUME NEW dealloc \in Seq(Nat), NEW cap \in Nat
  PROVE  Enqueue(dealloc, cap) \in Seq(Nat)
<1> DEFINE n == Cardinality({i \in DOMAIN dealloc : dealloc[i] >= cap})
<1>1. n \in 0 .. Len(dealloc)
  BY CountedIndices
<1> HIDE DEF n
<1>2. SubSeq(dealloc, 1, n) \in Seq(Nat) /\ SubSeq(dealloc, n + 1, Len(dealloc)) \in Seq(Nat)
  BY <1>1
<1>3. <<cap>> \in Seq(Nat)
  OBVIOUS
<1>4. SubSeq(dealloc, 1, n) \o <<cap>> \o SubSeq(dealloc, n + 1, Len(dealloc)) \in Seq(Nat)
  BY <1>2, <1>3
<1> QED
  BY <1>4 DEF n, Enqueue

\* No more values settle than wait.
LEMMA SettledType ==
  ASSUME NEW dealloc \in Seq(Nat), NEW top \in Nat
  PROVE  Settled(dealloc, top) \in 0 .. Len(dealloc)
BY CountedIndices DEF Settled

\* Releasing a value leaves a frame, whatever the queue says.
LEMMA ReleaseType ==
  ASSUME NEW frame \in Frames, NEW top \in Nat
  PROVE  Release(frame, top) \in Frames
<1> DEFINE n == Settled(frame.dealloc, top)
           size == Len(frame.slots)
<1>1. frame.slots \in Seq(Contents) /\ frame.dealloc \in Seq(Nat) /\ size \in Nat
  BY DEF Frames
<1>2. n \in 0 .. Len(frame.dealloc)
  BY <1>1, SettledType
<1>3. CASE size <= top
  BY <1>3 DEF Release
<1>4. CASE size > top + 1
  <2>1. Release(frame, top) = [frame EXCEPT !.dealloc = Enqueue(frame.dealloc, top + 1)]
    BY <1>1, <1>4 DEF Release
  <2> QED
    <3>1. Enqueue(frame.dealloc, top + 1) \in Seq(Nat)
      BY <1>1, EnqueueType
    <3> QED
      BY <1>1, <2>1, <3>1 DEF Frames
<1>5. CASE size = top + 1
  <2>1. Release(frame, top) = [slots |-> SubSeq(frame.slots, 1, top - n),
                               dealloc |-> SubSeq(frame.dealloc, n + 1, Len(frame.dealloc))]
    BY <1>1, <1>5 DEF Release
  <2>2. SubSeq(frame.slots, 1, top - n) \in Seq(Contents)
    BY <1>1, <1>2, <1>5
  <2>3. SubSeq(frame.dealloc, n + 1, Len(frame.dealloc)) \in Seq(Nat)
    BY <1>1, <1>2
  <2> QED
    BY <2>1, <2>2, <2>3 DEF Frames
<1> HIDE DEF n
<1> QED
  BY <1>1, <1>3, <1>4, <1>5

-----------------------------------------------------------------------------
(* What a release pops *)

\* A cap above all others is the first that the queue gives out.
LEMMA EnqueueFront ==
  ASSUME NEW dealloc \in Seq(Nat), NEW cap \in Nat,
         \A i \in DOMAIN dealloc : dealloc[i] < cap
  PROVE  Enqueue(dealloc, cap) = <<cap>> \o dealloc
<1>1. {i \in DOMAIN dealloc : dealloc[i] >= cap} = {}
  <2>1. \A i \in DOMAIN dealloc : dealloc[i] \in Nat /\ ~(dealloc[i] >= cap)
    OBVIOUS
  <2> QED
    BY <2>1
<1>2. Cardinality({i \in DOMAIN dealloc : dealloc[i] >= cap}) = 0
  BY <1>1, FS_EmptySet, Zenon
<1>3. Enqueue(dealloc, cap) = SubSeq(dealloc, 1, 0) \o <<cap>> \o SubSeq(dealloc, 0 + 1, Len(dealloc))
  BY <1>2 DEF Enqueue
<1> QED
  BY <1>3

\* The queue holds what it held and the new cap, wherever it puts it.
LEMMA EnqueueCaps ==
  ASSUME NEW dealloc \in Seq(Nat), NEW cap \in Nat
  PROVE  Caps(Enqueue(dealloc, cap)) = Caps(dealloc) \cup {cap}
<1> DEFINE n == Cardinality({i \in DOMAIN dealloc : dealloc[i] >= cap})
           queue == SubSeq(dealloc, 1, n) \o <<cap>> \o SubSeq(dealloc, n + 1, Len(dealloc))
<1>1. n \in 0 .. Len(dealloc) /\ Len(dealloc) \in Nat
  BY CountedIndices
<1> HIDE DEF n
<1>2. /\ DOMAIN queue = 1 .. Len(dealloc) + 1
      /\ \A i \in 1 .. Len(dealloc) + 1 :
           queue[i] = IF i <= n THEN dealloc[i] ELSE IF i = n + 1 THEN cap ELSE dealloc[i - 1]
  <2> DEFINE above == SubSeq(dealloc, 1, n) \o <<cap>>
             below == SubSeq(dealloc, n + 1, Len(dealloc))
  <2>1. /\ SubSeq(dealloc, 1, n) \in Seq(Nat) /\ Len(SubSeq(dealloc, 1, n)) = n
        /\ \A i \in 1 .. n : SubSeq(dealloc, 1, n)[i] = dealloc[i]
    BY <1>1
  <2>2. /\ above \in Seq(Nat) /\ Len(above) = n + 1
        /\ \A i \in 1 .. n + 1 : above[i] = IF i <= n THEN dealloc[i] ELSE cap
    BY <1>1, <2>1
  <2>3. /\ below \in Seq(Nat) /\ Len(below) = Len(dealloc) - n
        /\ \A i \in 1 .. Len(dealloc) - n : below[i] = dealloc[n + i]
    <3>1. /\ below \in Seq(Nat)
          /\ Len(below) = IF n + 1 <= Len(dealloc) THEN Len(dealloc) - (n + 1) + 1 ELSE 0
          /\ \A i \in 1 .. Len(dealloc) - (n + 1) + 1 : below[i] = dealloc[n + 1 + i - 1]
      BY <1>1
    <3> HIDE DEF below
    <3>2. /\ Len(dealloc) - (n + 1) + 1 = Len(dealloc) - n
          /\ (IF n + 1 <= Len(dealloc) THEN Len(dealloc) - (n + 1) + 1 ELSE 0) = Len(dealloc) - n
          /\ \A i \in 1 .. Len(dealloc) - n : n + 1 + i - 1 = n + i
      BY ONLY <1>1
    <3> QED
      BY <3>1, <3>2
  <2> HIDE DEF above, below
  <2>4. /\ DOMAIN (above \o below) = 1 .. Len(dealloc) + 1
        /\ \A i \in 1 .. Len(dealloc) + 1 :
             (above \o below)[i] = IF i <= n + 1 THEN above[i] ELSE below[i - (n + 1)]
    <3>1. /\ Len(above \o below) = (n + 1) + (Len(dealloc) - n)
          /\ above \o below \in Seq(Nat)
          /\ \A i \in 1 .. (n + 1) + (Len(dealloc) - n) :
               (above \o below)[i] = IF i <= n + 1 THEN above[i] ELSE below[i - (n + 1)]
      <4>1. /\ above \o below \in Seq(Nat)
            /\ Len(above \o below) = Len(above) + Len(below)
            /\ \A i \in 1 .. Len(above) + Len(below) :
                 (above \o below)[i] =
                   IF i <= Len(above) THEN above[i] ELSE below[i - Len(above)]
        BY <2>2, <2>3, ConcatProperties
      <4> QED
        BY <2>2, <2>3, <4>1
    <3>2. (n + 1) + (Len(dealloc) - n) = Len(dealloc) + 1
      BY <1>1
    <3> QED
      BY <3>1, <3>2, SMTT(60)
  <2>5. \A i \in 1 .. Len(dealloc) + 1 : i > n + 1 =>
          i - (n + 1) \in 1 .. Len(dealloc) - n /\ n + (i - (n + 1)) = i - 1
    BY <1>1
  <2>6. \A i \in 1 .. Len(dealloc) + 1 :
          (above \o below)[i] =
            IF i <= n THEN dealloc[i] ELSE IF i = n + 1 THEN cap ELSE dealloc[i - 1]
    <3> TAKE i \in 1 .. Len(dealloc) + 1
    <3>1. CASE i <= n
      BY <1>1, <2>2, <2>4, <3>1, SMTT(60)
    <3>2. CASE i = n + 1
      BY <1>1, <2>2, <2>4, <3>2
    <3>3. CASE i > n + 1
      <4>1. (above \o below)[i] = below[i - (n + 1)]
        BY <1>1, <2>4, <3>3
      <4>2. below[i - (n + 1)] = dealloc[n + (i - (n + 1))]
        BY <2>3, <2>5, <3>3
      <4> QED
        BY <1>1, <2>5, <3>3, <4>1, <4>2
    <3>4. i <= n \/ i = n + 1 \/ i > n + 1
      BY <1>1
    <3> QED
      BY <3>1, <3>2, <3>3, <3>4, Zenon
  <2> QED
    BY <2>4, <2>6 DEF above, below
<1>3. Enqueue(dealloc, cap) = queue
  BY DEF Enqueue, n
<1> HIDE DEF queue
<1>4. ASSUME NEW c \in Caps(dealloc) PROVE c \in Caps(queue)
  <2>1. PICK i \in 1 .. Len(dealloc) : c = dealloc[i]
    BY DEF Caps
  <2>2. CASE i <= n
    BY <1>1, <1>2, <2>1, <2>2 DEF Caps
  <2>3. CASE i > n
    <3>1. i + 1 \in DOMAIN queue /\ queue[i + 1] = c
      BY <1>1, <1>2, <2>1, <2>3
    <3> QED
      BY <3>1 DEF Caps
  <2> QED
    BY <1>1, <2>2, <2>3
<1>5. cap \in Caps(queue)
  <2>1. n + 1 \in DOMAIN queue /\ queue[n + 1] = cap
    BY <1>1, <1>2
  <2> QED
    BY <2>1 DEF Caps
<1>6. ASSUME NEW c \in Caps(queue) PROVE c \in Caps(dealloc) \cup {cap}
  <2>1. PICK i \in 1 .. Len(dealloc) + 1 : c = queue[i]
    BY <1>2, <1>6 DEF Caps
  <2>2. CASE i <= n
    BY <1>1, <1>2, <2>1, <2>2 DEF Caps
  <2>3. CASE i = n + 1
    BY <1>1, <1>2, <2>1, <2>3
  <2>4. CASE i > n + 1
    <3>1. i - 1 \in DOMAIN dealloc /\ c = dealloc[i - 1]
      BY <1>1, <1>2, <2>1, <2>4
    <3> QED
      BY <3>1 DEF Caps
  <2> QED
    BY <1>1, <2>1, <2>2, <2>3, <2>4
<1> QED
  BY <1>3, <1>4, <1>5, <1>6

\* Nothing settles where no queued value ends.
LEMMA SettledNone ==
  ASSUME NEW dealloc \in Seq(Nat), NEW top \in Nat,
         \A i \in DOMAIN dealloc : dealloc[i] # top
  PROVE  Settled(dealloc, top) = 0
<1>1. {n \in DOMAIN dealloc : \A i \in 1 .. n : dealloc[i] + i = top + 1} = {}
  <2>1. ASSUME NEW n \in DOMAIN dealloc, \A i \in 1 .. n : dealloc[i] + i = top + 1
        PROVE  FALSE
    <3>1. 1 \in 1 .. n /\ 1 \in DOMAIN dealloc
      OBVIOUS
    <3>2. dealloc[1] + 1 = top + 1 /\ dealloc[1] \in Nat
      BY <2>1, <3>1
    <3> QED
      BY <3>1, <3>2
  <2> QED
    BY <2>1
<1> QED
  BY <1>1, FS_EmptySet, Zenon DEF Settled

\* Just the value below settles if the queue has nothing else that high.
LEMMA SettledOne ==
  ASSUME NEW dealloc \in Seq(Nat), NEW top \in Nat,
         \A i \in DOMAIN dealloc : dealloc[i] + 1 < top
  PROVE  Settled(<<top>> \o dealloc, top) = 1
<1> DEFINE queue == <<top>> \o dealloc
           settled == {n \in DOMAIN queue : \A i \in 1 .. n : queue[i] + i = top + 1}
<1>1. /\ DOMAIN queue = 1 .. Len(dealloc) + 1
      /\ queue[1] = top
      /\ \A i \in 2 .. Len(dealloc) + 1 : queue[i] = dealloc[i - 1]
  OBVIOUS
<1> HIDE DEF queue
<1>2. 1 \in settled
  BY <1>1
<1>3. ASSUME NEW n \in settled PROVE n = 1
  <2>1. n \in 1 .. Len(dealloc) + 1 /\ \A i \in 1 .. n : queue[i] + i = top + 1
    BY <1>1
  <2>2. SUFFICES ASSUME n >= 2 PROVE FALSE
    BY <2>1
  <2>3. 2 \in 2 .. Len(dealloc) + 1 /\ 1 \in DOMAIN dealloc /\ 2 \in 1 .. n
    BY <2>1, <2>2
  <2>4. queue[2] = dealloc[1] /\ queue[2] + 2 = top + 1
    BY <1>1, <2>1, <2>3
  <2>5. dealloc[1] \in Nat /\ dealloc[1] + 1 < top
    BY <2>3
  <2> QED
    BY <2>4, <2>5
<1>4. settled = {1}
  BY <1>2, <1>3
<1> QED
  BY <1>4, FS_Singleton, Zenon DEF Settled, queue

\* A value that is not the last one is queued, and no slot goes.
LEMMA ReleaseBelow ==
  ASSUME NEW frame \in Frames, NEW top \in Nat, Len(frame.slots) > top + 1
  PROVE  /\ Release(frame, top) = [frame EXCEPT !.dealloc = Enqueue(frame.dealloc, top + 1)]
         /\ Release(frame, top).slots = frame.slots
         /\ Release(frame, top).dealloc = Enqueue(frame.dealloc, top + 1)
<1>1. Len(frame.slots) \in Nat
  BY DEF Frames
<1>2. Release(frame, top) = [frame EXCEPT !.dealloc = Enqueue(frame.dealloc, top + 1)]
  BY <1>1 DEF Release
<1> QED
  BY <1>2 DEF Frames

\* The last slot goes, and the slots of the n values that settle under it.
LEMMA ReleaseLast ==
  ASSUME NEW frame \in Frames, NEW top \in Nat, Len(frame.slots) = top + 1,
         NEW n \in Nat, n = Settled(frame.dealloc, top)
  PROVE  Release(frame, top) =
           [slots |-> SubSeq(frame.slots, 1, top - n),
            dealloc |-> SubSeq(frame.dealloc, n + 1, Len(frame.dealloc))]
BY DEF Release

-----------------------------------------------------------------------------
(* The calls of the application *)

\* A call of setmetatable on one of the tables of a task leaves a frame.
LEMMA SetGlobalMetatableType ==
  ASSUME NEW frame \in Frames, NEW table \in Nat
  PROVE  SetGlobalMetatable(frame, table) \in Frames
<1> DEFINE function == Push(frame, "setmetatable")
           metatable == Push(function, "metatable")
           result == Push(metatable, At(metatable, table))
<1>1. function \in Frames
  BY PushFrame DEF Contents
<1>2. metatable \in Frames
  BY <1>1, PushFrame DEF Contents
<1>3. result \in Frames
  BY <1>2, AtType, PushFrame
<1>4. Len(frame.slots) \in Nat /\ Len(function.slots) \in Nat /\ Len(metatable.slots) \in Nat
  BY <1>1, <1>2 DEF Frames
<1> HIDE DEF function, metatable, result
<1>5. Release(result, Len(function.slots)) \in Frames
  BY <1>3, <1>4, ReleaseType
<1>6. Release(Release(result, Len(function.slots)), Len(metatable.slots)) \in Frames
  BY <1>4, <1>5, ReleaseType
<1> QED
  BY <1>4, <1>6, ReleaseType DEF SetGlobalMetatable, function, metatable, result

\* So does one on a row table.
LEMMA SetMetatableType ==
  ASSUME NEW frame \in Frames, NEW table \in Nat
  PROVE  SetMetatable(frame, table) \in Frames
<1> DEFINE function == Push(frame, "setmetatable")
           result == Push(function, At(frame, table))
<1>1. function \in Frames
  BY PushFrame DEF Contents
<1>2. result \in Frames
  BY <1>1, AtType, PushFrame
<1>3. Len(frame.slots) \in Nat /\ Len(function.slots) \in Nat
  BY <1>1 DEF Frames
<1> HIDE DEF function, result
<1>4. Release(result, Len(function.slots)) \in Frames
  BY <1>2, <1>3, ReleaseType
<1> QED
  BY <1>3, <1>4, ReleaseType DEF SetMetatable, function, result

\* db.query leaves a queue, of whatever it did to its own frame.
LEMMA QueryFrameType ==
  ASSUME NEW args \in Seq(Contents), NEW dealloc \in Seq(Nat)
  PROVE  QueryFrame(args, dealloc) \in Frames
<1> DEFINE row == Len(args)
           tables == [slots |-> args \o <<"row", "methods", "metatable">>, dealloc |-> dealloc]
           made == Release(Release(SetMetatable(tables, row + 1), row + 2), row + 1)
<1>1. row \in Nat /\ tables \in Frames
  <2>1. <<"row", "methods", "metatable">> \in Seq(Contents)
    BY DEF Contents
  <2>2. args \o <<"row", "methods", "metatable">> \in Seq(Contents)
    BY <2>1, ConcatProperties
  <2> QED
    BY <2>2 DEF Frames
<1> HIDE DEF tables, row
<1>2. SetMetatable(tables, row + 1) \in Frames
  BY <1>1, SetMetatableType
<1>3. Release(SetMetatable(tables, row + 1), row + 2) \in Frames
  BY <1>1, <1>2, ReleaseType
<1>4. made \in Frames
  BY <1>1, <1>3, ReleaseType
<1> HIDE DEF made
<1>5. Push(made, At(made, row + 1)) \in Frames
  BY <1>1, <1>4, AtType, PushFrame
<1>6. Release(Push(made, At(made, row + 1)), row) \in Frames
  BY <1>1, <1>5, ReleaseType
<1> QED
  BY <1>6 DEF QueryFrame, made, tables, row

\* A value above which nothing waits gives back its own slot.
LEMMA LastReleased ==
  ASSUME NEW frame \in Frames, NEW top \in Nat, Len(frame.slots) = top + 1,
         \A i \in DOMAIN frame.dealloc : frame.dealloc[i] < top
  PROVE  Release(frame, top) = [slots |-> SubSeq(frame.slots, 1, top), dealloc |-> frame.dealloc]
<1>1. frame.dealloc \in Seq(Nat)
  BY DEF Frames
<1>2. Settled(frame.dealloc, top) = 0
  <2>1. \A i \in DOMAIN frame.dealloc : frame.dealloc[i] # top
    BY <1>1
  <2> QED
    BY <1>1, <2>1, SettledNone
<1>3. Release(frame, top) = [slots |-> SubSeq(frame.slots, 1, top - 0),
                             dealloc |-> SubSeq(frame.dealloc, 0 + 1, Len(frame.dealloc))]
  BY <1>2, ReleaseLast
<1>4. SubSeq(frame.dealloc, 0 + 1, Len(frame.dealloc)) = frame.dealloc /\ top - 0 = top
  BY <1>1
<1> QED
  BY <1>3, <1>4

\* A value destroyed under the last one goes with it.
LEMMA PairReleased ==
  ASSUME NEW frame \in Frames, NEW top \in Nat, Len(frame.slots) = top + 2,
         \A i \in DOMAIN frame.dealloc : frame.dealloc[i] < top
  PROVE  Release(Release(frame, top), top + 1) =
           [slots |-> SubSeq(frame.slots, 1, top), dealloc |-> frame.dealloc]
<1>1. frame.dealloc \in Seq(Nat) /\ frame.slots \in Seq(Contents)
  BY DEF Frames
<1>2. Enqueue(frame.dealloc, top + 1) = <<top + 1>> \o frame.dealloc
  <2>1. \A i \in DOMAIN frame.dealloc : frame.dealloc[i] < top + 1
    BY <1>1
  <2> QED
    BY <1>1, <2>1, EnqueueFront
<1>3. /\ Release(frame, top).slots = frame.slots
      /\ Release(frame, top).dealloc = <<top + 1>> \o frame.dealloc
      /\ Release(frame, top) \in Frames
  BY <1>2, ReleaseBelow, ReleaseType, SMTT(60)
<1>4. Settled(<<top + 1>> \o frame.dealloc, top + 1) = 1
  <2>1. \A i \in DOMAIN frame.dealloc : frame.dealloc[i] + 1 < top + 1
    BY <1>1
  <2> QED
    BY <1>1, <2>1, SettledOne
<1>5. Release(Release(frame, top), top + 1) =
        [slots |-> SubSeq(frame.slots, 1, (top + 1) - 1),
         dealloc |-> SubSeq(<<top + 1>> \o frame.dealloc, 1 + 1,
                            Len(<<top + 1>> \o frame.dealloc))]
  <2> DEFINE queued == Release(frame, top)
  <2>1. /\ queued \in Frames /\ queued.slots = frame.slots
        /\ queued.dealloc = <<top + 1>> \o frame.dealloc
        /\ Len(queued.slots) = (top + 1) + 1
    BY <1>3
  <2> HIDE DEF queued
  <2>2. 1 = Settled(queued.dealloc, top + 1) /\ top + 1 \in Nat /\ 1 \in Nat
    BY <1>4, <2>1
  <2>3. Release(queued, top + 1) =
          [slots |-> SubSeq(queued.slots, 1, (top + 1) - 1),
           dealloc |-> SubSeq(queued.dealloc, 1 + 1, Len(queued.dealloc))]
    BY <2>1, <2>2, ReleaseLast, Zenon
  <2> QED
    BY <2>1, <2>3 DEF queued
<1>6. SubSeq(<<top + 1>> \o frame.dealloc, 2, Len(<<top + 1>> \o frame.dealloc)) = frame.dealloc
  BY <1>1
<1>7. (top + 1) - 1 = top /\ 1 + 1 = 2
  OBVIOUS
<1> QED
  BY <1>5, <1>6, <1>7

\* A call of setmetatable gives back every slot it used, if every value that
\* waits in the queue is below those of the frame.
LEMMA SetGlobalMetatableRestores ==
  ASSUME NEW frame \in Frames, NEW table \in Nat,
         \A i \in DOMAIN frame.dealloc : frame.dealloc[i] < Len(frame.slots)
  PROVE  SetGlobalMetatable(frame, table) = frame
<1> DEFINE k == Len(frame.slots)
           function == Push(frame, "setmetatable")
           metatable == Push(function, "metatable")
           result == Push(metatable, At(metatable, table))
<1>1. /\ k \in Nat /\ frame.slots \in Seq(Contents) /\ frame.dealloc \in Seq(Nat)
      /\ frame = [slots |-> frame.slots, dealloc |-> frame.dealloc]
      /\ "setmetatable" \in Contents /\ "metatable" \in Contents
  BY DEF Frames, Contents
<1>2. /\ function \in Frames /\ Len(function.slots) = k + 1
      /\ function.dealloc = frame.dealloc /\ SubSeq(function.slots, 1, k) = frame.slots
  BY <1>1, PushFrame
<1>3. /\ metatable \in Frames /\ Len(metatable.slots) = (k + 1) + 1
      /\ metatable.dealloc = frame.dealloc /\ SubSeq(metatable.slots, 1, k + 1) = function.slots
  <2> HIDE DEF function
  <2> QED
    BY <1>1, <1>2, PushFrame
<1>4. /\ result \in Frames /\ Len(result.slots) = ((k + 1) + 1) + 1
      /\ result.dealloc = frame.dealloc /\ SubSeq(result.slots, 1, (k + 1) + 1) = metatable.slots
  <2> HIDE DEF metatable
  <2>1. At(metatable, table) \in Contents
    BY <1>3, AtType
  <2> QED
    BY <1>1, <1>3, <2>1, PushFrame, ZenonT(60)
<1>5. SubSeq(result.slots, 1, k + 1) = function.slots
  <2> HIDE DEF result, metatable, function
  <2> QED
    BY <1>1, <1>2, <1>3, <1>4 DEF Frames
<1>6. \A i \in DOMAIN frame.dealloc :
        frame.dealloc[i] \in Nat /\ frame.dealloc[i] < k /\ frame.dealloc[i] < k + 1
  BY <1>1
<1>7. SetGlobalMetatable(frame, table) =
        Release(Release(Release(result, k + 1), (k + 1) + 1), k)
  BY <1>2, <1>3 DEF SetGlobalMetatable
<1> HIDE DEF function, metatable, result, k
<1>8. Release(Release(result, k + 1), (k + 1) + 1) =
        [slots |-> function.slots, dealloc |-> frame.dealloc]
  <2>1. Len(result.slots) = (k + 1) + 2
    BY <1>1, <1>4
  <2> QED
    <3>1. \A i \in DOMAIN result.dealloc : result.dealloc[i] < k + 1
      BY <1>4, <1>6
    <3>2. Release(Release(result, k + 1), (k + 1) + 1) =
            [slots |-> SubSeq(result.slots, 1, k + 1), dealloc |-> result.dealloc]
      <4>1. k + 1 \in Nat
        BY <1>1
      <4> QED
        BY <1>4, <2>1, <3>1, <4>1, PairReleased
    <3> QED
      BY <1>4, <1>5, <3>2
<1>9. Release([slots |-> function.slots, dealloc |-> frame.dealloc], k) = frame
  <2> DEFINE rest == [slots |-> function.slots, dealloc |-> frame.dealloc]
  <2>1. /\ rest \in Frames /\ Len(rest.slots) = k + 1 /\ rest.dealloc = frame.dealloc
        /\ rest.slots = function.slots
    BY <1>1, <1>2 DEF Frames
  <2> HIDE DEF rest
  <2>2. Release(rest, k) = [slots |-> SubSeq(rest.slots, 1, k), dealloc |-> rest.dealloc]
    BY <1>1, <1>6, <2>1, LastReleased
  <2> QED
    BY <1>1, <1>2, <2>1, <2>2 DEF rest
<1> QED
  BY <1>7, <1>8, <1>9

\* What a task makes of any frame is a frame.
LEMMA TaskFrameType ==
  ASSUME NEW frame \in Frames
  PROVE  TaskTables(frame) \in Frames /\ TaskFrame(frame) \in Frames
<1>1. Len(frame.slots) + 1 \in Nat /\ Len(frame.slots) + 2 \in Nat
  BY DEF Frames
<1>2. Push(Push(frame, "request"), "response") \in Frames
  <2>1. "request" \in Contents /\ "response" \in Contents
    BY DEF Contents
  <2>2. Push(frame, "request") \in Frames
    BY <2>1, PushFrame
  <2> QED
    BY <2>1, <2>2, PushFrame
<1>3. TaskTables(frame) \in Frames
  BY <1>1, <1>2, SetGlobalMetatableType DEF TaskTables
<1> QED
  BY <1>1, <1>3, SetGlobalMetatableType DEF TaskFrame

\* With no cap above its slots, a task finds both its tables on top of them.
LEMMA TaskFrameTables ==
  ASSUME NEW frame \in Frames,
         \A i \in DOMAIN frame.dealloc : frame.dealloc[i] <= Len(frame.slots)
  PROVE  /\ SecondIsTable(frame)
         /\ TaskFrame(frame).slots = frame.slots \o <<"request", "response">>
         /\ TaskFrame(frame).dealloc = frame.dealloc
<1> DEFINE k == Len(frame.slots)
           tables == Push(Push(frame, "request"), "response")
<1>1. /\ k \in Nat /\ frame.slots \in Seq(Contents) /\ frame.dealloc \in Seq(Nat)
      /\ {"request", "response", "setmetatable", "metatable"} \subseteq Contents
  BY DEF Frames, Contents
<1>2. /\ tables \in Frames /\ Len(tables.slots) = k + 2 /\ tables.dealloc = frame.dealloc
      /\ tables.slots = Append(Append(frame.slots, "request"), "response")
  <2>1. /\ Push(frame, "request") \in Frames
        /\ Push(frame, "request").slots = Append(frame.slots, "request")
        /\ Push(frame, "request").dealloc = frame.dealloc
        /\ Len(Push(frame, "request").slots) = k + 1
    BY <1>1, PushFrame
  <2> DEFINE request == Push(frame, "request")
  <2> HIDE DEF request
  <2>2. /\ Push(request, "response") \in Frames
        /\ Push(request, "response").slots = Append(request.slots, "response")
        /\ Push(request, "response").dealloc = request.dealloc
        /\ Len(Push(request, "response").slots) = Len(request.slots) + 1
    BY <1>1, <2>1, PushFrame DEF request
  <2> QED
    BY <1>1, <2>1, <2>2, SMTT(60) DEF request
<1>3. TaskTables(frame) = SetGlobalMetatable(tables, k + 1)
  BY DEF TaskTables
<1> HIDE DEF tables
<1>4. \A t \in Nat : SetGlobalMetatable(tables, t) = tables
  <2>1. \A i \in DOMAIN tables.dealloc : tables.dealloc[i] < Len(tables.slots)
    BY <1>1, <1>2
  <2> QED
    BY <1>2, <2>1, SetGlobalMetatableRestores
<1>5. TaskTables(frame) = tables /\ TaskFrame(frame) = tables
  BY <1>1, <1>3, <1>4 DEF TaskFrame
<1>6. tables.slots = frame.slots \o <<"request", "response">>
  BY <1>1, <1>2, SMTT(60)
<1>7. SecondIsTable(frame)
  <2> DEFINE function == Push(tables, "setmetatable")
  <2>1. function \in Frames /\ function.slots = Append(tables.slots, "setmetatable")
    BY <1>1, <1>2, PushFrame
  <2> HIDE DEF function
  <2>2. Push(function, "metatable").slots = Append(function.slots, "metatable")
    BY <1>1, <2>1, PushFrame
  <2>3. \A slots \in Seq(Contents) : \A x \in Contents :
          /\ Append(slots, x) \in Seq(Contents) /\ Len(Append(slots, x)) = Len(slots) + 1
          /\ \A i \in 1 .. Len(slots) : Append(slots, x)[i] = slots[i]
    BY AppendProperties
  <2>4. /\ k + 2 \in DOMAIN Push(function, "metatable").slots
        /\ Push(function, "metatable").slots[k + 2] = "response"
    <3>1. /\ tables.slots \in Seq(Contents) /\ Len(tables.slots) = k + 2
          /\ tables.slots[k + 2] = "response"
      BY <1>1, <1>2, <1>6
    <3>2. k + 2 \in 1 .. Len(tables.slots)
      BY <1>1, <3>1
    <3>3. /\ function.slots \in Seq(Contents) /\ Len(function.slots) = k + 2 + 1
          /\ function.slots[k + 2] = "response"
      BY <1>1, <2>1, <2>3, <3>1, <3>2
    <3>4. k + 2 \in 1 .. Len(function.slots)
      BY <1>1, <3>3
    <3>5. /\ Append(function.slots, "metatable") \in Seq(Contents)
          /\ Len(Append(function.slots, "metatable")) = k + 2 + 1 + 1
          /\ Append(function.slots, "metatable")[k + 2] = "response"
      BY <1>1, <2>3, <3>3, <3>4
    <3>6. k + 2 \in DOMAIN Append(function.slots, "metatable")
      BY <1>1, <3>5
    <3> QED
      BY <2>2, <3>5, <3>6
  <2>5. At(Push(function, "metatable"), k + 2) = "response"
    BY <2>4 DEF At
  <2> QED
    BY <1>5, <2>5 DEF SecondIsTable, function, Tables
<1> QED
  BY <1>2, <1>5, <1>6, <1>7

\* The locals of a task are released to a frame, whichever one it is by then.
LEMMA TaskLocalsType ==
  ASSUME NEW frame \in Frames, NEW base \in Nat
  PROVE  TaskLocals(frame, base) \in Frames
<1>1. base + 1 \in Nat
  OBVIOUS
<1>2. Release(frame, base + 1) \in Frames
  BY <1>1, ReleaseType
<1> QED
  BY <1>2, ReleaseType DEF TaskLocals

\* A finished task leaves its slots, what its endpoint left above them, and a
\* cap in the queue for each of its two tables.
LEMMA TaskEndCaps ==
  ASSUME NEW frame \in Frames, NEW base \in Nat, NEW results \in Seq(Contents)
  PROVE  /\ TaskEnd(frame, base, results) \in Frames
         /\ Len(frame.slots) = base + 2 =>
              /\ TaskEnd(frame, base, results).slots = frame.slots \o <<"endpoint">> \o results
              /\ Caps(TaskEnd(frame, base, results).dealloc) =
                   Caps(frame.dealloc) \cup {base + 1, base + 2}
<1> DEFINE left == [frame EXCEPT !.slots = @ \o <<"endpoint">> \o results]
           response == Release(left, base + 1)
<1>1. /\ frame.slots \in Seq(Contents) /\ frame.dealloc \in Seq(Nat)
      /\ <<"endpoint">> \in Seq(Contents)
  BY DEF Frames, Contents
<1>2. /\ frame.slots \o <<"endpoint">> \o results \in Seq(Contents)
      /\ Len(frame.slots \o <<"endpoint">> \o results) = Len(frame.slots) + 1 + Len(results)
  <2>1. /\ frame.slots \o <<"endpoint">> \in Seq(Contents)
        /\ Len(frame.slots \o <<"endpoint">>) = Len(frame.slots) + 1
    BY <1>1
  <2> QED
    BY <2>1, ConcatProperties
<1>3. /\ left \in Frames /\ left.dealloc = frame.dealloc
      /\ left.slots = frame.slots \o <<"endpoint">> \o results
  BY <1>1, <1>2 DEF Frames
<1> HIDE DEF left
<1>4. base + 1 \in Nat /\ response \in Frames
  BY <1>3, ReleaseType
<1>5. Release(response, base) = TaskEnd(frame, base, results)
  BY DEF TaskEnd, TaskLocals, left
<1>6. TaskEnd(frame, base, results) \in Frames
  BY <1>4, <1>5, ReleaseType
<1>7. ASSUME Len(frame.slots) = base + 2
      PROVE  /\ TaskEnd(frame, base, results).slots = left.slots
             /\ Caps(TaskEnd(frame, base, results).dealloc) =
                  Caps(frame.dealloc) \cup {base + 1, base + 2}
  <2>1. Len(left.slots) > (base + 1) + 1 /\ (base + 1) + 1 = base + 2
    BY <1>1, <1>2, <1>3, <1>7
  <2>2. /\ response.slots = left.slots
        /\ response.dealloc = Enqueue(frame.dealloc, base + 2)
    BY <1>3, <1>4, <2>1, ReleaseBelow
  <2>3. Len(response.slots) > base + 1
    BY <1>1, <1>2, <1>3, <1>7, <2>2
  <2> HIDE DEF response
  <2>4. /\ Release(response, base).slots = response.slots
        /\ Release(response, base).dealloc = Enqueue(response.dealloc, base + 1)
    BY <1>4, <2>3, ReleaseBelow
  <2>5. /\ Caps(Enqueue(frame.dealloc, base + 2)) = Caps(frame.dealloc) \cup {base + 2}
        /\ Enqueue(frame.dealloc, base + 2) \in Seq(Nat)
    <3>1. base + 2 \in Nat
      OBVIOUS
    <3>2. \A d \in Seq(Nat) : \A c \in Nat :
            Caps(Enqueue(d, c)) = Caps(d) \cup {c} /\ Enqueue(d, c) \in Seq(Nat)
      BY EnqueueCaps, EnqueueType
    <3> QED
      BY <1>1, <3>1, <3>2, Zenon
  <2>6. Caps(Enqueue(response.dealloc, base + 1)) = Caps(response.dealloc) \cup {base + 1}
    <3>1. response.dealloc \in Seq(Nat)
      BY <2>2, <2>5
    <3> QED
      BY <1>4, <3>1, EnqueueCaps, Zenon
  <2> QED
    BY <1>5, <2>2, <2>4, <2>5, <2>6
<1> QED
  BY <1>3, <1>6, <1>7

=============================================================================
