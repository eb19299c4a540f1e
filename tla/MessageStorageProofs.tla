------------------------ MODULE MessageStorageProofs ------------------------
(***************************************************************************)
(* What MessageStorage keeps while its callers take turns, and what it     *)
(* keeps when they do not, for any finite number of callers, any messages  *)
(* and any capacity.                                                       *)
(***************************************************************************)
EXTENDS MessageStorage, SequenceTheorems, FiniteSetTheorems, TLAPS

(* What KeptWhenAlone says of the arguments of all pushes so far.          *)
Kept(s) == IF Len(s) <= Capacity THEN s
           ELSE Append(SubSeq(s, 1, Capacity - 1), Last(s))

(* Until two calls have overlapped, at most one is under way.              *)
OneAtATime ==
  ~crowded => \A p, q \in Pushers : step[p] # "idle" /\ step[q] # "idle" => p = q

(* The storage before, within and after a Push that nobody disturbs.       *)
StackOK ==
  ~crowded =>
    /\ (\A p \in Pushers : step[p] = "idle") => stack = Kept(pushed)
    /\ \A p \in Pushers :
         /\ step[p] = "pop" => stack = Kept(pushed) /\ Len(stack) = Capacity
         /\ step[p] = "push" =>
              IF Len(pushed) < Capacity THEN stack = pushed
              ELSE stack = SubSeq(pushed, 1, Capacity - 1)

StorageInv == StorageTypeOK /\ OneAtATime /\ StackOK

-----------------------------------------------------------------------------
(* What is on top of a sequence can be taken off again.                    *)
LEMMA FrontOfAppend ==
  ASSUME NEW S, NEW s \in Seq(S), NEW x \in S
  PROVE  Front(Append(s, x)) = s
<1> DEFINE t == Append(s, x)
<1>1. t \in Seq(S) /\ Len(t) = Len(s) + 1 OBVIOUS
<1>2. Front(t) = SubSeq(t, 1, Len(s)) BY <1>1 DEF Front
<1>3. Front(t) \in Seq(S) /\ Len(Front(t)) = Len(s) BY <1>1, <1>2
<1>4. \A i \in 1..Len(s) : Front(t)[i] = s[i] BY <1>1, <1>2
<1> QED BY <1>3, <1>4, SeqEqual

(* A sequence without its last element.                                    *)
LEMMA FrontType ==
  ASSUME NEW S, NEW s \in Seq(S), s # << >>
  PROVE  Front(s) \in Seq(S) /\ Len(Front(s)) = Len(s) - 1
<1>1. Len(s) \in Nat /\ Len(s) # 0 BY EmptySeq
<1>2. \A i \in 1..Len(s) - 1 : s[i] \in S BY <1>1
<1>3. PICK n \in Nat : n = Len(s) - 1 BY <1>1
<1>4. SubSeq(s, 1, n) \in Seq(S) BY <1>2, <1>3, SubSeqProperties
<1>5. Len(SubSeq(s, 1, n)) = IF 1 <= n THEN n - 1 + 1 ELSE 0
  BY <1>2, <1>3, SubSeqProperties
<1>6. Len(SubSeq(s, 1, n)) = n BY <1>5
<1> QED BY <1>3, <1>4, <1>6 DEF Front

(* The message on top is the one that makes room.                          *)
LEMMA KeptFront ==
  ASSUME NEW S, NEW s \in Seq(S), Len(Kept(s)) = Capacity
  PROVE  /\ Len(s) >= Capacity
         /\ Front(Kept(s)) = SubSeq(s, 1, Capacity - 1)
<1>0. Capacity \in Nat \ {0} BY CapacityAssumption
<1>1. CASE Len(s) <= Capacity
  BY <1>0, <1>1 DEF Kept, Front
<1>2. CASE Len(s) > Capacity
  <2>1. Last(s) \in S BY <1>0, <1>2 DEF Last
  <2>2. SubSeq(s, 1, Capacity - 1) \in Seq(S) BY <1>0, <1>2
  <2>3. Len(SubSeq(s, 1, Capacity - 1)) = Capacity - 1 BY <1>0, <1>2
  <2>4. Front(Append(SubSeq(s, 1, Capacity - 1), Last(s)))
          = SubSeq(s, 1, Capacity - 1)
    BY <2>1, <2>2, FrontOfAppend
  <2> QED BY <1>0, <1>2, <2>4 DEF Kept
<1> QED BY <1>0, <1>1, <1>2

(* More than Capacity messages fill it exactly.                            *)
LEMMA KeptLength ==
  ASSUME NEW S, NEW s \in Seq(S), Len(s) > Capacity
  PROVE  Len(Kept(s)) = Capacity
<1>0. Capacity \in Nat \ {0} BY CapacityAssumption
<1>1. Last(s) \in S BY <1>0 DEF Last
<1>2. /\ SubSeq(s, 1, Capacity - 1) \in Seq(S)
      /\ Len(SubSeq(s, 1, Capacity - 1)) = Capacity - 1
  BY <1>0
<1>3. Len(Append(SubSeq(s, 1, Capacity - 1), Last(s))) = Capacity
  BY <1>0, <1>1, <1>2
<1> QED BY <1>0, <1>3 DEF Kept

(* One more message: on top of all, or of the first Capacity - 1.          *)
LEMMA KeptAppend ==
  ASSUME NEW S, NEW s \in Seq(S), NEW m \in S
  PROVE  Kept(Append(s, m)) = IF Len(s) < Capacity THEN Append(s, m)
                              ELSE Append(SubSeq(s, 1, Capacity - 1), m)
<1>0. Capacity \in Nat \ {0} BY CapacityAssumption
<1>1. Len(Append(s, m)) = Len(s) + 1 /\ Last(Append(s, m)) = m BY DEF Last
<1>2. ASSUME Len(s) >= Capacity
      PROVE  SubSeq(Append(s, m), 1, Capacity - 1) = SubSeq(s, 1, Capacity - 1)
  <2> DEFINE a == SubSeq(Append(s, m), 1, Capacity - 1)
             b == SubSeq(s, 1, Capacity - 1)
  <2>1. a \in Seq(S) /\ Len(a) = Capacity - 1 BY <1>0, <1>1, <1>2
  <2>2. b \in Seq(S) /\ Len(b) = Capacity - 1 BY <1>0, <1>2
  <2>3. \A i \in 1..Capacity - 1 : a[i] = b[i] BY <1>0, <1>1, <1>2
  <2> QED BY <2>1, <2>2, <2>3, SeqEqual
<1>3. CASE Len(s) < Capacity BY <1>0, <1>1, <1>3 DEF Kept
<1>4. CASE Len(s) >= Capacity
  <2>1. Len(Append(s, m)) > Capacity BY <1>0, <1>1, <1>4
  <2>2. Kept(Append(s, m)) = Append(SubSeq(Append(s, m), 1, Capacity - 1),
                                    Last(Append(s, m)))
    BY <1>0, <2>1 DEF Kept
  <2>3. ~(Len(s) < Capacity) BY <1>0, <1>4
  <2> QED BY <1>1, <1>2, <1>4, <2>2, <2>3
<1> QED BY <1>0, <1>3, <1>4
-----------------------------------------------------------------------------
(* The empty storage.                                                      *)
LEMMA InitOK == StorageInit => StorageInv
<1> SUFFICES ASSUME StorageInit PROVE StorageInv OBVIOUS
<1>0. Capacity \in Nat \ {0} BY CapacityAssumption
<1>1. StorageTypeOK
  <2>1. << >> \in Seq(Messages) /\ Len(<< >>) = 0 OBVIOUS
  <2>2. stack = << >> /\ pushed = << >> BY DEF StorageInit
  <2>3. stack \in Seq(Messages) /\ pushed \in Seq(Messages) /\ Len(stack) <= Len(pushed)
    BY <2>1, <2>2
  <2> QED BY <2>3 DEF StorageInit, StorageTypeOK
<1>2. OneAtATime BY DEF StorageInit, OneAtATime
<1>3. StackOK BY <1>0 DEF StorageInit, StackOK, Kept
<1> QED BY <1>1, <1>2, <1>3 DEF StorageInv

(* The types, action by action.                                            *)
LEMMA TestCountType ==
  ASSUME StorageTypeOK, NEW c \in Pushers, NEW m \in Messages, TestCount(c, m)
  PROVE  StorageTypeOK'
BY DEF TestCount, StorageTypeOK

LEMMA TryPopType ==
  ASSUME StorageTypeOK, NEW c \in Pushers, TryPop(c)
  PROVE  StorageTypeOK'
<1>1. CASE stack = << >> BY <1>1 DEF TryPop, StorageTypeOK
<1>2. CASE stack # << >>
  <2>1. stack' = Front(stack) BY <1>2 DEF TryPop
  <2>2. stack' \in Seq(Messages) /\ Len(stack') = Len(stack) - 1
    BY <1>2, <2>1, FrontType DEF StorageTypeOK
  <2>3. Len(stack') <= Len(pushed) BY <2>2 DEF StorageTypeOK
  <2> QED BY <1>2, <2>2, <2>3 DEF TryPop, StorageTypeOK
<1> QED BY <1>1, <1>2

LEMMA DoPushType ==
  ASSUME StorageTypeOK, NEW c \in Pushers, DoPush(c)
  PROVE  StorageTypeOK'
<1>1. msg[c] \in Messages BY DEF StorageTypeOK
<1>2. /\ stack' \in Seq(Messages) /\ Len(stack') = Len(stack) + 1
      /\ pushed' \in Seq(Messages) /\ Len(pushed') = Len(pushed) + 1
  BY <1>1 DEF DoPush, StorageTypeOK
<1>3. Len(stack') <= Len(pushed') BY <1>2 DEF StorageTypeOK
<1> QED BY <1>2, <1>3 DEF DoPush, StorageTypeOK

(* A call begins: what it found decides whether it pops first.             *)
LEMMA TestCountOK ==
  ASSUME StorageInv, NEW c \in Pushers, NEW m \in Messages, TestCount(c, m)
  PROVE  StorageInv'
<1> USE DEF StorageInv
<1>0. Capacity \in Nat \ {0} BY CapacityAssumption
<1>1. StorageTypeOK' BY TestCountType
<1>2. OneAtATime' BY DEF TestCount, StorageTypeOK, OneAtATime
<1>3. StackOK'
  <2> SUFFICES ASSUME crowded' = FALSE PROVE StackOK' BY <1>1 DEF StackOK, StorageTypeOK
  <2>1. /\ crowded = FALSE /\ \A q \in Pushers : step[q] = "idle"
        /\ step' = [step EXCEPT ![c] = IF Len(stack) = Capacity THEN "pop" ELSE "push"]
        /\ stack' = stack /\ pushed' = pushed
    BY DEF TestCount, StorageTypeOK
  <2>2. stack = Kept(pushed) BY <2>1 DEF StackOK
  <2>3. stack' = Kept(pushed)' BY <2>1, <2>2 DEF Kept
  <2>4. CASE Len(stack) = Capacity
    <3>1. step'[c] = "pop" /\ \A q \in Pushers : q # c => step'[q] = "idle"
      BY <2>1, <2>4 DEF StorageTypeOK
    <3> QED BY <2>1, <2>3, <2>4, <3>1 DEF StackOK
  <2>5. CASE Len(stack) # Capacity
    <3>1. step'[c] = "push" /\ \A q \in Pushers : q # c => step'[q] = "idle"
      BY <2>1, <2>5 DEF StorageTypeOK
    <3>2. pushed \in Seq(Messages) BY DEF StorageTypeOK
    <3>3. Len(pushed) < Capacity /\ stack = pushed
      <4>1. CASE Len(pushed) <= Capacity BY <1>0, <2>2, <2>5, <3>2, <4>1 DEF Kept
      <4>2. CASE Len(pushed) > Capacity
        BY <1>0, <2>2, <2>5, <3>2, <4>2, KeptLength
      <4> QED BY <1>0, <3>2, <4>1, <4>2
    <3> QED BY <2>1, <3>1, <3>3 DEF StackOK
  <2> QED BY <2>4, <2>5
<1> QED BY <1>1, <1>2, <1>3

(* It makes room.                                                          *)
LEMMA TryPopOK ==
  ASSUME StorageInv, NEW c \in Pushers, TryPop(c)
  PROVE  StorageInv'
<1> USE DEF StorageInv
<1>0. Capacity \in Nat \ {0} BY CapacityAssumption
<1>1. StorageTypeOK' BY TryPopType
<1>2. OneAtATime' BY DEF TryPop, StorageTypeOK, OneAtATime
<1>3. StackOK'
  <2> SUFFICES ASSUME crowded' = FALSE PROVE StackOK' BY <1>1 DEF StackOK, StorageTypeOK
  <2>1. crowded = FALSE /\ step[c] = "pop" /\ pushed' = pushed BY DEF TryPop
  <2>2. stack = Kept(pushed) /\ Len(stack) = Capacity BY <2>1 DEF StackOK
  <2>3. pushed \in Seq(Messages) BY DEF StorageTypeOK
  <2>4. stack # << >> BY <1>0, <2>2
  <2>5. stack' = SubSeq(pushed, 1, Capacity - 1) /\ Len(pushed) >= Capacity
    BY <2>2, <2>3, <2>4, KeptFront DEF TryPop
  <2>6. step'[c] = "push" /\ \A q \in Pushers : q # c => step'[q] = "idle"
    BY <2>1, <2>4 DEF TryPop, StorageTypeOK, OneAtATime
  <2> QED BY <1>0, <2>1, <2>3, <2>5, <2>6 DEF StackOK
<1> QED BY <1>1, <1>2, <1>3

(* It stores its message.                                                  *)
LEMMA DoPushOK ==
  ASSUME StorageInv, NEW c \in Pushers, DoPush(c)
  PROVE  StorageInv'
<1> USE DEF StorageInv
<1>0. Capacity \in Nat \ {0} BY CapacityAssumption
<1>1. StorageTypeOK' BY DoPushType
<1>2. OneAtATime' BY DEF DoPush, StorageTypeOK, OneAtATime
<1>3. StackOK'
  <2> SUFFICES ASSUME crowded' = FALSE PROVE StackOK' BY <1>1 DEF StackOK, StorageTypeOK
  <2>1. crowded = FALSE /\ step[c] = "push" BY DEF DoPush
  <2>2. msg[c] \in Messages /\ pushed \in Seq(Messages) BY DEF StorageTypeOK
  <2>3. \A q \in Pushers : step'[q] = "idle"
    BY <2>1 DEF DoPush, StorageTypeOK, OneAtATime
  <2>4. Kept(Append(pushed, msg[c])) = Append(stack, msg[c])
    BY <2>1, <2>2, KeptAppend DEF StackOK
  <2>5. stack' = Kept(pushed)' BY <2>4 DEF DoPush, Kept
  <2> QED BY <2>3, <2>5 DEF StackOK
<1> QED BY <1>1, <1>2, <1>3

(* Every step keeps the invariant.                                         *)
LEMMA StepOK == StorageInv /\ [StorageNext]_storageVars => StorageInv'
<1> SUFFICES ASSUME StorageInv, [StorageNext]_storageVars PROVE StorageInv' OBVIOUS
<1>1. ASSUME NEW c \in Pushers, NEW m \in Messages, TestCount(c, m) PROVE StorageInv'
  BY <1>1, TestCountOK
<1>2. ASSUME NEW c \in Pushers, TryPop(c) PROVE StorageInv' BY <1>2, TryPopOK
<1>3. ASSUME NEW c \in Pushers, DoPush(c) PROVE StorageInv' BY <1>3, DoPushOK
<1>4. CASE UNCHANGED storageVars
  BY <1>4 DEF storageVars, StorageInv, StorageTypeOK, OneAtATime, StackOK, Kept
<1> QED BY <1>1, <1>2, <1>3, <1>4 DEF StorageNext
-----------------------------------------------------------------------------
(* The values of the storage's state.                                      *)
THEOREM StorageTypeCorrect == StorageSpec => []StorageTypeOK
<1>1. StorageSpec => []StorageInv BY InitOK, StepOK, PTL DEF StorageSpec
<1>2. StorageInv => StorageTypeOK BY DEF StorageInv
<1> QED BY <1>1, <1>2, PTL

(* While calls take turns the storage holds what KeptWhenAlone says: the   *)
(* first Capacity - 1 messages and the newest, at any capacity.            *)
THEOREM KeptWhenAloneCorrect == StorageSpec => []KeptWhenAlone
<1>1. StorageSpec => []StorageInv BY InitOK, StepOK, PTL DEF StorageSpec
<1>2. StorageInv => KeptWhenAlone
  BY DEF StorageInv, StorageTypeOK, StackOK, KeptWhenAlone, Kept
<1> QED BY <1>1, <1>2, PTL
-----------------------------------------------------------------------------
(* Calls that overlap.  Those that found the storage full and have not yet *)
(* popped.                                                                 *)
Popping == {p \in Pushers : step[p] = "pop"}

(* Each of them saw Capacity messages, and only callers that are no longer *)
(* among them can have popped since: one each.  So the storage holds, for  *)
(* every call about to pop, one message above the lowest level             *)
(* Capacity - Cardinality(Pushers).  A message pushed meanwhile adds to it.*)
RoomLeft ==
  Popping # {} =>
    Len(stack) >= Capacity - Cardinality(Pushers) + Cardinality(Popping)

OverlapInv == StorageTypeOK /\ RoomLeft /\ PushSucceeds

(* The callers about to pop are finitely many, at most all.                *)
LEMMA PoppingFinite ==
  /\ IsFiniteSet(Pushers) /\ Cardinality(Pushers) \in Nat
  /\ IsFiniteSet(Popping) /\ Cardinality(Popping) \in Nat
  /\ Cardinality(Popping) <= Cardinality(Pushers)
  /\ \A c \in Popping : Cardinality(Popping) >= 1
<1>1. IsFiniteSet(Pushers) BY PushersAssumption
<1>2. Popping \subseteq Pushers BY DEF Popping
<1>3. IsFiniteSet(Popping) /\ Cardinality(Popping) <= Cardinality(Pushers)
  BY <1>1, <1>2, FS_Subset
<1>4. Cardinality(Pushers) \in Nat /\ Cardinality(Popping) \in Nat
  BY <1>1, <1>3, FS_CardinalityType
<1>5. Cardinality(Popping) = 0 <=> Popping = {} BY <1>3, FS_EmptySet
<1>6. \A c \in Popping : Cardinality(Popping) >= 1 BY <1>4, <1>5
<1> QED BY <1>1, <1>3, <1>4, <1>6

(* What a caller about to pop finds.                                       *)
LEMMA FindsOne ==
  ASSUME OverlapInv, NEW c \in Pushers, step[c] = "pop"
  PROVE  Len(stack) > Capacity - Cardinality(Pushers)
<1>1. c \in Popping BY DEF Popping
<1>2. Len(stack) >= Capacity - Cardinality(Pushers) + Cardinality(Popping)
  BY <1>1 DEF OverlapInv, RoomLeft
<1>3. Len(stack) \in Nat BY DEF OverlapInv, StorageTypeOK
<1> QED BY <1>1, <1>2, <1>3, PoppingFinite, CapacityAssumption

(* Front takes the top, and nothing else.                                  *)
LEMMA FrontKeeps ==
  ASSUME NEW S, NEW s \in Seq(S), NEW i \in 1..Len(s) - 1
  PROVE  i <= Len(Front(s)) /\ Front(s)[i] = s[i]
<1>1. s # << >> OBVIOUS
<1>2. Len(Front(s)) = Len(s) - 1 BY <1>1, FrontType
<1>3. SubSeq(s, 1, Len(s) - 1)[i] = s[i] OBVIOUS
<1> QED BY <1>2, <1>3 DEF Front
-----------------------------------------------------------------------------
(* The types alone are kept by every step.                                 *)
LEMMA TypeStep == StorageTypeOK /\ [StorageNext]_storageVars => StorageTypeOK'
<1> SUFFICES ASSUME StorageTypeOK, [StorageNext]_storageVars PROVE StorageTypeOK' OBVIOUS
<1>1. ASSUME NEW c \in Pushers, NEW m \in Messages, TestCount(c, m) PROVE StorageTypeOK'
  BY <1>1, TestCountType
<1>2. ASSUME NEW c \in Pushers, TryPop(c) PROVE StorageTypeOK' BY <1>2, TryPopType
<1>3. ASSUME NEW c \in Pushers, DoPush(c) PROVE StorageTypeOK' BY <1>3, DoPushType
<1>4. CASE UNCHANGED storageVars BY <1>4 DEF storageVars, StorageTypeOK
<1> QED BY <1>1, <1>2, <1>3, <1>4 DEF StorageNext

(* One caller more, or less, that is about to pop.                         *)
LEMMA RoomStep ==
  ASSUME OverlapInv, [StorageNext]_storageVars PROVE RoomLeft'
<1>0. Capacity \in Nat /\ Len(stack) \in Nat
  BY CapacityAssumption DEF OverlapInv, StorageTypeOK
<1>1. ASSUME NEW c \in Pushers, NEW m \in Messages, TestCount(c, m)
      PROVE  RoomLeft'
  <2>0. step \in [Pushers -> {"idle", "pop", "push"}] BY DEF OverlapInv, StorageTypeOK
  <2>1. stack' = stack BY <1>1 DEF TestCount
  <2>2. CASE Len(stack) = Capacity
    <3>1. Cardinality(Popping)' \in Nat /\ Cardinality(Popping)' <= Cardinality(Pushers)
      <4>1. Popping' \subseteq Pushers BY DEF Popping
      <4> QED BY <4>1, PushersAssumption, FS_Subset, FS_CardinalityType
    <3>2. Cardinality(Pushers) \in Nat BY PoppingFinite
    <3> QED BY <1>0, <2>1, <2>2, <3>1, <3>2 DEF RoomLeft
  <2>3. CASE Len(stack) # Capacity
    <3>1. Popping' = Popping BY <1>1, <2>0, <2>3 DEF TestCount, Popping
    <3> QED BY <2>1, <3>1 DEF OverlapInv, RoomLeft
  <2> QED BY <2>2, <2>3
<1>2. ASSUME NEW c \in Pushers, TryPop(c) PROVE RoomLeft'
  <2>0. step \in [Pushers -> {"idle", "pop", "push"}] BY DEF OverlapInv, StorageTypeOK
  <2>1. c \in Popping /\ Popping' = Popping \ {c}
    BY <1>2, <2>0 DEF TryPop, Popping
  <2>2. Cardinality(Popping \ {c}) = Cardinality(Popping) - 1
    BY <2>1, PoppingFinite, FS_RemoveElement
  <2>3. Len(stack') >= Len(stack) - 1 /\ Len(stack') \in Nat
    <3>1. CASE stack = << >> BY <1>0, <1>2, <3>1 DEF TryPop
    <3>2. CASE stack # << >>
      <4>1. stack' = Front(stack) /\ stack \in Seq(Messages)
        BY <1>2, <3>2 DEF TryPop, OverlapInv, StorageTypeOK
      <4>2. Front(stack) \in Seq(Messages) /\ Len(Front(stack)) = Len(stack) - 1
        BY <3>2, <4>1, FrontType
      <4> QED BY <1>0, <4>1, <4>2
    <3> QED BY <3>1, <3>2
  <2>4. Len(stack) >= Capacity - Cardinality(Pushers) + Cardinality(Popping)
    BY <2>1 DEF OverlapInv, RoomLeft
  <2>5. Cardinality(Pushers) \in Nat /\ Cardinality(Popping) \in Nat BY PoppingFinite
  <2>6. Len(stack') >= Capacity - Cardinality(Pushers) + Cardinality(Popping')
    BY <1>0, <2>1, <2>2, <2>3, <2>4, <2>5
  <2> QED BY <2>6 DEF RoomLeft
<1>3. ASSUME NEW c \in Pushers, DoPush(c) PROVE RoomLeft'
  <2>1. Popping' = Popping BY <1>3 DEF DoPush, Popping, OverlapInv, StorageTypeOK
  <2>2. Len(stack') = Len(stack) + 1
    BY <1>3 DEF DoPush, OverlapInv, StorageTypeOK
  <2>3. Cardinality(Pushers) \in Nat /\ Cardinality(Popping) \in Nat BY PoppingFinite
  <2> QED BY <1>0, <2>1, <2>2, <2>3 DEF OverlapInv, RoomLeft
<1>4. CASE UNCHANGED storageVars
  BY <1>4 DEF storageVars, OverlapInv, RoomLeft, Popping
<1> QED BY <1>1, <1>2, <1>3, <1>4 DEF StorageNext

(* A caller that is refused found the storage empty: too many callers.     *)
LEMMA RefusedStep ==
  ASSUME OverlapInv, [StorageNext]_storageVars PROVE PushSucceeds'
<1> SUFFICES ASSUME Cardinality(Pushers) <= Capacity PROVE refused' = FALSE
  <2>1. PushSucceeds' <=> (Cardinality(Pushers) <= Capacity => ~refused')
    BY DEF PushSucceeds
  <2> QED BY <2>1
<1>1. refused = FALSE BY DEF OverlapInv, StorageTypeOK, PushSucceeds
<1>2. ASSUME NEW c \in Pushers, TryPop(c) PROVE refused' = FALSE
  <2>1. Len(stack) > Capacity - Cardinality(Pushers)
    BY <1>2, FindsOne DEF TryPop
  <2>2. Len(stack) # 0 BY <2>1, PoppingFinite, CapacityAssumption
  <2>3. stack # << >> BY <2>2
  <2> QED BY <1>1, <1>2, <2>3 DEF TryPop
<1>3. ASSUME NEW c \in Pushers, NEW m \in Messages, TestCount(c, m)
      PROVE  refused' = FALSE
  BY <1>1, <1>3 DEF TestCount
<1>4. ASSUME NEW c \in Pushers, DoPush(c) PROVE refused' = FALSE
  BY <1>1, <1>4 DEF DoPush
<1>5. CASE UNCHANGED storageVars BY <1>1, <1>5 DEF storageVars
<1> QED BY <1>2, <1>3, <1>4, <1>5 DEF StorageNext

(* The invariant of overlapping calls.                                     *)
LEMMA OverlapStep == OverlapInv /\ [StorageNext]_storageVars => OverlapInv'
<1> SUFFICES ASSUME OverlapInv, [StorageNext]_storageVars PROVE OverlapInv' OBVIOUS
<1>1. StorageTypeOK' BY TypeStep DEF OverlapInv
<1>2. RoomLeft' BY RoomStep
<1>3. PushSucceeds' BY RefusedStep
<1> QED BY <1>1, <1>2, <1>3 DEF OverlapInv

LEMMA OverlapInit == StorageInit => OverlapInv
<1> SUFFICES ASSUME StorageInit PROVE OverlapInv OBVIOUS
<1>1. StorageTypeOK BY InitOK DEF StorageInv
<1>2. Popping = {} BY DEF StorageInit, Popping
<1>3. RoomLeft BY <1>2 DEF RoomLeft
<1>4. PushSucceeds BY DEF StorageInit, PushSucceeds
<1> QED BY <1>1, <1>3, <1>4 DEF OverlapInv

(* A step takes at most the top, and never the top of the lowest level.    *)
LEMMA LowestKept ==
  ASSUME OverlapInv, [StorageNext]_storageVars,
         NEW i \in 1..Capacity - Cardinality(Pushers), i <= Len(stack)
  PROVE  i <= Len(stack') /\ stack'[i] = stack[i]
<1>0. stack \in Seq(Messages) /\ i \in 1..Len(stack)
  <2>1. stack \in Seq(Messages) BY DEF OverlapInv, StorageTypeOK
  <2> QED BY <2>1, PoppingFinite, CapacityAssumption
<1>1. ASSUME NEW c \in Pushers, TryPop(c)
      PROVE  i <= Len(stack') /\ stack'[i] = stack[i]
  <2>1. Len(stack) > Capacity - Cardinality(Pushers)
    BY <1>1, FindsOne DEF TryPop
  <2>2. i \in 1..Len(stack) - 1
    BY <1>0, <2>1, PoppingFinite, CapacityAssumption
  <2>3. stack # << >> BY <1>0
  <2>4. stack' = Front(stack) BY <1>1, <2>3 DEF TryPop
  <2> QED BY <1>0, <2>2, <2>4, FrontKeeps
<1>2. ASSUME NEW c \in Pushers, DoPush(c)
      PROVE  i <= Len(stack') /\ stack'[i] = stack[i]
  <2>1. msg[c] \in Messages BY DEF OverlapInv, StorageTypeOK
  <2>2. stack' = Append(stack, msg[c]) BY <1>2 DEF DoPush
  <2> QED BY <1>0, <2>1, <2>2
<1>3. ASSUME NEW c \in Pushers, NEW m \in Messages, TestCount(c, m)
      PROVE  i <= Len(stack') /\ stack'[i] = stack[i]
  BY <1>0, <1>3 DEF TestCount
<1>4. CASE UNCHANGED storageVars BY <1>0, <1>4 DEF storageVars
<1> QED BY <1>1, <1>2, <1>3, <1>4 DEF StorageNext
-----------------------------------------------------------------------------
(* Push never returns false while at most Capacity callers push at once.   *)
THEOREM PushAlwaysSucceeds == StorageSpec => []PushSucceeds
<1>1. StorageSpec => []OverlapInv BY OverlapInit, OverlapStep, PTL DEF StorageSpec
<1>2. OverlapInv => PushSucceeds BY DEF OverlapInv
<1> QED BY <1>1, <1>2, PTL

(* The oldest messages stay where they are, whatever calls overlap.        *)
THEOREM OldestStayForever == StorageSpec => OldestStay
<1> DEFINE Kept1 == \A i \in 1..Capacity - Cardinality(Pushers) :
                      i <= Len(stack) => i <= Len(stack') /\ stack'[i] = stack[i]
<1>1. StorageSpec => []OverlapInv BY OverlapInit, OverlapStep, PTL DEF StorageSpec
<1>2. OverlapInv /\ [StorageNext]_storageVars => [Kept1]_storageVars BY LowestKept
<1>3. StorageSpec => [][Kept1]_storageVars BY <1>1, <1>2, PTL DEF StorageSpec
<1> QED BY <1>3 DEF OldestStay
=============================================================================
