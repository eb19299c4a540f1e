---------------------------- MODULE ExerciseProofs ----------------------------
(***************************************************************************)
(* Of the small programs, for any number of clicks, limits, threads:       *)
(* uploads, the calculator, the users, the exercises with threads, and the *)
(* shop.                                                                   *)
(***************************************************************************)
EXTENDS Exercises, RunningSums, SequenceTheorems, FunctionTheorems,
        FiniteSetTheorems, WellFoundedInduction, TLAPS

(* Nothing of a click that has not come; all uploads of one that has.      *)
StartedOK ==
  \A b \in Batches, i \in 1..Slots :
    /\ batch[b] = "idle" => /\ task[<<b, i>>] = "none" /\ <<b, i>> \notin entries
                            /\ net[<<b, i>>] = "none" /\ cancelled[<<b, i>>] = 0
    /\ batch[b] = "awaiting" => task[<<b, i>>] # "none"
    /\ batch[b] = "ended" => task[<<b, i>>] # "running"

(* What a cancelled upload shows of itself, and when.                      *)
CancelledOK ==
  \A u \in Uploads :
    /\ u \in entries => cancelled[u] = 0
    /\ net[u] = "aborted" => cancelled[u] = 1
    /\ task[u] \in {"requestCanceled", "canceled"} => cancelled[u] = 1

UploadInv == TypeOK /\ StartedOK /\ CancelledOK /\ FailuresShown
-----------------------------------------------------------------------------
(* A set of natural numbers that is not empty has a least element.         *)
LEMMA MinIsLeast ==
  ASSUME NEW S, S \subseteq Nat, S # {}
  PROVE  Min(S) \in S /\ \A x \in S : Min(S) <= x
<1>1. PICK m \in S : \A x \in S : <<x, m>> \notin OpToRel(<, Nat)
  BY NatLessThanWellFounded, WFMin
<1>2. \A x \in S : ~ (x < m)
  BY <1>1, Zenon DEF OpToRel
<1>3. \A x \in S : m <= x
  BY <1>2
<1> QED BY <1>3 DEF Min

(* Induction up to N, for a set.                                           *)
LEMMA UpTo ==
  ASSUME NEW N \in Nat, NEW S, 0 \in S,
         \A n \in 1..N : n - 1 \in S => n \in S
  PROVE  \A n \in 0..N : n \in S
<1> SUFFICES ASSUME 0..N \ S # {} PROVE FALSE
  OBVIOUS
<1>1. PICK m \in 0..N \ S : \A x \in 0..N \ S : m <= x
  <2>1. 0..N \ S \subseteq Nat OBVIOUS
  <2> QED BY <2>1, MinIsLeast
<1>2. m \in 1..N /\ m - 1 \in 0..N BY <1>1
<1>3. m - 1 \in S BY <1>1, <1>2
<1> QED BY <1>1, <1>2, <1>3

(* The partial sums exist: they are what their recursion says.             *)
LEMMA PartialSumsExist ==
  ASSUME NEW N \in Nat, NEW t \in [1..N -> Int]
  PROVE  /\ PartialSums(t, N) \in [0..N -> Int]
         /\ PartialSums(t, N)[0] = 0
         /\ \A n \in 1..N : PartialSums(t, N)[n] = PartialSums(t, N)[n - 1] + t[n]
<1> DEFINE Adds(g, k) == g[0] = 0 /\ \A n \in 1..k : g[n] = g[n - 1] + t[n]
           S == {k \in 0..N : \E g \in [0..N -> Int] : Adds(g, k)}
<1>1. 0 \in S
  <2>1. [n \in 0..N |-> 0] \in [0..N -> Int] /\ Adds([n \in 0..N |-> 0], 0)
    OBVIOUS
  <2>2. \E g \in [0..N -> Int] : Adds(g, 0) BY <2>1, Zenon
  <2> QED BY <2>2
<1>2. ASSUME NEW k \in 1..N, k - 1 \in S PROVE k \in S
  <2>1. PICK g \in [0..N -> Int] : Adds(g, k - 1) BY <1>2
  <2> DEFINE h == [g EXCEPT ![k] = g[k - 1] + t[k]]
  <2>2. g[k - 1] + t[k] \in Int /\ k \in 0..N OBVIOUS
  <2>3. h \in [0..N -> Int] /\ h[k] = g[k - 1] + t[k]
        /\ \A n \in 0..N : n # k => h[n] = g[n]
    BY <2>2
  <2> HIDE DEF h
  <2>5. Adds(h, k)
    <3>1. h[0] = 0 BY <2>1, <2>3
    <3>2. ASSUME NEW n \in 1..k PROVE h[n] = h[n - 1] + t[n]
      <4>1. CASE n = k BY <2>3, <4>1
      <4>2. CASE n # k BY <2>1, <2>3, <4>2
      <4> QED BY <4>1, <4>2
    <3> QED BY <3>1, <3>2
  <2> HIDE DEF Adds
  <2>6. \E f \in [0..N -> Int] : Adds(f, k) BY <2>3, <2>5
  <2> QED BY <2>2, <2>6
<1>3. N \in S
  <2>1. N \in 0..N OBVIOUS
  <2> HIDE DEF S
  <2> QED BY <1>1, <1>2, <2>1, UpTo
<1>4. PICK g \in [0..N -> Int] : Adds(g, N) BY <1>3
<1> DEFINE E(f) == f = [n \in 0..N |-> IF n = 0 THEN 0 ELSE f[n - 1] + t[n]]
<1>5. E(g) BY <1>4
<1>6. PartialSums(t, N) = CHOOSE f : E(f) BY DEF PartialSums
<1> HIDE DEF E
<1>7. E(PartialSums(t, N)) BY <1>5, <1>6
<1> DEFINE s == PartialSums(t, N)
<1>8. s = [n \in 0..N |-> IF n = 0 THEN 0 ELSE s[n - 1] + t[n]] BY <1>7 DEF E
<1> HIDE DEF s
<1>9. s[0] = 0 /\ \A n \in 1..N : s[n] = s[n - 1] + t[n]
  BY <1>8
<1>10. \A n \in 0..N : s[n] \in Int
  <2> DEFINE T == {n \in 0..N : s[n] \in Int}
  <2>1. 0 \in T BY <1>9
  <2>2. \A n \in 1..N : n - 1 \in T => n \in T BY <1>9
  <2>3. \A n \in 0..N : n \in T
    <3> HIDE DEF T
    <3> QED BY <2>1, <2>2, UpTo
  <2> QED BY <2>3
<1>11. s \in [0..N -> Int] BY <1>8, <1>10
<1> QED BY <1>9, <1>11 DEF s

(* Of natural numbers, they never decrease.                                *)
LEMMA PartialSumsGrow ==
  ASSUME NEW N \in Nat, NEW t \in [1..N -> Nat]
  PROVE  \A n \in 0..N : PartialSums(t, N)[n] \in 0..PartialSums(t, N)[N]
<1> DEFINE s == PartialSums(t, N)
           T == {n \in 0..N : s[n] \in Nat}
           U == {n \in 0..N : s[N - n] <= s[N]}
<1>1. s \in [0..N -> Int] /\ s[0] = 0 /\ \A n \in 1..N : s[n] = s[n - 1] + t[n]
  <2>1. t \in [1..N -> Int] OBVIOUS
  <2> QED BY <2>1, PartialSumsExist
<1> HIDE DEF s
<1>2. \A n \in 0..N : s[n] \in Nat
  <2>1. 0 \in T /\ \A n \in 1..N : n - 1 \in T => n \in T BY <1>1
  <2> HIDE DEF T
  <2>2. \A n \in 0..N : n \in T BY <2>1, UpTo
  <2> QED BY <2>2 DEF T
<1>3. \A n \in 0..N : s[N - n] <= s[N]
  <2>1. 0 \in U BY <1>1
  <2>2. ASSUME NEW n \in 1..N, n - 1 \in U PROVE n \in U
    <3>1. /\ N - n \in 0..N /\ N - n + 1 \in 1..N
          /\ N - (n - 1) = N - n + 1 /\ N - n + 1 - 1 = N - n
      OBVIOUS
    <3>2. s[N - n + 1] = s[N - n] + t[N - n + 1] BY <1>1, <3>1
    <3>3. s[N - n + 1] <= s[N] BY <2>2, <3>1
    <3>4. s[N - n] \in Int /\ t[N - n + 1] \in Nat /\ s[N] \in Int BY <1>1, <3>1
    <3>5. s[N - n] <= s[N] BY <3>2, <3>3, <3>4
    <3> QED BY <3>5
  <2> HIDE DEF U
  <2>3. \A n \in 0..N : n \in U BY <2>1, <2>2, UpTo
  <2> QED BY <2>3 DEF U
<1>4. ASSUME NEW n \in 0..N PROVE s[n] \in 0..s[N]
  <2>1. N - n \in 0..N /\ N - (N - n) = n OBVIOUS
  <2>2. s[n] <= s[N] BY <1>3, <2>1
  <2> QED BY <1>2, <2>2
<1> QED BY <1>4 DEF s

(* If the catch clauses log nothing, every upload of the click was saved,  *)
(* was cancelled, or stands behind one that was.                           *)
LEMMA CatchShows ==
  ASSUME UploadInv, NEW b \in Batches, batch[b] = "awaiting", Ended(task, b),
         ~Unexpected(task, b), NEW i \in 1..Slots, task[<<b, i>>] # "saved"
  PROVE  \/ cancelled[<<b, i>>] = 1
         \/ \E j \in 1..i - 1 : /\ cancelled[<<b, j>>] = 1
                                /\ task[<<b, j>>] = "requestCanceled"
<1> DEFINE faulted == {j \in 1..Slots : task[<<b, j>>] \in Faults}
           m == Min(faulted)
<1>1. task[<<b, i>>] \in {"canceled"} \cup Faults
  BY DEF UploadInv, TypeOK, StartedOK, Ended, Uploads, Of
<1>2. CASE task[<<b, i>>] = "canceled"
  BY <1>2 DEF UploadInv, CancelledOK, Uploads
<1>3. CASE task[<<b, i>>] \in Faults
  <2>1. i \in faulted /\ faulted \subseteq Nat
    BY <1>3
  <2>2. m \in faulted /\ m <= i
    BY <2>1, MinIsLeast
  <2>3. FirstFault(task, b) = task[<<b, m>>]
    BY <2>1 DEF FirstFault
  <2>4. task[<<b, m>>] = "requestCanceled"
    BY <2>2, <2>3 DEF Unexpected, Faults
  <2>5. cancelled[<<b, m>>] = 1
    BY <2>2, <2>4 DEF UploadInv, CancelledOK, Uploads
  <2>6. CASE m = i
    BY <2>5, <2>6
  <2>7. CASE m < i
    <3>1. m \in 1..i - 1
      BY <2>2, <2>7
    <3> QED BY <3>1, <2>4, <2>5
  <2> QED BY <2>2, <2>6, <2>7
<1> QED BY <1>1, <1>2, <1>3
-----------------------------------------------------------------------------
LEMMA InitUploads == Init => UploadInv
<1> SUFFICES ASSUME Init PROVE UploadInv
  OBVIOUS
<1> USE SlotsAssumption DEF Init
<1>1. TypeOK
  BY DEF TypeOK
<1>2. StartedOK
  BY DEF StartedOK, Uploads
<1>3. CancelledOK
  BY DEF CancelledOK
<1>4. FailuresShown
  BY DEF FailuresShown, Uploads
<1> QED BY <1>1, <1>2, <1>3, <1>4 DEF UploadInv

LEMMA NextUploads == UploadInv /\ [Next]_vars => UploadInv'
<1> SUFFICES ASSUME UploadInv, [Next]_vars
             PROVE  UploadInv'
  OBVIOUS
<1> USE SlotsAssumption DEF UploadInv
<1>1. ASSUME NEW b \in Batches, ClickNoUri(b)
      PROVE  UploadInv'
  <2> USE <1>1 DEF ClickNoUri
  <2>1. TypeOK'
    BY DEF TypeOK
  <2>2. StartedOK'
    BY DEF TypeOK, StartedOK
  <2>3. CancelledOK'
    BY DEF CancelledOK
  <2>4. FailuresShown'
    BY DEF TypeOK, FailuresShown
  <2> QED BY <2>1, <2>2, <2>3, <2>4
<1>2. ASSUME NEW b \in Batches, ClickUpload(b)
      PROVE  UploadInv'
  <2>1. PICK good \in SUBSET Of(b) :
          /\ task' = [u \in Uploads |->
                        IF u \in good THEN "running"
                        ELSE IF u \in Of(b) THEN "other" ELSE task[u]]
          /\ net' = [u \in Uploads |-> IF u \in good THEN "running" ELSE net[u]]
          /\ entries' = entries \cup good
          /\ batch' = [batch EXCEPT ![b] = IF good = {} THEN "ended"
                                           ELSE "awaiting"]
          /\ logged' = IF good = {} THEN logged \cup {b} ELSE logged
    BY <1>2 DEF ClickUpload
  <2>2. batch[b] = "idle" /\ cancelled' = cancelled
    BY <1>2 DEF ClickUpload
  <2> USE <2>1, <2>2
  <2>3. TypeOK'
    BY DEF TypeOK, Of, Uploads, Faults
  <2>4. StartedOK'
    <3>1. SUFFICES ASSUME NEW c \in Batches, NEW i \in 1..Slots
                   PROVE  StartedOK!(c, i)'
      BY DEF StartedOK
    <3>2. <<c, i>> \in Uploads /\ (<<c, i>> \in Of(b) <=> c = b)
      BY DEF Of, Uploads
    <3>3. StartedOK!(c, i) BY DEF StartedOK
    <3>4. batch' = [batch EXCEPT ![b] = IF good = {} THEN "ended" ELSE "awaiting"]
      OBVIOUS
    <3>5. CASE c = b
      <4>1. batch'[c] = IF good = {} THEN "ended" ELSE "awaiting"
        BY <3>4, <3>5 DEF TypeOK
      <4>2. task'[<<c, i>>] = IF <<c, i>> \in good THEN "running" ELSE "other"
        BY <3>2, <3>5
      <4> QED BY <4>1, <4>2
    <3>6. CASE c # b
      <4>1. batch'[c] = batch[c] BY <3>4, <3>6 DEF TypeOK
      <4>2. <<c, i>> \notin good BY <3>2, <3>6
      <4>3. /\ task'[<<c, i>>] = task[<<c, i>>] /\ net'[<<c, i>>] = net[<<c, i>>]
            /\ <<c, i>> \in entries' <=> <<c, i>> \in entries
        BY <3>2, <3>6, <4>2
      <4> QED BY <3>3, <4>1, <4>3
    <3> QED BY <3>5, <3>6
  <2>5. CancelledOK'
    BY DEF TypeOK, StartedOK, CancelledOK, Of, Uploads
  <2>6. FailuresShown'
    <3> SUFFICES ASSUME NEW u \in Uploads, batch'[u[1]] = "ended",
                        task'[u] # "saved", u[1] \notin logged'
                 PROVE  \/ cancelled[u] = 1
                        \/ \E i \in 1..u[2] - 1 :
                             /\ cancelled[<<u[1], i>>] = 1
                             /\ task'[<<u[1], i>>] = "requestCanceled"
      BY DEF FailuresShown
    <3>1. u[1] # b
      BY DEF TypeOK, Uploads
    <3>2. \A i \in 1..Slots : task'[<<u[1], i>>] = task[<<u[1], i>>]
      BY <3>1 DEF Of, Uploads
    <3>3. u = <<u[1], u[2]>> /\ u[1] \in Batches /\ u[2] \in 1..Slots
      BY DEF Uploads
    <3>4. batch[u[1]] = "ended" /\ u[1] \notin logged
      BY <3>1, <3>3 DEF TypeOK
    <3>5. task'[u] = task[u] /\ 1..u[2] - 1 \subseteq 1..Slots
      BY <3>2, <3>3
    <3>6. \/ cancelled[u] = 1
          \/ \E i \in 1..u[2] - 1 : /\ cancelled[<<u[1], i>>] = 1
                                  /\ task[<<u[1], i>>] = "requestCanceled"
      BY <3>4, <3>5 DEF FailuresShown
    <3> QED BY <3>2, <3>5, <3>6
  <2> QED BY <2>3, <2>4, <2>5, <2>6
<1>3. ASSUME NEW b \in Batches, EndClick(b)
      PROVE  UploadInv'
  <2> USE <1>3 DEF EndClick
  <2>1. TypeOK'
    BY DEF TypeOK
  <2>2. StartedOK'
    BY DEF TypeOK, StartedOK, Ended, Of
  <2>3. CancelledOK'
    BY DEF CancelledOK
  <2>4. FailuresShown'
    <3> SUFFICES ASSUME NEW u \in Uploads, batch'[u[1]] = "ended",
                        task[u] # "saved", u[1] \notin logged'
                 PROVE  \/ cancelled[u] = 1
                        \/ \E i \in 1..u[2] - 1 :
                             /\ cancelled[<<u[1], i>>] = 1
                             /\ task[<<u[1], i>>] = "requestCanceled"
      BY DEF FailuresShown
    <3>1. u = <<u[1], u[2]>> /\ u[1] \in Batches /\ u[2] \in 1..Slots
      BY DEF Uploads
    <3>2. CASE u[1] = b
      <4>1. ~Unexpected(task, b)
        BY <3>2
      <4> QED BY <3>1, <3>2, <4>1, CatchShows
    <3>3. CASE u[1] # b
      BY <3>1, <3>3 DEF TypeOK, FailuresShown
    <3> QED BY <3>2, <3>3
  <2> QED BY <2>1, <2>2, <2>3, <2>4
<1>4. ASSUME NEW v \in Uploads, Arrive(v) \/ Fail(v)
      PROVE  UploadInv'
  <2> USE <1>4 DEF Arrive, Fail
  <2>1. TypeOK'
    BY DEF TypeOK
  <2>2. StartedOK'
    <3>1. ASSUME NEW b \in Batches, NEW i \in 1..Slots, batch[b] = "idle"
          PROVE  net'[<<b, i>>] = "none"
      <4>1. <<b, i>> \in Uploads /\ net[<<b, i>>] = "none"
        BY <3>1 DEF StartedOK, Uploads
      <4>2. v # <<b, i>>
        BY <4>1
      <4> QED BY <4>1, <4>2 DEF TypeOK
    <3>2. batch' = batch /\ task' = task /\ entries' = entries
          /\ cancelled' = cancelled
      OBVIOUS
    <3> QED BY <3>1, <3>2 DEF StartedOK
  <2>3. CancelledOK'
    BY DEF TypeOK, CancelledOK
  <2>4. FailuresShown'
    BY DEF FailuresShown
  <2> QED BY <2>1, <2>2, <2>3, <2>4
<1>5. ASSUME NEW v \in Uploads, UploadAsync(v)
      PROVE  UploadInv'
  <2>1. PICK end \in {"saved", "canceled"} \cup Faults :
          /\ task' = [task EXCEPT ![v] = end]
          /\ end \in {"requestCanceled", "canceled"} => net[v] = "aborted"
    BY <1>5 DEF UploadAsync, Faults
  <2>2. /\ task[v] = "running" /\ entries' \subseteq entries
        /\ batch' = batch /\ logged' = logged /\ net' = net
        /\ cancelled' = cancelled
    BY <1>5 DEF UploadAsync
  <2> USE <2>1, <2>2
  <2>3. TypeOK'
    BY DEF TypeOK, Faults
  <2>4. StartedOK'
    <3> SUFFICES ASSUME NEW b \in Batches, NEW i \in 1..Slots
                 PROVE  StartedOK!(b, i)'
      BY DEF StartedOK
    <3>1. <<b, i>> \in Uploads /\ StartedOK!(b, i)
      BY DEF StartedOK, Uploads
    <3>2. CASE v = <<b, i>>
      BY <3>1, <3>2 DEF TypeOK, Faults
    <3>3. CASE v # <<b, i>>
      BY <3>1, <3>3 DEF TypeOK
    <3> QED BY <3>2, <3>3
  <2>5. CancelledOK'
    BY DEF TypeOK, CancelledOK
  <2>6. FailuresShown'
    <3> SUFFICES ASSUME NEW u \in Uploads, batch[u[1]] = "ended",
                        task'[u] # "saved", u[1] \notin logged
                 PROVE  \/ cancelled[u] = 1
                        \/ \E i \in 1..u[2] - 1 :
                             /\ cancelled[<<u[1], i>>] = 1
                             /\ task'[<<u[1], i>>] = "requestCanceled"
      BY DEF FailuresShown
    <3>1. u = <<u[1], u[2]>> /\ u[1] \in Batches /\ u[2] \in 1..Slots
      BY DEF Uploads
    <3>2. \A i \in 1..Slots : <<u[1], i>> # v
      BY <3>1 DEF StartedOK, Uploads
    <3>3. \A i \in 1..Slots : task'[<<u[1], i>>] = task[<<u[1], i>>]
      BY <3>1, <3>2 DEF TypeOK, Uploads
    <3> QED BY <3>1, <3>3 DEF FailuresShown
  <2> QED BY <2>3, <2>4, <2>5, <2>6
<1>6. ASSUME Cancel
      PROVE  UploadInv'
  <2> USE <1>6 DEF Cancel, Report, Abort
  <2>1. \A u \in Uploads : cancelled[u] = 1 => cancelled'[u] = 1
    BY DEF CancelledOK
  <2>2. TypeOK'
    BY DEF TypeOK, CancelledOK
  <2>3. StartedOK'
    BY DEF TypeOK, StartedOK, Uploads
  <2>4. CancelledOK'
    BY <2>1 DEF TypeOK, CancelledOK
  <2>5. FailuresShown'
    <3>1. \A u \in Uploads : /\ u[1] \in Batches /\ u[2] \in 1..Slots
                             /\ \A i \in 1..u[2] - 1 : <<u[1], i>> \in Uploads
      BY DEF Uploads
    <3> QED BY <2>1, <3>1 DEF FailuresShown
  <2> QED BY <2>2, <2>3, <2>4, <2>5
<1>7. ASSUME UNCHANGED vars
      PROVE  UploadInv'
  BY <1>7 DEF vars, TypeOK, StartedOK, CancelledOK, FailuresShown
<1> QED BY <1>1, <1>2, <1>3, <1>4, <1>5, <1>6, <1>7 DEF Next

(* The types of the upload manager's state; in particular no upload is ever *)
(* reported to be cancelled twice, however often Cancel is clicked and       *)
(* whatever entries failed downloads leave behind.                           *)
THEOREM UploadTypeCorrect == Spec => []TypeOK
<1>1. UploadInv => TypeOK
  BY DEF UploadInv
<1> QED BY <1>1, InitUploads, NextUploads, PTL DEF Spec

(* Whatever way an upload fails, when its click is over something was shown *)
(* of it: FailuresShown, for any number of clicks and uploads.              *)
THEOREM FailuresShownCorrect == Spec => []FailuresShown
<1>1. UploadInv => FailuresShown
  BY DEF UploadInv
<1> QED BY <1>1, InitUploads, NextUploads, PTL DEF Spec
-----------------------------------------------------------------------------
(* The writes the console has made and those it has announced.             *)
WritesOK == entered = IF calcMain = "setting" THEN writes - 1 ELSE writes

(* While the flag is down, the count under way is for the last limit       *)
(* entered.  The result counts the rounds.                                 *)
LimitOK ==
  /\ pool = "looping" /\ ~stateChanged => taken >= entered
  /\ pool \in {"looping", "ended"} => taken >= due
  /\ result = round
  /\ pool = "ended" => round = limit

CalcInv == Calc!TypeOK /\ WritesOK /\ LimitOK
-----------------------------------------------------------------------------
LEMMA CalcLimits == Limits \subseteq Nat /\ MaxWrites \in Nat
BY ExercisesAssumption DEF Calc!LimitsAssumption

LEMMA CalcInit == Calc!Init => CalcInv
<1> SUFFICES ASSUME Calc!Init PROVE CalcInv
  OBVIOUS
<1> USE CalcLimits DEF Calc!Init
<1>1. Calc!TypeOK
  <2>1. limit \in Nat /\ 0 \in 0..limit OBVIOUS
  <2>2. /\ writes \in 0..MaxWrites /\ entered \in 0..writes
        /\ taken \in 0..writes /\ due \in 0..entered
    OBVIOUS
  <2>3. stateChanged \in BOOLEAN OBVIOUS
  <2> QED BY <2>1, <2>2, <2>3 DEF Calc!TypeOK
<1>2. WritesOK BY DEF WritesOK
<1>3. LimitOK BY DEF LimitOK
<1> QED BY <1>1, <1>2, <1>3 DEF CalcInv

LEMMA CalcNext == CalcInv /\ [Calc!Next]_(Calc!vars) => CalcInv'
<1> SUFFICES ASSUME CalcInv, [Calc!Next]_(Calc!vars) PROVE CalcInv'
  OBVIOUS
<1> USE CalcLimits DEF CalcInv, Calc!TypeOK, WritesOK,
        LimitOK, Calc!fields, Calc!console, Calc!task
<1>1. ASSUME NEW l \in Limits, Calc!WriteLimit(l) PROVE CalcInv'
  BY <1>1 DEF Calc!WriteLimit
<1>2. CASE Calc!RaiseFlag BY <1>2 DEF Calc!RaiseFlag
<1>3. CASE Calc!Answer BY <1>3 DEF Calc!Answer
<1>4. CASE Calc!NotANumber BY <1>4 DEF Calc!NotANumber
<1>5. CASE Calc!PrintResult BY <1>5 DEF Calc!PrintResult
<1>6. CASE Calc!Begin BY <1>6 DEF Calc!Begin, Calc!Calculate
<1>7. CASE Calc!Round BY <1>7 DEF Calc!Round
<1>8. CASE Calc!ClearFlag BY <1>8 DEF Calc!ClearFlag
<1>9. CASE Calc!Restart BY <1>9 DEF Calc!Restart, Calc!Calculate
<1>10. CASE Calc!Return BY <1>10 DEF Calc!Return
<1>11. CASE UNCHANGED Calc!vars BY <1>11 DEF Calc!vars
<1> QED BY <1>1, <1>2, <1>3, <1>4, <1>5, <1>6, <1>7, <1>8, <1>9, <1>10, <1>11
        DEF Calc!Next, Calc!Console, Calc!CalculateAsync

(* The types of the calculator's state.                                    *)
THEOREM CalcTypeCorrect == Calc!Spec => []Calc!TypeOK
<1>1. CalcInv => Calc!TypeOK BY DEF CalcInv
<1> QED BY <1>1, CalcInit, CalcNext, PTL DEF Calc!Spec

(* No limit that was entered is ignored: NoLimitIgnored, for any limits and *)
(* any number of them.                                                      *)
THEOREM LimitsAreHeeded == Calc!Spec => []NoLimitIgnored
<1>1. CalcInv => NoLimitIgnored
  BY DEF CalcInv, LimitOK, NoLimitIgnored, Calc!NoLimitIgnored
<1> QED BY <1>1, CalcInit, CalcNext, PTL DEF Calc!Spec
-----------------------------------------------------------------------------
(* UserRepository: a call under way has an Id of some user.               *)
IdOK == \A c \in Calls : call[c].state # "idle" => call[c].id \in Crud!Ids

(* UpdateAsync between its two steps: it has seen a user, and if that is   *)
(* not the one kept now, another call has written the entry.               *)
ReadOK ==
  \A c \in Calls :
    call[c].state = "read" =>
      /\ call[c].op = "Update"
      /\ seen[c] # null
      /\ users[call[c].id] = seen[c] \/ c \in disturbed

RepositoryInv == Crud!TypeOK /\ IdOK /\ ReadOK

(* What a call is for a caller: the read in its middle does not show.      *)
Shown(c) == IF call[c].state = "read"
            THEN [call[c] EXCEPT !.state = "called"] ELSE call[c]

CallType == [state : {"idle", "called", "read", "returned"},
             op : {"none", "Add", "Remove", "Update", "Get"},
             id : Crud!Ids \cup {null}, user : Users \cup {null},
             result : Crud!Results]
-----------------------------------------------------------------------------
(* Init establishes the invariant.                                         *)
LEMMA RepositoryInit == Crud!Init => RepositoryInv
<1> SUFFICES ASSUME Crud!Init PROVE RepositoryInv OBVIOUS
<1>1. Crud!None \in CallType BY DEF Crud!None, CallType, Crud!Results
<1>2. Crud!TypeOK BY <1>1 DEF Crud!Init, Crud!TypeOK, CallType
<1>3. IdOK /\ ReadOK BY DEF Crud!Init, IdOK, ReadOK, Crud!None
<1> QED BY <1>2, <1>3 DEF RepositoryInv

(* A call returns: it is typed and not under way any more.                 *)
LEMMA ReturnTyped ==
  ASSUME Crud!TypeOK, IdOK, NEW c \in Calls, NEW r \in Crud!Results, Crud!Return(c, r),
         call[c].state # "idle"
  PROVE  /\ call' \in [Calls -> CallType]
         /\ call'[c].state = "returned"
         /\ \A d \in Calls \ {c} : call'[d] = call[d]
         /\ IdOK'
<1>1. call \in [Calls -> CallType] BY DEF Crud!TypeOK, CallType
<1>2. call' = [call EXCEPT ![c] = [@ EXCEPT !.state = "returned", !.result = r]]
  BY DEF Crud!Return
<1>3. call'[c] = [call[c] EXCEPT !.state = "returned", !.result = r]
  BY <1>1, <1>2
<1>4. call[c] \in CallType BY <1>1
<1>5. call'[c] \in CallType /\ call'[c].state = "returned" /\ call'[c].id = call[c].id
  BY <1>3, <1>4 DEF CallType
<1>6. \A d \in Calls \ {c} : call'[d] = call[d] BY <1>1, <1>2
<1>7. call' \in [Calls -> CallType] BY <1>1, <1>2, <1>5, <1>6
<1>8. IdOK'
  <2> SUFFICES ASSUME NEW d \in Calls, call'[d].state # "idle"
               PROVE  call'[d].id \in Crud!Ids
    BY DEF IdOK, Crud!Ids
  <2>1. CASE d = c BY <2>1, <1>5 DEF IdOK
  <2>2. CASE d # c BY <2>2, <1>6 DEF IdOK
  <2> QED BY <2>1, <2>2
<1> QED BY <1>5, <1>6, <1>7, <1>8

(* What is written is typed, and every call that had seen the entry and is *)
(* still under way is told.                                                *)
LEMMA WriteTyped ==
  ASSUME Crud!TypeOK, IdOK, ReadOK, NEW c \in Calls,
         NEW user \in Users \cup {null}, Crud!Write(c, user),
         \A d \in Calls \ {c} : call'[d] = call[d],
         call'[c].state = "returned", UNCHANGED seen
  PROVE  /\ users' \in [Crud!Ids -> Users \cup {null}]
         /\ disturbed' \subseteq Calls
         /\ ReadOK'
<1>1. users \in [Crud!Ids -> Users \cup {null}] /\ disturbed \subseteq Calls
  BY DEF Crud!TypeOK
<1>2. users' = [users EXCEPT ![call[c].id] = user] BY DEF Crud!Write
<1>3. users' \in [Crud!Ids -> Users \cup {null}] BY <1>1, <1>2
<1>4. disturbed' = disturbed \cup
        {d \in Calls \ {c} : /\ call[d].state \in {"called", "read"}
                             /\ call[d].id = call[c].id}
  BY DEF Crud!Write
<1>5. ReadOK'
  <2> SUFFICES ASSUME NEW d \in Calls, call'[d].state = "read"
               PROVE  /\ call'[d].op = "Update" /\ seen'[d] # null
                      /\ users'[call'[d].id] = seen'[d] \/ d \in disturbed'
    BY DEF ReadOK
  <2>1. d # c /\ call'[d] = call[d] /\ call[d].state = "read" OBVIOUS
  <2>2. /\ call[d].op = "Update" /\ seen[d] # null
        /\ users[call[d].id] = seen[d] \/ d \in disturbed
    BY <2>1 DEF ReadOK
  <2>3. CASE call[d].id = call[c].id BY <2>1, <2>2, <2>3, <1>4
  <2>4. CASE call[d].id # call[c].id
    <3>1. call[d].id \in Crud!Ids BY <2>1 DEF IdOK
    <3>2. users'[call[d].id] = users[call[d].id] BY <3>1, <2>4, <1>1, <1>2
    <3> QED BY <2>1, <2>2, <3>2, <1>4
  <2> QED BY <2>3, <2>4
<1> QED BY <1>1, <1>3, <1>4, <1>5

(* A call that returns without writing leaves the others as they are.      *)
LEMMA NoWriteKeeps ==
  ASSUME Crud!TypeOK, ReadOK, NEW c \in Calls, UNCHANGED <<users, disturbed, seen>>,
         \A d \in Calls \ {c} : call'[d] = call[d],
         call'[c].state = "returned"
  PROVE  /\ users' \in [Crud!Ids -> Users \cup {null}]
         /\ disturbed' \subseteq Calls
         /\ ReadOK'
<1>1. ReadOK'
  <2> SUFFICES ASSUME NEW d \in Calls, call'[d].state = "read"
               PROVE  /\ call'[d].op = "Update" /\ seen'[d] # null
                      /\ users'[call'[d].id] = seen'[d] \/ d \in disturbed'
    BY DEF ReadOK
  <2>1. d # c /\ call'[d] = call[d] OBVIOUS
  <2> QED BY <2>1 DEF ReadOK
<1> QED BY <1>1 DEF Crud!TypeOK

(* Each step preserves the invariant.                                      *)
LEMMA RepositoryNext == RepositoryInv /\ [Crud!Next]_(Crud!vars) => RepositoryInv'
<1> SUFFICES ASSUME RepositoryInv, [Crud!Next]_(Crud!vars) PROVE RepositoryInv'
  OBVIOUS
<1> USE DEF RepositoryInv
<1>0. call \in [Calls -> CallType] BY DEF Crud!TypeOK, CallType
<1>T. ASSUME users' \in [Crud!Ids -> Users \cup {null}], call' \in [Calls -> CallType],
             seen' \in [Calls -> Users \cup {null}], disturbed' \subseteq Calls
      PROVE  Crud!TypeOK'
  BY <1>T DEF Crud!TypeOK, CallType, Crud!Ids, Crud!Results
<1>S. seen \in [Calls -> Users \cup {null}] BY DEF Crud!TypeOK
<1>R. ASSUME NEW c \in Calls, NEW r \in Crud!Results, Crud!Return(c, r),
             call[c].state # "idle", UNCHANGED seen,
             \/ \E user \in Users \cup {null} : Crud!Write(c, user)
             \/ UNCHANGED <<users, disturbed>>
      PROVE  RepositoryInv'
  <2>1. /\ call' \in [Calls -> CallType] /\ call'[c].state = "returned" /\ IdOK'
        /\ \A d \in Calls \ {c} : call'[d] = call[d]
    BY <1>R, ReturnTyped
  <2>2. CASE \E user \in Users \cup {null} : Crud!Write(c, user)
    <3> PICK user \in Users \cup {null} : Crud!Write(c, user) BY <2>2
    <3> QED BY <1>R, <1>S, <1>T, <2>1, WriteTyped
  <2>3. CASE UNCHANGED <<users, disturbed>>
    BY <1>R, <1>S, <1>T, <2>1, <2>3, NoWriteKeeps
  <2> QED BY <1>R, <2>2, <2>3
<1>K. \A c \in Calls : call[c].state # "idle" =>
        Crud!Kept(c) \in Users \cup {null} /\ Crud!Kept(c) \in Crud!Results
  BY DEF IdOK, Crud!TypeOK, Crud!Kept, Crud!Results
<1>U. \A c \in Calls : call[c].user \in Users \cup {null} BY <1>0 DEF CallType
<1>1. ASSUME NEW c \in Calls, NEW id \in Crud!Ids, NEW user \in Users \cup {null},
             NEW op \in {"Add", "Remove", "Update", "Get"}, Crud!Start(c, op, id, user)
      PROVE  RepositoryInv'
  <2> DEFINE new == [state |-> "called", op |-> op, id |-> id, user |-> user,
                     result |-> null]
  <2>1. call' = [call EXCEPT ![c] = new] /\ UNCHANGED <<users, seen, disturbed>>
    BY <1>1 DEF Crud!Start
  <2>2. new \in CallType BY DEF CallType, Crud!Results
  <2>3. call' \in [Calls -> CallType] BY <1>0, <2>1, <2>2
  <2>4. call'[c] = new /\ \A d \in Calls \ {c} : call'[d] = call[d]
    BY <1>0, <2>1
  <2>5. Crud!TypeOK' BY <1>T, <2>1, <2>3 DEF Crud!TypeOK
  <2>6. \A d \in Calls : call'[d].state # "idle" => call'[d].id \in Crud!Ids
    BY <2>4 DEF IdOK
  <2>7. \A d \in Calls : call'[d].state = "read" => call'[d] = call[d]
    BY <2>4
  <2>8. ReadOK' BY <2>1, <2>7 DEF ReadOK
  <2> QED BY <2>5, <2>6, <2>8 DEF IdOK, Crud!Ids
<1>2. ASSUME NEW c \in Calls, Crud!AddAsync(c) PROVE RepositoryInv'
  <2>1. call[c].state # "idle" /\ UNCHANGED seen
    BY <1>2 DEF Crud!AddAsync, Crud!Called
  <2>2. CASE Crud!Kept(c) = null
    BY <1>2, <2>1, <2>2, <1>U, <1>R DEF Crud!AddAsync, Crud!Results
  <2>3. CASE Crud!Kept(c) # null
    BY <1>2, <2>1, <2>3, <1>R DEF Crud!AddAsync, Crud!Results
  <2> QED BY <2>2, <2>3
<1>3. ASSUME NEW c \in Calls, Crud!RemoveAsync(c) PROVE RepositoryInv'
  <2>1. call[c].state # "idle" /\ UNCHANGED seen /\ Crud!Return(c, Crud!Kept(c))
    BY <1>3 DEF Crud!RemoveAsync, Crud!Called
  <2>2. \/ Crud!Write(c, null) \/ UNCHANGED <<users, disturbed>>
    BY <1>3 DEF Crud!RemoveAsync
  <2> QED BY <2>1, <2>2, <1>K, <1>R
<1>4. ASSUME NEW c \in Calls, Crud!GetAsync(c) PROVE RepositoryInv'
  BY <1>4, <1>K, <1>R DEF Crud!GetAsync, Crud!Called
<1>5. ASSUME NEW c \in Calls, Crud!ReadCurrent(c) PROVE RepositoryInv'
  <2>1. /\ call[c].state = "called" /\ call[c].op = "Update"
        /\ seen' = [seen EXCEPT ![c] = Crud!Kept(c)]
        /\ UNCHANGED <<users, disturbed>>
    BY <1>5 DEF Crud!ReadCurrent, Crud!Called
  <2>2. seen' \in [Calls -> Users \cup {null}] /\ seen'[c] = Crud!Kept(c)
        /\ \A d \in Calls \ {c} : seen'[d] = seen[d]
    BY <1>S, <1>K, <2>1
  <2>3. CASE Crud!Kept(c) = null
    <3>1. Crud!Return(c, "thrown") BY <1>5, <2>3 DEF Crud!ReadCurrent
    <3>2. /\ call' \in [Calls -> CallType] /\ call'[c].state = "returned" /\ IdOK'
          /\ \A d \in Calls \ {c} : call'[d] = call[d]
      BY <2>1, <3>1, ReturnTyped DEF Crud!Results
    <3>3. Crud!TypeOK' BY <1>T, <2>1, <2>2, <3>2 DEF Crud!TypeOK
    <3>4. \A d \in Calls : call'[d].state = "read" =>
            d # c /\ call'[d] = call[d] /\ seen'[d] = seen[d]
      BY <2>2, <3>2
    <3>5. ReadOK' BY <2>1, <3>4 DEF ReadOK
    <3> QED BY <3>2, <3>3, <3>5
  <2>4. CASE Crud!Kept(c) # null
    <3>1. call' = [call EXCEPT ![c].state = "read"]
      BY <1>5, <2>4 DEF Crud!ReadCurrent
    <3>2. /\ call'[c] = [call[c] EXCEPT !.state = "read"]
          /\ \A d \in Calls \ {c} : call'[d] = call[d]
      BY <1>0, <3>1
    <3>3. call[c] \in CallType BY <1>0
    <3>4. /\ call'[c] \in CallType /\ call'[c].op = "Update"
          /\ call'[c].id = call[c].id
      BY <2>1, <3>2, <3>3 DEF CallType
    <3>5. call' \in [Calls -> CallType] BY <1>0, <3>1, <3>2, <3>4
    <3>6. Crud!TypeOK' BY <1>T, <2>1, <2>2, <3>5 DEF Crud!TypeOK
    <3>7. IdOK'
      <4>1. \A d \in Calls : call'[d].state # "idle" => call'[d].id \in Crud!Ids
        BY <2>1, <3>2, <3>4 DEF IdOK
      <4> QED BY <4>1 DEF IdOK, Crud!Ids
    <3>8. ReadOK'
      <4> SUFFICES ASSUME NEW d \in Calls, call'[d].state = "read"
                   PROVE  /\ call'[d].op = "Update" /\ seen'[d] # null
                          /\ users'[call'[d].id] = seen'[d] \/ d \in disturbed'
        BY DEF ReadOK
      <4>1. CASE d = c BY <4>1, <2>1, <2>2, <2>4, <3>4 DEF Crud!Kept
      <4>2. CASE d # c BY <4>2, <2>1, <2>2, <3>2 DEF ReadOK
      <4> QED BY <4>1, <4>2
    <3> QED BY <3>6, <3>7, <3>8
  <2> QED BY <2>3, <2>4
<1>6. ASSUME NEW c \in Calls, Crud!TryUpdate(c) PROVE RepositoryInv'
  <2>1. call[c].state # "idle" /\ UNCHANGED seen BY <1>6 DEF Crud!TryUpdate
  <2>2. CASE Crud!Kept(c) = seen[c]
    BY <1>6, <2>1, <2>2, <1>U, <1>R DEF Crud!TryUpdate, Crud!Results
  <2>3. CASE Crud!Kept(c) # seen[c]
    BY <1>6, <2>1, <2>3, <1>R DEF Crud!TryUpdate, Crud!Results
  <2> QED BY <2>2, <2>3
<1>7. CASE UNCHANGED Crud!vars
  BY <1>7 DEF Crud!vars, Crud!TypeOK, IdOK, ReadOK, Crud!Ids, Crud!Results
<1> QED BY <1>1, <1>2, <1>3, <1>4, <1>5, <1>6, <1>7 DEF Crud!Next, Crud!Ids
-----------------------------------------------------------------------------
(* The refinement mapping, call by call.                                   *)
abstractCall == [c \in Calls |-> Shown(c)]

LEMMA ShownKeeps ==
  ASSUME NEW c \in Calls, call[c] \in CallType
  PROVE  /\ Shown(c).op = call[c].op /\ Shown(c).id = call[c].id
         /\ Shown(c).user = call[c].user
         /\ (Shown(c).state = "called") = (call[c].state \in {"called", "read"})
BY DEF Shown, CallType

(* The abstract store starts empty.                                        *)
LEMMA AtomicInit == Crud!Init => Crud!Atomic!Init
<1> SUFFICES ASSUME Crud!Init PROVE Crud!Atomic!Init OBVIOUS
<1>1. \A c \in Calls : call[c] = Crud!None /\ Crud!None.state = "idle"
  BY DEF Crud!Init, Crud!None
<1>2. users = [id \in Crud!Ids |-> null] /\ disturbed = {} BY DEF Crud!Init
<1>3. [c \in Calls |-> IF call[c].state = "read"
                       THEN [call[c] EXCEPT !.state = "called"] ELSE call[c]]
        = [c \in Calls |-> Crud!None]
  BY <1>1
<1> QED BY <1>2, <1>3
  DEF Crud!Atomic!Init, Crud!Atomic!Ids, Crud!Atomic!None, Crud!Ids, Crud!None

(* A call that returns does so for the abstract store, too.                *)
LEMMA ReturnShows ==
  ASSUME Crud!TypeOK, NEW c \in Calls, NEW r \in Crud!Results, Crud!Return(c, r),
         call[c].state # "idle"
  PROVE  Crud!Atomic!Return(c, r)
<1>1. call \in [Calls -> CallType] BY DEF Crud!TypeOK, CallType
<1>2. call' = [call EXCEPT ![c] = [@ EXCEPT !.state = "returned", !.result = r]]
  BY DEF Crud!Return
<1>3. call'[c] = [call[c] EXCEPT !.state = "returned", !.result = r]
  BY <1>1, <1>2
<1>4. \A d \in Calls \ {c} : call'[d] = call[d] BY <1>1, <1>2
<1>5. call[c] \in CallType BY <1>1
<1>6. call'[c].state = "returned" BY <1>3, <1>5 DEF CallType
<1>7. call'[c] = [Shown(c) EXCEPT !.state = "returned", !.result = r]
  BY <1>3, <1>5 DEF Shown, CallType
<1>8. abstractCall' = [abstractCall EXCEPT ![c] =
                        [@ EXCEPT !.state = "returned", !.result = r]]
  <2>1. abstractCall' = [d \in Calls |-> IF call'[d].state = "read"
                          THEN [call'[d] EXCEPT !.state = "called"] ELSE call'[d]]
    BY DEF abstractCall, Shown
  <2>2. \A d \in Calls \ {c} :
          (IF call'[d].state = "read" THEN [call'[d] EXCEPT !.state = "called"]
           ELSE call'[d]) = Shown(d)
    BY <1>4 DEF Shown
  <2>3. (IF call'[c].state = "read" THEN [call'[c] EXCEPT !.state = "called"]
           ELSE call'[c]) = [Shown(c) EXCEPT !.state = "returned", !.result = r]
    BY <1>6, <1>7
  <2> QED BY <2>1, <2>2, <2>3, ZenonT(30) DEF abstractCall
<1> QED BY <1>8 DEF Crud!Atomic!Return, abstractCall, Shown

(* What it writes is stored, and the same calls are disturbed.             *)
LEMMA WriteStores ==
  ASSUME Crud!TypeOK, NEW c \in Calls, NEW user, Crud!Write(c, user)
  PROVE  Crud!Atomic!Store(c, user)
<1>1. call \in [Calls -> CallType] BY DEF Crud!TypeOK, CallType
<1>2. \A d \in Calls : /\ Shown(d).id = call[d].id
                       /\ (Shown(d).state = "called") = (call[d].state \in {"called", "read"})
  BY <1>1, ShownKeeps
<1>3. abstractCall[c].id = call[c].id BY <1>2 DEF abstractCall
<1>4. {d \in Calls \ {c} : /\ abstractCall[d].state = "called"
                           /\ abstractCall[d].id = abstractCall[c].id}
       = {d \in Calls \ {c} : /\ call[d].state \in {"called", "read"}
                              /\ call[d].id = call[c].id}
  BY <1>2, <1>3 DEF abstractCall
<1> QED BY <1>3, <1>4 DEF Crud!Write, Crud!Atomic!Store, abstractCall, Shown

(* Every step is a step of the abstract store or, the read of UpdateAsync, *)
(* none at all.                                                            *)
LEMMA AtomicStep ==
  RepositoryInv /\ [Crud!Next]_(Crud!vars) => [Crud!Atomic!Next]_(Crud!Atomic!vars)
<1> SUFFICES ASSUME RepositoryInv, Crud!Next
             PROVE  Crud!Atomic!Next \/ UNCHANGED Crud!Atomic!vars
  BY DEF Crud!vars, Crud!Atomic!vars
<1> USE DEF RepositoryInv
<1>0. call \in [Calls -> CallType] BY DEF Crud!TypeOK, CallType
<1>C. \A c \in Calls :
        /\ abstractCall[c].op = call[c].op /\ abstractCall[c].id = call[c].id
        /\ abstractCall[c].user = call[c].user
        /\ (abstractCall[c].state = "called") = (call[c].state \in {"called", "read"})
  BY <1>0, ShownKeeps DEF abstractCall
<1>D. \A c \in Calls, op \in {"Add", "Remove", "Update", "Get"} :
        Crud!Called(c, op) =>
          Crud!Atomic!Called(c, op) /\ Crud!Atomic!Kept(c) = Crud!Kept(c)
  BY <1>C
    DEF Crud!Called, Crud!Kept, Crud!Atomic!Called, Crud!Atomic!Kept, abstractCall, Shown
<1>K. \A c \in Calls : call[c].state # "idle" => Crud!Kept(c) \in Crud!Results
  BY DEF IdOK, Crud!TypeOK, Crud!Kept, Crud!Results
<1>1. ASSUME NEW c \in Calls, NEW id \in Crud!Ids, NEW user \in Users \cup {null},
             NEW op \in {"Add", "Remove", "Update", "Get"}, Crud!Start(c, op, id, user)
      PROVE  Crud!Atomic!Start(c, op, id, user)
  <2> DEFINE new == [state |-> "called", op |-> op, id |-> id, user |-> user,
                     result |-> null]
  <2>1. /\ call[c] = Crud!None /\ call' = [call EXCEPT ![c] = new]
        /\ UNCHANGED <<users, disturbed>>
    BY <1>1 DEF Crud!Start
  <2>2. call'[c] = new /\ \A d \in Calls \ {c} : call'[d] = call[d]
    BY <1>0, <2>1
  <2>3. abstractCall[c] = Crud!Atomic!None
    BY <2>1 DEF abstractCall, Shown, Crud!None, Crud!Atomic!None
  <2>4. abstractCall' = [abstractCall EXCEPT ![c] = new]
    <3>1. \A d \in Calls \ {c} : Shown(d)' = Shown(d) BY <2>2 DEF Shown
    <3>2. Shown(c)' = new BY <2>2 DEF Shown
    <3> QED BY <3>1, <3>2 DEF abstractCall
  <2> QED BY <2>1, <2>3, <2>4 DEF Crud!Atomic!Start, abstractCall, Shown
<1>2. ASSUME NEW c \in Calls, Crud!AddAsync(c) PROVE Crud!Atomic!Add(c)
  <2>1. Crud!Called(c, "Add") /\ call[c].state # "idle"
    BY <1>2 DEF Crud!AddAsync, Crud!Called
  <2>2. Crud!Atomic!Called(c, "Add") /\ Crud!Atomic!Kept(c) = Crud!Kept(c)
    BY <1>D, <2>1
  <2>3. CASE Crud!Kept(c) = null
    <3>1. Crud!Write(c, call[c].user) /\ Crud!Return(c, "true")
      BY <1>2, <2>3 DEF Crud!AddAsync
    <3>2. Crud!Atomic!Store(c, abstractCall[c].user) BY <3>1, <1>C, WriteStores
    <3>3. Crud!Atomic!Return(c, "true") BY <3>1, <2>1, ReturnShows DEF Crud!Results
    <3> QED BY <2>2, <2>3, <3>2, <3>3 DEF Crud!Atomic!Add, abstractCall, Shown
  <2>4. CASE Crud!Kept(c) # null
    <3>1. Crud!Return(c, "false") /\ UNCHANGED <<users, disturbed>>
      BY <1>2, <2>4 DEF Crud!AddAsync
    <3>2. Crud!Atomic!Return(c, "false") BY <3>1, <2>1, ReturnShows DEF Crud!Results
    <3> QED BY <2>2, <2>4, <3>1, <3>2 DEF Crud!Atomic!Add
  <2> QED BY <2>3, <2>4
<1>3. ASSUME NEW c \in Calls, Crud!RemoveAsync(c) PROVE Crud!Atomic!Remove(c)
  <2>1. Crud!Called(c, "Remove") /\ call[c].state # "idle"
    BY <1>3 DEF Crud!RemoveAsync, Crud!Called
  <2>2. Crud!Atomic!Called(c, "Remove") /\ Crud!Atomic!Kept(c) = Crud!Kept(c)
    BY <1>D, <2>1
  <2>3. PICK r \in Crud!Results : r = Crud!Kept(c) BY <1>K, <2>1
  <2>4. Crud!Return(c, r) BY <1>3, <2>3 DEF Crud!RemoveAsync, Crud!Return
  <2>5. Crud!Atomic!Return(c, r) BY <2>1, <2>4, ReturnShows
  <2>6. IF Crud!Kept(c) = null THEN UNCHANGED <<users, disturbed>>
        ELSE Crud!Atomic!Store(c, null)
    BY <1>3, WriteStores DEF Crud!RemoveAsync
  <2> QED BY <2>2, <2>3, <2>5, <2>6 DEF Crud!Atomic!Remove, Crud!Atomic!Return
<1>4. ASSUME NEW c \in Calls, Crud!GetAsync(c) PROVE Crud!Atomic!Get(c)
  <2>1. Crud!Called(c, "Get") /\ call[c].state # "idle"
    BY <1>4 DEF Crud!GetAsync, Crud!Called
  <2>2. Crud!Atomic!Called(c, "Get") /\ Crud!Atomic!Kept(c) = Crud!Kept(c)
    BY <1>D, <2>1
  <2>3. PICK r \in Crud!Results : r = Crud!Kept(c) BY <1>K, <2>1
  <2>4. Crud!Return(c, r) BY <1>4, <2>3 DEF Crud!GetAsync, Crud!Return
  <2>5. Crud!Atomic!Return(c, r) BY <2>1, <2>4, ReturnShows
  <2> QED BY <1>4, <2>2, <2>3, <2>5
    DEF Crud!Atomic!Get, Crud!Atomic!Return, Crud!GetAsync
<1>5. ASSUME NEW c \in Calls, Crud!ReadCurrent(c)
      PROVE  Crud!Atomic!Update(c) \/ UNCHANGED Crud!Atomic!vars
  <2>1. Crud!Called(c, "Update") /\ call[c].state = "called" /\ UNCHANGED <<users, disturbed>>
    BY <1>5 DEF Crud!ReadCurrent, Crud!Called
  <2>2. Crud!Atomic!Called(c, "Update") /\ Crud!Atomic!Kept(c) = Crud!Kept(c)
    BY <1>D, <2>1
  <2>3. CASE Crud!Kept(c) = null
    <3>1. Crud!Return(c, "thrown") BY <1>5, <2>3 DEF Crud!ReadCurrent
    <3>2. Crud!Atomic!Return(c, "thrown") BY <3>1, <2>1, ReturnShows DEF Crud!Results
    <3> QED BY <2>1, <2>2, <2>3, <3>2 DEF Crud!Atomic!Update
  <2>4. CASE Crud!Kept(c) # null
    <3>1. call' = [call EXCEPT ![c].state = "read"]
      BY <1>5, <2>4 DEF Crud!ReadCurrent
    <3>2. /\ call'[c] = [call[c] EXCEPT !.state = "read"]
          /\ \A d \in Calls \ {c} : call'[d] = call[d]
      BY <1>0, <3>1
    <3>3. call[c] \in CallType BY <1>0
    <3>4. [call'[c] EXCEPT !.state = "called"] = call[c] /\ call'[c].state = "read"
      BY <2>1, <3>2, <3>3, ZenonT(30) DEF CallType
    <3>5. \A d \in Calls : Shown(d)' = Shown(d)
      BY <2>1, <3>2, <3>4 DEF Shown
    <3>6. abstractCall' = abstractCall BY <3>5 DEF abstractCall
    <3> QED BY <2>1, <3>6 DEF Crud!Atomic!vars, abstractCall, Shown
  <2> QED BY <2>3, <2>4
<1>6. ASSUME NEW c \in Calls, Crud!TryUpdate(c) PROVE Crud!Atomic!Update(c)
  <2>1. call[c].state = "read" /\ call[c].op = "Update" /\ seen[c] # null
        /\ (users[call[c].id] = seen[c] \/ c \in disturbed)
    BY <1>6 DEF Crud!TryUpdate, ReadOK
  <2>2. Crud!Atomic!Called(c, "Update") /\ Crud!Atomic!Kept(c) = Crud!Kept(c)
    BY <1>C, <2>1
      DEF Crud!Kept, Crud!Atomic!Called, Crud!Atomic!Kept, abstractCall, Shown
  <2>3. CASE Crud!Kept(c) = seen[c]
    <3>1. Crud!Write(c, call[c].user) /\ Crud!Return(c, "true")
      BY <1>6, <2>3 DEF Crud!TryUpdate
    <3>2. Crud!Atomic!Store(c, abstractCall[c].user) BY <3>1, <1>C, WriteStores
    <3>3. Crud!Atomic!Return(c, "true") BY <3>1, <2>1, ReturnShows DEF Crud!Results
    <3> QED BY <2>1, <2>2, <2>3, <3>2, <3>3
      DEF Crud!Atomic!Update, abstractCall, Shown
  <2>4. CASE Crud!Kept(c) # seen[c]
    <3>1. Crud!Return(c, "false") /\ UNCHANGED <<users, disturbed>> /\ c \in disturbed
      BY <1>6, <2>1, <2>4 DEF Crud!TryUpdate, Crud!Kept
    <3>2. Crud!Atomic!Return(c, "false") BY <3>1, <2>1, ReturnShows DEF Crud!Results
    <3> QED BY <2>2, <3>1, <3>2 DEF Crud!Atomic!Update
  <2> QED BY <2>3, <2>4
<1>7. Crud!Atomic!Ids = Crud!Ids BY DEF Crud!Atomic!Ids, Crud!Ids
<1>8. PICK c \in Calls :
        \/ \E u \in Users, op \in {"Add", "Update"} : Crud!Start(c, op, IdOf[u], u)
        \/ \E id \in Crud!Ids, op \in {"Remove", "Get"} : Crud!Start(c, op, id, null)
        \/ Crud!AddAsync(c) \/ Crud!RemoveAsync(c) \/ Crud!GetAsync(c) \/ Crud!ReadCurrent(c)
        \/ Crud!TryUpdate(c)
  BY DEF Crud!Next
<1>9. CASE \E u \in Users, op \in {"Add", "Update"} : Crud!Start(c, op, IdOf[u], u)
  <2>1. PICK u \in Users, op \in {"Add", "Update"} : Crud!Start(c, op, IdOf[u], u)
    BY <1>9
  <2>2. Crud!Atomic!Start(c, op, IdOf[u], u) BY <1>1, <2>1 DEF Crud!Ids
  <2> QED BY <2>2 DEF Crud!Atomic!Next
<1>10. CASE \E id \in Crud!Ids, op \in {"Remove", "Get"} : Crud!Start(c, op, id, null)
  <2>1. PICK id \in Crud!Ids, op \in {"Remove", "Get"} : Crud!Start(c, op, id, null)
    BY <1>10
  <2>2. Crud!Atomic!Start(c, op, id, null) BY <1>1, <2>1
  <2> QED BY <2>2, <1>7 DEF Crud!Atomic!Next
<1> QED BY <1>2, <1>3, <1>4, <1>5, <1>6, <1>8, <1>9, <1>10 DEF Crud!Atomic!Next
-----------------------------------------------------------------------------
(* Type correctness, for any number of calls and users.                    *)
THEOREM RepositoryTypeCorrect == Crud!Spec => []Crud!TypeOK
<1>1. RepositoryInv => Crud!TypeOK BY DEF RepositoryInv
<1> QED BY RepositoryInit, RepositoryNext, <1>1, PTL DEF Crud!Spec

(* Every call takes effect at one moment: an UpdateAsync that another call *)
(* crosses between its read and its TryUpdate is refused, and otherwise    *)
(* stores its user at its TryUpdate.                                       *)
THEOREM RepositoryIsAtomic == Crud!Spec => AtomicSpec
<1> QED BY RepositoryInit, RepositoryNext, AtomicInit, AtomicStep, PTL
        DEF AtomicSpec, Crud!Spec, Crud!AtomicSpec, Crud!Atomic!Spec
-----------------------------------------------------------------------------
(* The threads of Task4 are made one after the other, from Ten down, and   *)
(* come to their ends only when all have been made: Printed of them have   *)
(* printed, and the next in line is the only one that may.                 *)
ChainOK ==
  exercise = "Task4" =>
    LET n == Len(printed)
    IN /\ n <= Ten + 1 /\ \A k \in 1..n : printed[k] = Ten + 1 - k
       /\ chain[0] # "joining"
       /\ \A c \in 0..Ten :
            /\ c < Ten - n => chain[c] = "none"
            /\ c = Ten - n => chain[c] = IF n = 0 THEN "none" ELSE "started"
            /\ c > Ten - n => chain[c] \in {"joining", "ended"}
            /\ chain[c] = "ended" => n = Ten + 1
       /\ main = "ended" => n = Ten + 1

(* Task6 adds and prints in turn: the printer is behind by one element     *)
(* while the adder waits, and the event says that it has caught up.        *)
TurnsOK ==
  exercise = "Task6" =>
    LET added == Len(list)
        shown == Len(printed)
    IN /\ added <= Ten /\ \A k \in 1..added : list[k] = k - 1
       /\ \A m \in 1..shown : printed[m] = [k \in 1..m |-> k - 1]
       /\ adder = "holding" <=> lock = "adder"
       /\ printer # "none" <=> lock = "printer"
       /\ adder \in {"adding", "holding", "ended"} =>
            added = shown /\ queued = 0 /\ printer # "printing" /\ ~event
       /\ adder = "holding" => added < Ten
       /\ adder = "waiting" =>
            \/ added = shown /\ queued = 0 /\ printer # "printing" /\ event
            \/ /\ added = shown + 1 /\ ~event
               /\ IF printer = "printing" THEN queued = 0
                  ELSE printer = "none" /\ queued = 1
       /\ main = "ended" => added = shown /\ added = Ten

ThreadsInv == Threads!TypeOK /\ ChainOK /\ TurnsOK
-----------------------------------------------------------------------------
LEMMA ThreadsFacts ==
  /\ Ten \in Nat \ {0} /\ Len(MatrixB) \in Nat /\ Len(MatrixB) > 0
  /\ Len(MatrixB[1]) \in Nat
  /\ \A i \in DOMAIN MatrixA, k \in DOMAIN MatrixB : MatrixA[i][k] \in Int
  /\ \A k \in DOMAIN MatrixB, j \in DOMAIN MatrixB[1] : MatrixB[k][j] \in Int
  /\ DOMAIN MatrixB = 1..Len(MatrixB) /\ DOMAIN MatrixB[1] = 1..Len(MatrixB[1])
<1>1. Threads!ExerciseAssumption BY ExercisesAssumption
<1>2. /\ MatrixA \in Seq(Seq(Int)) /\ MatrixB \in Seq(Seq(Int)) /\ Len(MatrixB) > 0
      /\ Len(MatrixB) \in Nat /\ Ten \in Nat \ {0}
  BY <1>1 DEF Threads!ExerciseAssumption
<1>3. MatrixB[1] \in Seq(Int) /\ \A k \in DOMAIN MatrixB : MatrixB[k] \in Seq(Int)
  BY <1>2
<1>4. \A i \in DOMAIN MatrixA, k \in DOMAIN MatrixB : MatrixA[i][k] \in Int
  <2> TAKE i \in DOMAIN MatrixA, k \in DOMAIN MatrixB
  <2>1. MatrixA[i] \in Seq(Int) BY <1>2
  <2>2. k \in DOMAIN MatrixA[i]
    BY <1>1, <1>2, <2>1 DEF Threads!ExerciseAssumption
  <2> QED BY <2>1, <2>2
<1>5. \A k \in DOMAIN MatrixB, j \in DOMAIN MatrixB[1] : MatrixB[k][j] \in Int
  <2> TAKE k \in DOMAIN MatrixB, j \in DOMAIN MatrixB[1]
  <2>1. j \in DOMAIN MatrixB[k]
    BY <1>1, <1>3 DEF Threads!ExerciseAssumption
  <2> QED BY <1>3, <2>1
<1> QED BY <1>2, <1>3, <1>4, <1>5

LEMMA ThreadsInit == Threads!Init => ThreadsInv
<1> SUFFICES ASSUME Threads!Init PROVE ThreadsInv
  OBVIOUS
<1> USE ThreadsFacts DEF Threads!Init
<1>1. Threads!TypeOK
  <2>1. row \in [Threads!Rows -> (1..Len(MatrixB[1]) + 1) \X (1..Len(MatrixB))]
    BY DEF Threads!Rows
  <2>2. cell \in [Threads!Rows -> [Threads!Columns -> Int]] OBVIOUS
  <2>3. << >> \in Seq(Threads!Chain) /\ << >> \in Seq(Seq(Threads!Chain)) OBVIOUS
  <2>4. event \in BOOLEAN OBVIOUS
  <2> QED BY <2>1, <2>2, <2>3, <2>4 DEF Threads!TypeOK
<1>2. ChainOK BY DEF ChainOK, Threads!Chain
<1>3. TurnsOK BY DEF TurnsOK
<1> QED BY <1>1, <1>2, <1>3 DEF ThreadsInv

(* Task3 and Task5 touch none of the state of the others' turns.           *)
LEMMA Task3Threads == ThreadsInv /\ Threads!Task3 => ThreadsInv'
<1> SUFFICES ASSUME ThreadsInv, Threads!Task3 PROVE ThreadsInv'
  OBVIOUS
<1> USE DEF ThreadsInv, Threads!listVars, Threads!matrixVars
<1>0. exercise = "Task3" /\ UNCHANGED <<exercise, chain, printed, permits, Threads!listVars>>
  BY DEF Threads!Task3, Threads!Multiply, Threads!EndFor, Threads!Alive
<1>1. ChainOK' /\ TurnsOK' BY <1>0 DEF ChainOK, TurnsOK
<1>2. ASSUME NEW r \in Threads!Rows, Threads!Multiply(r)
      PROVE  Threads!TypeOK'
  <2> DEFINE j == row[r][1]
             k == row[r][2]
  <2>1. /\ j \in Threads!Columns /\ UNCHANGED main
        /\ cell' = [cell EXCEPT ![r][j] = @ + MatrixA[r][k] * MatrixB[k][j]]
        /\ row' = [row EXCEPT ![r] = IF k < Len(MatrixB) THEN <<j, k + 1>>
                                     ELSE <<j + 1, 1>>]
    BY <1>2 DEF Threads!Multiply
  <2>2. row[r] \in (1..Len(MatrixB[1]) + 1) \X (1..Len(MatrixB)) /\ k \in DOMAIN MatrixB
    BY ThreadsFacts DEF Threads!TypeOK
  <2>3. j \in 1..Len(MatrixB[1]) BY <2>1, ThreadsFacts DEF Threads!Columns
  <2>4. MatrixA[r][k] * MatrixB[k][j] \in Int
    BY <2>1, <2>2, ThreadsFacts DEF Threads!Rows, Threads!Columns
  <2> DEFINE next == IF k < Len(MatrixB) THEN <<j, k + 1>> ELSE <<j + 1, 1>>
             add == MatrixA[r][k] * MatrixB[k][j]
  <2>5. next \in (1..Len(MatrixB[1]) + 1) \X (1..Len(MatrixB))
    BY <2>2, <2>3, ThreadsFacts
  <2>6. add \in Int BY <2>4
  <2>7. cell' = [cell EXCEPT ![r][j] = @ + add] /\ row' = [row EXCEPT ![r] = next]
    BY <2>1
  <2> HIDE DEF next, add, j, k
  <2>8. /\ row' \in [Threads!Rows -> (1..Len(MatrixB[1]) + 1) \X (1..Len(MatrixB))]
    BY <2>5, <2>7 DEF Threads!TypeOK
  <2>9. cell' \in [Threads!Rows -> [Threads!Columns -> Int]]
    <3>1. cell \in [Threads!Rows -> [Threads!Columns -> Int]] BY DEF Threads!TypeOK
    <3>2. cell[r] \in [Threads!Columns -> Int] /\ cell[r][j] + add \in Int
      BY <2>1, <2>6, <3>1
    <3> QED BY <2>1, <2>7, <3>1, <3>2
  <2> QED BY <1>0, <2>1, <2>8, <2>9 DEF Threads!TypeOK
<1>3. ASSUME Threads!EndFor PROVE Threads!TypeOK'
  BY <1>0, <1>3 DEF Threads!EndFor, Threads!TypeOK
<1> QED BY <1>1, <1>2, <1>3 DEF Threads!Task3

LEMMA Task5Threads == ThreadsInv /\ Threads!Task5 => ThreadsInv'
<1> SUFFICES ASSUME ThreadsInv, Threads!Task5 PROVE ThreadsInv'
  OBVIOUS
<1> USE ThreadsFacts DEF ThreadsInv, Threads!listVars, Threads!matrixVars
<1>0. exercise = "Task5" /\ UNCHANGED <<exercise, Threads!matrixVars, Threads!listVars>>
  BY DEF Threads!Task5, Threads!QueueUserWorkItem, Threads!WaitOne, Threads!EndTask5,
         Threads!Alive
<1>1. ChainOK' /\ TurnsOK' BY <1>0 DEF ChainOK, TurnsOK
<1>2. ASSUME NEW c \in Threads!Chain, Threads!QueueUserWorkItem(c)
      PROVE  Threads!TypeOK'
  <2>1. /\ printed' = Append(printed, c) /\ printed \in Seq(Threads!Chain)
        /\ chain' = IF c = 0 THEN [chain EXCEPT ![c] = "ended"]
                    ELSE [chain EXCEPT ![c] = "ended", ![c - 1] = "queued"]
        /\ main' = IF c = Ten THEN "waiting"
                   ELSE IF c = 0 /\ permits = 1 THEN "crashed" ELSE main
        /\ permits' = IF c = 0 THEN 1 ELSE permits
    BY <1>0, <1>2 DEF Threads!QueueUserWorkItem, Threads!TypeOK
  <2>2. printed' \in Seq(Threads!Chain) BY <2>1, AppendProperties
  <2>3. chain' \in [Threads!Chain -> {"none", "queued", "started", "joining", "ended"}]
    BY <2>1 DEF Threads!TypeOK, Threads!Chain
  <2>4. main' \in {"running", "waiting", "returning", "ended", "crashed"}
    BY <2>1 DEF Threads!TypeOK
  <2>5. permits' \in 0..1 BY <2>1 DEF Threads!TypeOK
  <2> QED BY <1>0, <2>2, <2>3, <2>4, <2>5 DEF Threads!TypeOK
<1>3. ASSUME Threads!WaitOne PROVE Threads!TypeOK'
  BY <1>0, <1>3 DEF Threads!WaitOne, Threads!TypeOK
<1>4. ASSUME Threads!EndTask5 PROVE Threads!TypeOK'
  BY <1>0, <1>4 DEF Threads!EndTask5, Threads!TypeOK
<1> QED BY <1>1, <1>2, <1>3, <1>4 DEF Threads!Task5

LEMMA Task4Threads == ThreadsInv /\ Threads!Task4 => ThreadsInv'
<1> SUFFICES ASSUME ThreadsInv, Threads!Task4 PROVE ThreadsInv'
  OBVIOUS
<1> USE ThreadsFacts DEF ThreadsInv, Threads!matrixVars, Threads!listVars
<1> DEFINE n == Len(printed)
<1>0. /\ exercise = "Task4" /\ main \notin {"ended", "crashed"}
      /\ UNCHANGED <<exercise, Threads!matrixVars, permits, Threads!listVars>>
  BY DEF Threads!Task4, Threads!CreateThread, Threads!Join, Threads!Alive
<1>1. TurnsOK' BY <1>0 DEF TurnsOK
<1>2. /\ printed \in Seq(Threads!Chain) /\ n \in Nat /\ n <= Ten + 1
      /\ \A k \in 1..n : printed[k] = Ten + 1 - k
      /\ chain \in [Threads!Chain -> {"none", "queued", "started", "joining", "ended"}]
      /\ chain[0] # "joining"
  BY <1>0 DEF Threads!TypeOK, ChainOK
<1>3. \A c \in 0..Ten :
        /\ c < Ten - n => chain[c] = "none"
        /\ c = Ten - n => chain[c] = IF n = 0 THEN "none" ELSE "started"
        /\ c > Ten - n => chain[c] \in {"joining", "ended"}
        /\ chain[c] = "ended" => n = Ten + 1
  BY <1>0 DEF ChainOK
<1>4. ASSUME NEW c \in Threads!Chain, Threads!CreateThread(c)
      PROVE  Threads!TypeOK' /\ ChainOK'
  <2>1. /\ chain[c] = "started" \/ (c = Ten /\ chain[c] = "none")
        /\ printed' = Append(printed, c) /\ UNCHANGED main
        /\ chain' = IF c = 0 THEN [chain EXCEPT ![c] = "ended"]
                    ELSE [chain EXCEPT ![c] = "joining", ![c - 1] = "started"]
    BY <1>4 DEF Threads!CreateThread
  <2>2. c \in 0..Ten BY DEF Threads!Chain
  <2>3. c = Ten - n /\ n <= Ten
    <3>1. CASE c < Ten - n
      <4>1. chain[c] = "none" BY <1>3, <2>2, <3>1
      <4> QED BY <1>2, <2>1, <3>1, <4>1
    <3>2. CASE c > Ten - n
      <4>1. chain[c] \in {"joining", "ended"} BY <1>3, <2>2, <3>2
      <4> QED BY <2>1, <4>1
    <3>3. c \in Nat /\ n \in Nat BY <1>2, <2>2
    <3> QED BY <3>1, <3>2, <3>3
  <2>4. /\ printed' \in Seq(Threads!Chain) /\ Len(printed') = n + 1
        /\ \A k \in 1..n : printed'[k] = printed[k]
        /\ printed'[n + 1] = c
    BY <1>2, <2>1, AppendProperties
  <2>5. chain' \in [Threads!Chain -> {"none", "queued", "started", "joining", "ended"}]
    BY <1>2, <2>1 DEF Threads!Chain
  <2>6. Threads!TypeOK' BY <1>0, <2>1, <2>4, <2>5 DEF Threads!TypeOK
  <2>7. \A k \in 1..n + 1 : printed'[k] = Ten + 1 - k
    <3> TAKE k \in 1..n + 1
    <3>1. CASE k \in 1..n BY <1>2, <2>4, <3>1
    <3>2. CASE k = n + 1 BY <1>2, <2>3, <2>4, <3>2
    <3> QED BY <1>2, <3>1, <3>2
  <2>8. /\ chain'[0] # "joining"
        /\ \A d \in 0..Ten :
             /\ d < Ten - (n + 1) => chain'[d] = "none"
             /\ d = Ten - (n + 1) => chain'[d] = "started"
             /\ d > Ten - (n + 1) => chain'[d] \in {"joining", "ended"}
             /\ chain'[d] = "ended" => n = Ten
    <3>1. CASE c = 0
      BY <1>2, <1>3, <2>1, <2>3, <3>1 DEF Threads!Chain
    <3>2. CASE c # 0
      <4>1. /\ c - 1 \in 0..Ten /\ chain'[c] = "joining" /\ chain'[c - 1] = "started"
            /\ \A d \in 0..Ten : d # c /\ d # c - 1 => chain'[d] = chain[d]
        BY <1>2, <2>1, <2>2, <3>2 DEF Threads!Chain
      <4>2. chain'[0] # "joining"
        <5>1. CASE c - 1 = 0 BY <4>1, <5>1
        <5>2. CASE c - 1 # 0
          <6>1. 0 \in 0..Ten /\ 0 # c /\ 0 # c - 1 BY <3>2, <5>2
          <6> QED BY <1>2, <4>1, <6>1
        <5> QED BY <5>1, <5>2
      <4>3. ASSUME NEW d \in 0..Ten
            PROVE  /\ d < c - 1 => chain'[d] = "none"
                   /\ d = c - 1 => chain'[d] = "started"
                   /\ d > c - 1 => chain'[d] \in {"joining", "ended"}
                   /\ chain'[d] # "ended"
        <5>1. CASE d = c BY <2>2, <4>1, <5>1
        <5>2. CASE d = c - 1 BY <2>2, <4>1, <5>2
        <5>3. CASE d < c - 1
          <6>0. d # c /\ d # c - 1 /\ d < Ten - n BY <1>2, <2>2, <2>3, <5>3
          <6>1. chain'[d] = chain[d] /\ d < Ten - n BY <4>1, <6>0
          <6> QED BY <1>3, <2>2, <5>3, <6>1
        <5>4. CASE d > c
          <6>0. d # c /\ d # c - 1 /\ d > Ten - n BY <1>2, <2>2, <2>3, <5>4
          <6>1. chain'[d] = chain[d] /\ d > Ten - n BY <4>1, <6>0
          <6>2. chain[d] \in {"joining", "ended"} /\ chain[d] # "ended"
            BY <1>2, <1>3, <2>3, <6>1
          <6> QED BY <2>2, <5>4, <6>1, <6>2
        <5> QED BY <2>2, <5>1, <5>2, <5>3, <5>4
      <4>4. c - 1 = Ten - (n + 1) BY <1>2, <2>3
      <4> QED BY <4>2, <4>3, <4>4
    <3> QED BY <3>1, <3>2
  <2>9. main' # "ended" BY <1>0, <2>1
  <2> QED BY <1>2, <2>3, <2>4, <2>6, <2>7, <2>8, <2>9 DEF ChainOK
<1>5. ASSUME NEW c \in Threads!Chain, Threads!Join(c)
      PROVE  Threads!TypeOK' /\ ChainOK'
  <2>1. /\ chain[c] = "joining" /\ chain[c - 1] = "ended"
        /\ chain' = [chain EXCEPT ![c] = "ended"] /\ UNCHANGED printed
        /\ main' = IF c = Ten THEN "ended" ELSE main
    BY <1>5 DEF Threads!Join
  <2>2. c \in 0..Ten /\ c # 0 /\ c - 1 \in 0..Ten
    BY <1>2, <2>1 DEF Threads!Chain
  <2>3. n = Ten + 1 BY <1>3, <2>1, <2>2
  <2>4. chain' \in [Threads!Chain -> {"none", "queued", "started", "joining", "ended"}]
    BY <1>2, <2>1
  <2>5. Threads!TypeOK' BY <1>0, <2>1, <2>4 DEF Threads!TypeOK
  <2>6. chain'[0] # "joining" /\ \A d \in 0..Ten : chain'[d] \in {"joining", "ended"}
    BY <1>2, <1>3, <2>1, <2>2, <2>3 DEF Threads!Chain
  <2> QED BY <1>2, <2>1, <2>3, <2>5, <2>6 DEF ChainOK
<1> QED BY <1>1, <1>4, <1>5 DEF Threads!Task4

LEMMA Task6Threads == ThreadsInv /\ Threads!Task6 => ThreadsInv'
<1> SUFFICES ASSUME ThreadsInv, Threads!Task6 PROVE ThreadsInv'
  OBVIOUS
<1> USE ThreadsFacts DEF ThreadsInv, Threads!matrixVars, Threads!other6
<1>0. /\ exercise = "Task6" /\ main \notin {"ended", "crashed"}
      /\ UNCHANGED <<exercise, Threads!matrixVars, permits, chain>>
  BY DEF Threads!Task6, Threads!Enter, Threads!Add, Threads!Wake, Threads!EndTask6,
         Threads!Lock, Threads!PrintList, Threads!Unlock, Threads!Alive
<1>1. ChainOK' BY <1>0 DEF ChainOK
<1>2. /\ printed \in Seq(Seq(Threads!Chain)) /\ Len(printed) \in Nat
      /\ list \in Seq(Threads!Chain) /\ Len(list) \in Nat /\ Len(list) <= Ten
      /\ \A k \in 1..Len(list) : list[k] = k - 1
  <2>1. printed \in Seq(Seq(Threads!Chain)) /\ list \in Seq(Threads!Chain)
    BY <1>0 DEF Threads!TypeOK
  <2>2. Len(list) <= Ten /\ \A k \in 1..Len(list) : list[k] = k - 1
    BY <1>0 DEF TurnsOK
  <2>3. Len(printed) \in Nat /\ Len(list) \in Nat BY <2>1, SMTT(20)
  <2> QED BY <2>1, <2>2, <2>3, ZenonT(30)
<1>3. ASSUME Threads!Add PROVE Threads!TypeOK' /\ TurnsOK'
  <2>1. /\ adder = "holding" /\ list' = Append(list, Len(list)) /\ lock' = "free"
        /\ queued' = queued + 1 /\ adder' = "waiting"
        /\ UNCHANGED <<main, printed, printer, event>>
    BY <1>3 DEF Threads!Add
  <2>2. /\ Len(list) < Ten /\ Len(list) = Len(printed) /\ queued = 0
        /\ printer = "none" /\ ~event
    BY <1>0, <2>1 DEF TurnsOK, Threads!TypeOK
  <2>3. Len(list) \in Threads!Chain BY <1>2, <2>2 DEF Threads!Chain
  <2>4. /\ list' \in Seq(Threads!Chain) /\ Len(list') = Len(list) + 1
        /\ \A k \in 1..Len(list) : list'[k] = list[k]
        /\ list'[Len(list) + 1] = Len(list)
    BY <1>2, <2>1, <2>3, AppendProperties
  <2>5. \A k \in 1..Len(list) + 1 : list'[k] = k - 1
    <3>1. PICK m \in Nat : m = Len(list) BY <1>2
    <3>2. \A k \in 1..m : list'[k] = k - 1 BY <1>2, <2>4, <3>1
    <3>3. list'[m + 1] = m BY <2>4, <3>1
    <3>4. \A k \in 1..m + 1 : k \in 1..m \/ k = m + 1 OBVIOUS
    <3> QED BY <3>1, <3>2, <3>3, <3>4
  <2>6. Threads!TypeOK' BY <1>0, <2>1, <2>2, <2>4 DEF Threads!TypeOK
  <2>7. \A m \in 1..Len(printed') : printed'[m] = [k \in 1..m |-> k - 1]
    BY <1>0, <2>1 DEF TurnsOK
  <2> QED BY <1>0, <1>2, <2>1, <2>2, <2>4, <2>5, <2>6, <2>7 DEF TurnsOK
<1>4. ASSUME Threads!PrintList PROVE Threads!TypeOK' /\ TurnsOK'
  <2>1. /\ printer = "printing" /\ printed' = Append(printed, list) /\ event' = TRUE
        /\ printer' = "signalled" /\ UNCHANGED <<main, queued, adder, list, lock>>
    BY <1>4 DEF Threads!PrintList
  <2>2. adder = "waiting" /\ Len(list) = Len(printed) + 1 /\ queued = 0
        /\ lock = "printer"
    BY <1>0, <2>1 DEF TurnsOK, Threads!TypeOK
  <2>3. /\ printed' \in Seq(Seq(Threads!Chain)) /\ Len(printed') = Len(printed) + 1
        /\ \A m \in 1..Len(printed) : printed'[m] = printed[m]
        /\ printed'[Len(printed) + 1] = list
    BY <1>2, <2>1, AppendProperties
  <2>4. list = [k \in 1..Len(list) |-> k - 1] BY <1>2
  <2>5. \A m \in 1..Len(printed) : printed[m] = [k \in 1..m |-> k - 1]
    BY <1>0 DEF TurnsOK
  <2>6. \A m \in 1..Len(printed') : printed'[m] = [k \in 1..m |-> k - 1]
    <3> TAKE m \in 1..Len(printed')
    <3>1. CASE m \in 1..Len(printed) BY <2>3, <2>5, <3>1
    <3>2. CASE m = Len(printed) + 1 BY <2>2, <2>3, <2>4, <3>2
    <3> QED BY <1>2, <2>3, <3>1, <3>2
  <2>7. Threads!TypeOK' BY <1>0, <2>1, <2>3 DEF Threads!TypeOK
  <2> QED BY <1>0, <1>2, <2>1, <2>2, <2>3, <2>6, <2>7 DEF TurnsOK
<1>5. ASSUME Threads!Enter PROVE Threads!TypeOK' /\ TurnsOK'
  BY <1>0, <1>2, <1>5 DEF Threads!Enter, Threads!TypeOK, TurnsOK
<1>6. ASSUME Threads!Wake PROVE Threads!TypeOK' /\ TurnsOK'
  BY <1>0, <1>2, <1>6 DEF Threads!Wake, Threads!TypeOK, TurnsOK
<1>7. ASSUME Threads!EndTask6 PROVE Threads!TypeOK' /\ TurnsOK'
  BY <1>0, <1>2, <1>7 DEF Threads!EndTask6, Threads!TypeOK, TurnsOK
<1>8. ASSUME Threads!Lock PROVE Threads!TypeOK' /\ TurnsOK'
  BY <1>0, <1>2, <1>8 DEF Threads!Lock, Threads!TypeOK, TurnsOK
<1>9. ASSUME Threads!Unlock PROVE Threads!TypeOK' /\ TurnsOK'
  BY <1>0, <1>2, <1>9 DEF Threads!Unlock, Threads!TypeOK, TurnsOK
<1> QED BY <1>1, <1>3, <1>4, <1>5, <1>6, <1>7, <1>8, <1>9 DEF Threads!Task6

LEMMA ThreadsNext == ThreadsInv /\ [Threads!Next]_(Threads!vars) => ThreadsInv'
<1> SUFFICES ASSUME ThreadsInv, UNCHANGED Threads!vars PROVE ThreadsInv'
  BY Task3Threads, Task4Threads, Task5Threads, Task6Threads DEF Threads!Next
<1> USE DEF Threads!vars, ThreadsInv
<1>1. Threads!TypeOK' BY DEF Threads!TypeOK
<1>2. ChainOK' BY DEF ChainOK
<1>3. TurnsOK' BY DEF TurnsOK
<1> QED BY <1>1, <1>2, <1>3

(* The types of the exercises' state, for any matrices and lengths.        *)
THEOREM ThreadsTypeCorrect == Threads!Spec => []Threads!TypeOK
<1>1. ThreadsInv => Threads!TypeOK BY DEF ThreadsInv
<1> QED BY <1>1, ThreadsInit, ThreadsNext, PTL DEF Threads!Spec

(* When Task4 or Task6 returns, everything has been printed in its turn:   *)
(* OutputInTurn, for a chain and a list of any length.                     *)
THEOREM OutputIsInTurn == Threads!Spec => []OutputInTurn
<1>1. ThreadsInv => OutputInTurn
  <2> SUFFICES ASSUME ThreadsInv, main = "ended"
               PROVE  /\ exercise = "Task4" => printed = Threads!Countdown
                      /\ exercise = "Task6" => printed = Threads!Growing
    BY DEF OutputInTurn, Threads!OutputInTurn
  <2>1. ASSUME exercise = "Task4" PROVE printed = Threads!Countdown
    <3>1. printed \in Seq(Threads!Chain) /\ Len(printed) = Ten + 1
      BY <2>1 DEF ThreadsInv, Threads!TypeOK, ChainOK
    <3>2. \A k \in 1..Ten + 1 : printed[k] = Ten + 1 - k
      BY <2>1, <3>1 DEF ThreadsInv, ChainOK
    <3> QED BY <3>1, <3>2 DEF Threads!Countdown
  <2>2. ASSUME exercise = "Task6" PROVE printed = Threads!Growing
    <3>1. printed \in Seq(Seq(Threads!Chain)) /\ Len(printed) = Ten
      BY <2>2 DEF ThreadsInv, Threads!TypeOK, TurnsOK
    <3>2. \A m \in 1..Ten : printed[m] = [k \in 1..m |-> k - 1]
      BY <2>2, <3>1 DEF ThreadsInv, TurnsOK
    <3> QED BY <3>1, <3>2 DEF Threads!Growing
  <2> QED BY <2>1, <2>2
<1> QED BY <1>1, ThreadsInit, ThreadsNext, PTL DEF Threads!Spec
-----------------------------------------------------------------------------
(* Task3: a row's cells before the one it is at are done, that one is made *)
(* of the products so far, the cells after it are still zero.              *)
ProductOK ==
  exercise = "Task3" =>
    /\ \A i \in Threads!Rows, j \in Threads!Columns :
         cell[i][j] = IF j < row[i][1]
                      THEN Threads!CellSums(i, j)[Len(MatrixB)]
                      ELSE IF j = row[i][1]
                      THEN Threads!CellSums(i, j)[row[i][2] - 1]
                      ELSE 0
    /\ main = "ended" => \A i \in Threads!Rows : row[i][1] \notin Threads!Columns


LEMMA CellSumsExist ==
  ASSUME NEW i \in Threads!Rows, NEW j \in Threads!Columns
  PROVE  LET s == Threads!CellSums(i, j)
         IN /\ s[0] = 0 /\ \A n \in 0..Len(MatrixB) : s[n] \in Int
            /\ \A k \in 1..Len(MatrixB) :
                 s[k] = s[k - 1] + MatrixA[i][k] * MatrixB[k][j]
<1> DEFINE t == [k \in Threads!Inner |-> MatrixA[i][k] * MatrixB[k][j]]
           N == Len(MatrixB)
<1>1. Threads!Inner = 1..N /\ N \in Nat BY ThreadsFacts DEF Threads!Inner
<1>2. t \in [1..N -> Int]
  <2>1. \A k \in 1..N : MatrixA[i][k] \in Int /\ MatrixB[k][j] \in Int
    BY ThreadsFacts DEF Threads!Rows, Threads!Columns
  <2>2. \A k \in 1..N : MatrixA[i][k] * MatrixB[k][j] \in Int BY <2>1
  <2> QED BY <1>1, <2>2
<1>3. \A k \in 1..N : t[k] = MatrixA[i][k] * MatrixB[k][j] BY <1>1
<1>4. Threads!CellSums(i, j) = PartialSums(t, N)
  BY DEF Threads!CellSums, Threads!PartialSums, PartialSums
<1> HIDE DEF t, N
<1>5. /\ PartialSums(t, N) \in [0..N -> Int] /\ PartialSums(t, N)[0] = 0
      /\ \A n \in 1..N : PartialSums(t, N)[n] = PartialSums(t, N)[n - 1] + t[n]
  BY <1>1, <1>2, PartialSumsExist
<1> QED BY <1>3, <1>4, <1>5 DEF N

LEMMA ProductInit == Threads!Init => ProductOK
<1> SUFFICES ASSUME Threads!Init PROVE ProductOK
  OBVIOUS
<1>1. main # "ended" BY DEF Threads!Init
<1>2. ASSUME NEW i \in Threads!Rows, NEW j \in Threads!Columns
      PROVE  cell[i][j] = 0 /\ row[i] = <<1, 1>> /\ j \in 1..Len(MatrixB[1])
    BY ThreadsFacts DEF Threads!Init, Threads!Columns
<1>3. \A i \in Threads!Rows, j \in Threads!Columns : Threads!CellSums(i, j)[0] = 0
  BY CellSumsExist
<1>4. ASSUME NEW i \in Threads!Rows, NEW j \in Threads!Columns
      PROVE  cell[i][j] = IF j < row[i][1]
                          THEN Threads!CellSums(i, j)[Len(MatrixB)]
                          ELSE IF j = row[i][1]
                          THEN Threads!CellSums(i, j)[row[i][2] - 1]
                          ELSE 0
  <2>1. row[i][1] = 1 /\ row[i][2] - 1 = 0 /\ ~(j < 1) BY <1>2
  <2> QED BY <1>2, <1>3, <2>1
<1> QED BY <1>1, <1>4 DEF ProductOK

(* A += adds the next product to the cell; after the last of them the row  *)
(* is at its next cell, which is zero.                                     *)
LEMMA MultiplyAdds ==
  ASSUME Threads!TypeOK, ProductOK, NEW r \in Threads!Rows, Threads!Multiply(r)
  PROVE  ProductOK'
<1> DEFINE j == row[r][1]
           k == row[r][2]
           N == Len(MatrixB)
           add == MatrixA[r][k] * MatrixB[k][j]
           next == IF k < N THEN <<j, k + 1>> ELSE <<j + 1, 1>>
<1>1. /\ exercise = "Task3" /\ exercise' = exercise /\ main' = main /\ main # "ended"
      /\ j \in Threads!Columns
      /\ cell' = [cell EXCEPT ![r][j] = @ + add]
      /\ row' = [row EXCEPT ![r] = next]
  BY DEF Threads!Multiply, Threads!Alive
<1>2. /\ row \in [Threads!Rows -> (1..Len(MatrixB[1]) + 1) \X (1..N)]
      /\ cell \in [Threads!Rows -> [Threads!Columns -> Int]]
  BY DEF Threads!TypeOK
<1>3. /\ k \in 1..N /\ N \in Nat
      /\ Threads!Columns = 1..Len(MatrixB[1]) /\ Len(MatrixB[1]) \in Nat
  BY <1>2, ThreadsFacts DEF Threads!Columns
<1>4. /\ row'[r] = next /\ \A i \in Threads!Rows \ {r} : row'[i] = row[i]
      /\ cell'[r][j] = cell[r][j] + add
      /\ \A m \in Threads!Columns \ {j} : cell'[r][m] = cell[r][m]
      /\ \A i \in Threads!Rows \ {r} : cell'[i] = cell[i]
  <2> HIDE DEF next, add, j
  <2> QED BY <1>1, <1>2
<1>5. cell[r][j] = Threads!CellSums(r, j)[k - 1]
  BY <1>1, <1>3 DEF ProductOK
<1>6. /\ Threads!CellSums(r, j)[k] = Threads!CellSums(r, j)[k - 1] + add
      /\ \A m \in Threads!Columns : Threads!CellSums(r, m)[0] = 0
  BY <1>1, <1>3, CellSumsExist
<1>7. cell'[r][j] = Threads!CellSums(r, j)[k] BY <1>4, <1>5, <1>6
<1>8. ASSUME NEW m \in Threads!Columns
      PROVE  cell'[r][m] = IF m < row'[r][1]
                           THEN Threads!CellSums(r, m)[N]
                           ELSE IF m = row'[r][1]
                           THEN Threads!CellSums(r, m)[row'[r][2] - 1]
                           ELSE 0
  <2>1. m \in Int /\ j \in Int /\ k \in Int BY <1>1, <1>3
  <2>2. cell[r][m] = IF m < j THEN Threads!CellSums(r, m)[N]
                     ELSE IF m = j THEN Threads!CellSums(r, m)[k - 1] ELSE 0
    BY <1>1 DEF ProductOK
  <2>3. CASE k < N
    <3>1. row'[r][1] = j /\ row'[r][2] - 1 = k BY <1>4, <2>1, <2>3
    <3>2. CASE m = j BY <1>7, <2>1, <3>1, <3>2
    <3>3. CASE m # j BY <1>4, <2>2, <3>1, <3>3
    <3> QED BY <3>2, <3>3
  <2>4. CASE ~(k < N)
    <3>1. k = N /\ row'[r][1] = j + 1 /\ row'[r][2] - 1 = 0
      BY <1>3, <1>4, <2>1, <2>4
    <3>2. CASE m = j BY <1>7, <2>1, <3>1, <3>2
    <3>3. CASE m < j BY <1>4, <2>1, <2>2, <3>1, <3>3
    <3>4. CASE m = j + 1 BY <1>4, <1>6, <2>1, <2>2, <3>1, <3>4
    <3>5. CASE m > j + 1 BY <1>4, <2>1, <2>2, <3>1, <3>5
    <3> QED BY <2>1, <3>2, <3>3, <3>4, <3>5
  <2> QED BY <2>3, <2>4
<1>9. ASSUME NEW i \in Threads!Rows \ {r}, NEW m \in Threads!Columns
      PROVE  cell'[i][m] = IF m < row'[i][1]
                           THEN Threads!CellSums(i, m)[N]
                           ELSE IF m = row'[i][1]
                           THEN Threads!CellSums(i, m)[row'[i][2] - 1]
                           ELSE 0
  BY <1>1, <1>4 DEF ProductOK
<1>10. main' # "ended" BY <1>1
<1> HIDE DEF j, k, add, next
<1> QED BY <1>8, <1>9, <1>10 DEF ProductOK

LEMMA ProductNext ==
  ThreadsInv /\ ProductOK /\ [Threads!Next]_(Threads!vars) => ProductOK'
<1> SUFFICES ASSUME ThreadsInv, ProductOK, Threads!Next \/ UNCHANGED Threads!vars
             PROVE  ProductOK'
  OBVIOUS
<1>1. ASSUME NEW r \in Threads!Rows, Threads!Multiply(r) PROVE ProductOK'
  BY <1>1, MultiplyAdds DEF ThreadsInv
<1>2. CASE Threads!EndFor
  <2>1. /\ \A i \in Threads!Rows : row[i][1] \notin Threads!Columns
        /\ UNCHANGED <<exercise, row, cell>>
    BY <1>2 DEF Threads!EndFor, Threads!matrixVars
  <2> QED BY <2>1 DEF ProductOK
<1>3. CASE Threads!Task4 \/ Threads!Task5 \/ Threads!Task6
  <2>1. exercise # "Task3" /\ exercise' = exercise
    BY <1>3 DEF Threads!Task4, Threads!CreateThread, Threads!Join, Threads!Task5,
       Threads!QueueUserWorkItem, Threads!WaitOne, Threads!EndTask5, Threads!Task6,
       Threads!Enter, Threads!Add, Threads!Wake, Threads!EndTask6, Threads!Lock,
       Threads!PrintList, Threads!Unlock, Threads!Alive, Threads!other6
  <2> QED BY <2>1 DEF ProductOK
<1>4. CASE UNCHANGED Threads!vars BY <1>4 DEF Threads!vars, ProductOK
<1> QED BY <1>1, <1>2, <1>3, <1>4 DEF Threads!Next, Threads!Task3

(* Task3 returns with the product of its matrices, whatever their sizes    *)
(* and in whatever order the rows were worked on: ProductComplete.         *)
THEOREM ProductIsComplete == Threads!Spec => []Threads!ProductComplete
<1>1. ThreadsInv /\ ProductOK => Threads!ProductComplete
  <2> SUFFICES ASSUME ThreadsInv, ProductOK, main = "ended", exercise = "Task3"
               PROVE  cell = Threads!Product
    BY DEF Threads!ProductComplete
  <2>1. /\ row \in [Threads!Rows -> (1..Len(MatrixB[1]) + 1) \X (1..Len(MatrixB))]
        /\ cell \in [Threads!Rows -> [Threads!Columns -> Int]]
    BY DEF ThreadsInv, Threads!TypeOK
  <2>2. ASSUME NEW i \in Threads!Rows, NEW j \in Threads!Columns
        PROVE  cell[i][j] = Threads!CellSums(i, j)[Len(MatrixB)]
    <3>1. row[i][1] \in 1..Len(MatrixB[1]) + 1 /\ row[i][1] \notin Threads!Columns
      BY <2>1 DEF ProductOK
    <3>2. j < row[i][1] BY <3>1, ThreadsFacts DEF Threads!Columns
    <3> QED BY <3>2 DEF ProductOK
  <2> QED BY <2>1, <2>2 DEF Threads!Product
<1> QED BY <1>1, ThreadsInit, ThreadsNext, ProductInit, ProductNext, PTL
        DEF Threads!Spec
-----------------------------------------------------------------------------
Listed == {products[i] : i \in DOMAIN products}

(* What each click has done so far, while no two changes have overlapped:  *)
(* Added clicks are in the list or were removed, what was removed is not.  *)
ClicksOK ==
  \A k \in Shop!Clicks :
    /\ click[k].op = "none" => click[k].pc = "none"
    /\ click[k].op = "Add" =>
         /\ click[k].pc \in {"begin", "change", "subscribe", "update", "done"}
         /\ click[k].pc \in {"subscribe", "update", "done"} =>
              k \in Listed \/ \E r \in Shop!Clicks :
                             /\ click[r].op = "Remove" /\ click[r].item = k
                             /\ click[r].pc \in {"update", "done"}
    /\ click[k].op = "Remove" =>
         /\ click[k].item # 0 => click[k].item \in Shop!Shown
         /\ click[k].pc \in {"begin", "change", "update", "done"}
         /\ click[k].pc \in {"update", "done"} => click[k].item \notin Listed

(* One change at a time, and the index it has found still holds.           *)
ChangeOK ==
  /\ \A j, k \in Shop!Clicks :
       click[j].pc = "change" /\ click[k].pc = "change" => j = k
  /\ \A k \in Shop!Clicks :
       click[k].pc = "change" =>
         IF click[k].op = "Add" THEN click[k].index = Len(products)
         ELSE /\ click[k].index \in DOMAIN products
              /\ products[click[k].index] = click[k].item

(* The list: each product once, and only of clicks that have come so far.  *)
ListOK ==
  /\ \A i, j \in DOMAIN products : products[i] = products[j] => i = j
  /\ \A i \in DOMAIN products : products[i] \in Shop!Shown

(* Of a click, its product, and where a sum is, at all times.              *)
FormedOK ==
  /\ \A k \in Shop!Clicks :
       click[k].op = "Add" => click[k].item = k
  /\ \A s \in Shop!Sums : sum[s].pc = "summing" => sum[s].at # 0

ShopInv == /\ Shop!TypeOK /\ FormedOK
           /\ ~damaged => ClicksOK /\ ChangeOK /\ ListOK

ClickType == [op : {"none", "Add", "Remove"}, item : 0..MaxClicks,
              pc : {"none", "begin", "change", "subscribe", "update", "done",
                    "faulted"},
              index : Nat]
SumType(v) == [pc : {"none", "summing", "writing"}, at : Nat, acc : 0..MaxTotal,
               version : 0..v]
-----------------------------------------------------------------------------
LEMMA ShopFacts ==
  /\ Entered \in [1..MaxClicks -> Nat] /\ Prices \subseteq Nat /\ MaxTotal \in Nat
  /\ MaxClicks \in Nat /\ MaxEdits \in Nat /\ MaxSums \in Nat
BY ExercisesAssumption DEF Shop!ShopAssumption

(* What is found first has a place in the list.                            *)
LEMMA ShopMin ==
  ASSUME NEW S, S \subseteq Nat, S # {}
  PROVE  Shop!Min(S) \in S
BY MinIsLeast DEF Min, Shop!Min

(* Insertion at the end.                                                   *)
LEMMA InsertLast ==
  ASSUME NEW S, NEW seq \in Seq(S), NEW e \in S, NEW n, n = Len(seq)
  PROVE  Shop!InsertAt(seq, n + 1, e) = Append(seq, e)
<1>1. n \in Nat /\ SubSeq(seq, 1, n) = seq BY SubSeqFull
<1>2. SubSeq(seq, n + 1, Len(seq)) = << >> BY <1>1, SubSeqEmpty
<1>3. n + 1 - 1 = n BY <1>1
<1>4. Shop!InsertAt(seq, n + 1, e) = (seq \o <<e>>) \o << >>
  <2>1. Shop!InsertAt(seq, n + 1, e)
          = (SubSeq(seq, 1, n + 1 - 1) \o <<e>>) \o SubSeq(seq, n + 1, Len(seq))
    BY DEF Shop!InsertAt
  <2>2. SubSeq(seq, 1, n + 1 - 1) = seq BY <1>1, <1>3, Zenon
  <2> QED BY <1>2, <2>1, <2>2, Zenon
<1>5. Append(seq, e) \in Seq(S) /\ Append(seq, e) = seq \o <<e>>
  BY AppendProperties, AppendIsConcat
<1> QED BY <1>4, <1>5, ConcatEmptySeq

(* An item taken out leaves the others in their order.                     *)
LEMMA TakenOut ==
  ASSUME NEW S, NEW seq \in Seq(S), NEW k \in 1..Len(seq)
  PROVE  /\ Shop!RemoveAt(seq, k) \in Seq(S)
         /\ Len(Shop!RemoveAt(seq, k)) = Len(seq) - 1
         /\ \A i \in 1..Len(seq) - 1 :
              Shop!RemoveAt(seq, k)[i] = IF i < k THEN seq[i] ELSE seq[i + 1]
<1> DEFINE a == SubSeq(seq, 1, k - 1)
           b == SubSeq(seq, k + 1, Len(seq))
<1>1. PICK n \in Nat : n = Len(seq) /\ k \in 1..n OBVIOUS
<1>2. /\ a \in Seq(S) /\ Len(a) = k - 1 /\ \A i \in 1..k - 1 : a[i] = seq[i]
  BY <1>1, SubSeqProperties
<1>3. /\ b \in Seq(S) /\ Len(b) = IF k + 1 <= n THEN n - (k + 1) + 1 ELSE 0
      /\ \A i \in 1..n - (k + 1) + 1 : b[i] = seq[k + 1 + i - 1]
  <2>1. \A i \in k + 1..n : seq[i] \in S BY <1>1
  <2> QED BY <1>1, <2>1, SubSeqProperties
<1>4. Len(b) = n - k /\ \A i \in 1..n - k : b[i] = seq[k + i]
  <2>1. Len(b) = n - k BY <1>1, <1>3
  <2>2. ASSUME NEW i \in 1..n - k PROVE b[i] = seq[k + i]
    <3>1. i \in 1..n - (k + 1) + 1 /\ k + 1 + i - 1 = k + i BY <1>1
    <3> QED BY <1>3, <3>1
  <2> QED BY <2>1, <2>2
<1>5. Shop!RemoveAt(seq, k) = a \o b BY DEF Shop!RemoveAt
<1> HIDE DEF a, b
<1>6. /\ a \o b \in Seq(S) /\ Len(a \o b) = n - 1
      /\ \A i \in 1..n - 1 :
           (a \o b)[i] = IF i <= Len(a) THEN a[i] ELSE b[i - Len(a)]
  <2>1. /\ a \o b \in Seq(S) /\ Len(a \o b) = Len(a) + Len(b)
        /\ \A i \in 1..Len(a) + Len(b) :
             (a \o b)[i] = IF i <= Len(a) THEN a[i] ELSE b[i - Len(a)]
    BY <1>2, <1>3, ConcatProperties
  <2>2. Len(a) + Len(b) = n - 1 BY <1>1, <1>2, <1>4
  <2> QED BY <2>1, <2>2
<1>7. ASSUME NEW i \in 1..n - 1
      PROVE  (a \o b)[i] = IF i < k THEN seq[i] ELSE seq[i + 1]
  <2>1. CASE i < k
    <3>1. i \in 1..k - 1 /\ i <= Len(a) BY <1>1, <1>2, <2>1
    <3> QED BY <1>2, <1>6, <2>1, <3>1
  <2>2. CASE ~(i < k)
    <3>1. /\ ~(i <= Len(a)) /\ i - Len(a) \in 1..n - k /\ k + (i - Len(a)) = i + 1
      BY <1>1, <1>2, <2>2
    <3> QED BY <1>4, <1>6, <2>2, <3>1
  <2> QED BY <2>1, <2>2
<1> QED BY <1>1, <1>5, <1>6, <1>7

(* A click has found the index of its change.                              *)
LEMMA FoundValues ==
  ASSUME click \in [Shop!Clicks -> ClickType], NEW k \in Shop!Clicks, NEW n \in Nat,
         click' = [click EXCEPT ![k].pc = "change", ![k].index = n]
  PROVE  /\ click' \in [Shop!Clicks -> ClickType]
         /\ click'[k].pc = "change" /\ click'[k].op = click[k].op
         /\ click'[k].item = click[k].item /\ click'[k].index = n
         /\ \A j \in Shop!Clicks \ {k} : click'[j] = click[j]
<1> DEFINE new == [click[k] EXCEPT !.pc = "change", !.index = n]
<1>1. /\ new \in ClickType /\ new.pc = "change" /\ new.op = click[k].op
      /\ new.item = click[k].item /\ new.index = n
  <2>1. click[k] \in ClickType OBVIOUS
  <2> QED BY <2>1 DEF ClickType
<1>2. click' = [click EXCEPT ![k] = new] OBVIOUS
<1> HIDE DEF new
<1> QED BY <1>1, <1>2

(* A click goes on; what it is about stays.                                *)
LEMMA GotoValues ==
  ASSUME click \in [Shop!Clicks -> ClickType], NEW k \in Shop!Clicks,
         NEW pc \in {"change", "subscribe", "update", "done", "faulted"},
         Shop!Goto(k, pc)
  PROVE  /\ click' \in [Shop!Clicks -> ClickType]
         /\ click'[k].pc = pc /\ click'[k].op = click[k].op
         /\ click'[k].item = click[k].item /\ click'[k].index = click[k].index
         /\ \A j \in Shop!Clicks \ {k} : click'[j] = click[j]
<1>1. click' = [click EXCEPT ![k].pc = pc] BY DEF Shop!Goto
<1>2. click[k] \in ClickType BY <1>1
<1>3. [click[k] EXCEPT !.pc = pc] \in ClickType BY <1>2 DEF ClickType
<1>4. /\ click'[k] = [click[k] EXCEPT !.pc = pc]
      /\ \A j \in Shop!Clicks \ {k} : click'[j] = click[j]
  BY <1>1
<1>5. click' \in [Shop!Clicks -> ClickType] BY <1>1, <1>3
<1> QED BY <1>2, <1>4, <1>5 DEF ClickType

LEMMA ShopTypes ==
  /\ Shop!TypeOK <=>
       /\ window \in {"up", "crashed"} /\ price \in [Shop!Clicks -> Nat]
       /\ edited \in 0..MaxClicks /\ edits \in 0..MaxEdits
       /\ products \in Seq(Shop!Clicks) /\ version \in Nat
       /\ subscribed \subseteq Shop!Clicks /\ click \in [Shop!Clicks -> ClickType]
       /\ delayed \in Nat /\ sum \in [Shop!Sums -> SumType(version)]
       /\ totalPrice \in 0..MaxTotal /\ damaged \in BOOLEAN /\ overlap \in BOOLEAN
BY DEF Shop!TypeOK, ClickType, SumType

(* At the start, and after the window has crashed.                         *)
Fresh ==
  /\ price = [k \in Shop!Clicks |-> 0] /\ edits = 0 /\ edited = 0
  /\ products = << >> /\ version = 0 /\ subscribed = {}
  /\ click = [k \in Shop!Clicks |-> Shop!NoClick]
  /\ delayed = 0 /\ sum = [s \in Shop!Sums |-> Shop!NoSum]
  /\ totalPrice = 0 /\ damaged = FALSE /\ overlap = FALSE /\ window \in {"up", "crashed"}

LEMMA FreshShop == Fresh => ShopInv
<1> SUFFICES ASSUME Fresh PROVE ShopInv OBVIOUS
<1> USE DEF Fresh
<1>1. Shop!NoClick \in ClickType /\ Shop!NoSum \in SumType(0)
  BY ShopFacts DEF Shop!NoClick, Shop!NoSum, ClickType, SumType
<1>2. Shop!TypeOK
  <2>1. products \in Seq(Shop!Clicks) BY EmptySeq
  <2>2. 0 \in 0..MaxClicks /\ 0 \in 0..MaxEdits /\ 0 \in 0..MaxTotal BY ShopFacts
  <2>3. damaged \in BOOLEAN /\ overlap \in BOOLEAN OBVIOUS
  <2> QED BY <1>1, <2>1, <2>2, <2>3, ShopTypes
<1>3. FormedOK BY DEF FormedOK, Shop!NoClick, Shop!NoSum
<1>4. ClicksOK /\ ChangeOK /\ ListOK
  <2>1. DOMAIN products = {} OBVIOUS
  <2> QED BY <2>1 DEF ClicksOK, ChangeOK, ListOK, Shop!NoClick
<1> QED BY <1>2, <1>3, <1>4 DEF ShopInv

LEMMA ShopInit == Shop!Init => ShopInv
BY FreshShop DEF Shop!Init, Fresh

(* A step that leaves clicks and list as they are.                         *)
LEMMA ListUntouched ==
  ASSUME ShopInv, UNCHANGED <<click, products, damaged>>
  PROVE  ~damaged' => (ClicksOK /\ ChangeOK /\ ListOK)'
<1> SUFFICES ASSUME ~damaged' PROVE (ClicksOK /\ ChangeOK /\ ListOK)'
  OBVIOUS
<1>1. ClicksOK /\ ChangeOK /\ ListOK BY DEF ShopInv
<1>2. ClicksOK' BY <1>1 DEF ClicksOK, Listed, Shop!Shown
<1>3. ChangeOK' BY <1>1 DEF ChangeOK
<1>4. ListOK' BY <1>1 DEF ListOK, Shop!Shown
<1> QED BY <1>2, <1>3, <1>4

LEMMA StartTaskOK ==
  ASSUME ShopInv, NEW k \in Shop!Clicks, NEW op \in {"Add", "Remove"}, NEW p,
         op = "Add" => p = k, op = "Remove" => p \in Shop!Shown \cup {0},
         Shop!StartTask(k, op, p), price' \in [Shop!Clicks -> Nat]
  PROVE  ShopInv'
<1> DEFINE new == [op |-> op, item |-> p, pc |-> "begin", index |-> 0]
<1>1. /\ click[k] = Shop!NoClick /\ click' = [click EXCEPT ![k] = new]
      /\ UNCHANGED <<window, edited, edits, products, version, damaged, delayed, sum,
                     totalPrice, subscribed, overlap>>
  BY DEF Shop!StartTask, Shop!listVars, Shop!sumVars
<1>2. p \in 0..MaxClicks BY ShopFacts DEF Shop!Shown, Shop!Clicks
<1>3. new \in ClickType BY <1>2 DEF ClickType
<1>4. /\ new.op = op /\ new.item = p /\ new.pc = "begin" /\ new.index = 0
      /\ click[k].op = "none" /\ click[k].pc = "none"
  BY <1>1 DEF Shop!NoClick
<1> HIDE DEF new
<1>5. click \in [Shop!Clicks -> ClickType] BY ShopTypes DEF ShopInv
<1>6. /\ click'[k] = new /\ \A j \in Shop!Clicks \ {k} : click'[j] = click[j]
      /\ click' \in [Shop!Clicks -> ClickType]
  BY <1>1, <1>3, <1>5
<1>7. Shop!TypeOK' BY <1>1, <1>6, ShopTypes DEF ShopInv, Shop!TypeOK, ClickType
<1>8. FormedOK' BY <1>1, <1>4, <1>6 DEF ShopInv, FormedOK
<1>9. ASSUME ~damaged' PROVE (ClicksOK /\ ChangeOK /\ ListOK)'
  <2>1. ClicksOK /\ ChangeOK /\ ListOK BY <1>1, <1>9 DEF ShopInv
  <2>2. Shop!Shown' = Shop!Shown BY <1>4, <1>6 DEF Shop!Shown
  <2>3. Listed' = Listed BY <1>1 DEF Listed
  <2>4. ClicksOK'
    <3> SUFFICES ASSUME NEW j \in Shop!Clicks PROVE ClicksOK!(j)'
      BY DEF ClicksOK
    <3>1. ASSUME j # k, click[j].op = "Add", click[j].pc \in {"subscribe", "update", "done"}
          PROVE  j \in Listed' \/ \E r \in Shop!Clicks :
                   /\ click'[r].op = "Remove" /\ click'[r].item = j
                   /\ click'[r].pc \in {"update", "done"}
      <4>1. CASE j \in Listed BY <2>3, <4>1
      <4>2. CASE \E r \in Shop!Clicks :
                   /\ click[r].op = "Remove" /\ click[r].item = j
                   /\ click[r].pc \in {"update", "done"}
        <5>1. PICK r \in Shop!Clicks : /\ click[r].op = "Remove" /\ click[r].item = j
                                       /\ click[r].pc \in {"update", "done"}
          BY <4>2
        <5> QED BY <1>4, <1>6, <5>1
      <4> QED BY <2>1, <3>1, <4>1, <4>2 DEF ClicksOK
    <3>2. CASE j = k BY <1>4, <1>6, <2>2, <3>2
    <3>3. CASE j # k
      <4>1. click'[j] = click[j] BY <1>6, <3>3
      <4> QED BY <2>1, <2>2, <2>3, <3>1, <3>3, <4>1 DEF ClicksOK
    <3> QED BY <3>2, <3>3
  <2>5. ChangeOK' BY <1>1, <1>4, <1>6, <2>1 DEF ChangeOK
  <2>6. ListOK' BY <1>1, <2>1, <2>2 DEF ListOK
  <2> QED BY <2>4, <2>5, <2>6
<1> QED BY <1>7, <1>8, <1>9 DEF ShopInv

LEMMA WindowOK == ShopInv /\ Shop!Window => ShopInv'
<1> SUFFICES ASSUME ShopInv, Shop!Window PROVE ShopInv'
  OBVIOUS
<1>0. /\ window \in {"up", "crashed"} /\ price \in [Shop!Clicks -> Nat]
      /\ edited \in 0..MaxClicks /\ edits \in 0..MaxEdits
      /\ products \in Seq(Shop!Clicks) /\ delayed \in Nat
  BY ShopTypes DEF ShopInv
<1>1. ASSUME NEW k \in Shop!Clicks, Shop!ButtonClick(k) PROVE ShopInv'
  <2>1. Shop!StartTask(k, "Add", k) /\ price' = [price EXCEPT ![k] = Entered[k]]
    BY <1>1 DEF Shop!ButtonClick
  <2>2. price' \in [Shop!Clicks -> Nat] BY <1>0, <2>1, ShopFacts DEF Shop!Clicks
  <2> QED BY <2>1, <2>2, StartTaskOK
<1>2. ASSUME NEW k \in Shop!Clicks, Shop!RemoveBtnOnClick(k) PROVE ShopInv'
  <2>1. PICK p \in Shop!Shown \cup {0} : Shop!StartTask(k, "Remove", p)
    BY <1>2 DEF Shop!RemoveBtnOnClick
  <2>2. price' \in [Shop!Clicks -> Nat] BY <1>0, <1>2 DEF Shop!RemoveBtnOnClick
  <2> QED BY <2>1, <2>2, StartTaskOK
<1>3. CASE Shop!ButtonClickNoPrice
  <2>1. Fresh' BY <1>3 DEF Shop!ButtonClickNoPrice, Fresh
  <2>2. Fresh' => ShopInv' BY FreshShop, PTL
  <2> QED BY <2>1, <2>2
<1>4. CASE Shop!RaisePropertyChanged
  <2> USE <1>4 DEF Shop!RaisePropertyChanged
  <2>1. UNCHANGED <<window, price, edits, products, version, damaged, sum, totalPrice,
                    subscribed, click, overlap>>
    BY DEF Shop!listVars
  <2>2. delayed' \in Nat /\ edited' \in 0..MaxClicks BY <1>0, ShopFacts
  <2>3. Shop!TypeOK' BY <2>1, <2>2 DEF ShopInv, Shop!TypeOK
  <2>4. FormedOK' BY <2>1 DEF ShopInv, FormedOK
  <2> QED BY <2>1, <2>3, <2>4, ListUntouched DEF ShopInv
<1>5. ASSUME NEW p \in Shop!Clicks, Shop!SetPrice(p) PROVE ShopInv'
  <2>1. PICK x \in Prices : price' = [price EXCEPT ![p] = x]
    BY <1>5 DEF Shop!SetPrice
  <2>2. /\ edited' = p /\ edits' = edits + 1 /\ edits < MaxEdits
        /\ UNCHANGED <<window, products, version, damaged, delayed, sum, totalPrice,
                       subscribed, click, overlap>>
    BY <1>5 DEF Shop!SetPrice, Shop!listVars, Shop!sumVars
  <2>3. price' \in [Shop!Clicks -> Nat] BY <1>0, <2>1, ShopFacts
  <2>4. edited' \in 0..MaxClicks /\ edits' \in 0..MaxEdits
    BY <1>0, <2>2, ShopFacts DEF Shop!Clicks
  <2>5. Shop!TypeOK' BY <2>2, <2>3, <2>4 DEF ShopInv, Shop!TypeOK
  <2>6. FormedOK' BY <2>2 DEF ShopInv, FormedOK
  <2> QED BY <2>2, <2>5, <2>6, ListUntouched DEF ShopInv
<1> QED BY <1>1, <1>2, <1>3, <1>4, <1>5 DEF Shop!Window

(* The delayed sums touch neither the clicks nor the list.                 *)
LEMMA SumsOK ==
  ASSUME ShopInv, NEW s \in Shop!Sums,
         \/ Shop!BeginSum(s) \/ Shop!AddNext(s) \/ Shop!AddTorn(s)
         \/ Shop!SetTotalPrice(s)
  PROVE  ShopInv'
<1>0. /\ price \in [Shop!Clicks -> Nat] /\ products \in Seq(Shop!Clicks)
      /\ version \in Nat /\ delayed \in Nat /\ sum \in [Shop!Sums -> SumType(version)]
      /\ sum[s] \in SumType(version) /\ totalPrice \in 0..MaxTotal /\ overlap \in BOOLEAN
  BY ShopTypes DEF ShopInv
<1>1. Shop!NoSum \in SumType(version) /\ Shop!NoSum.pc = "none"
  BY <1>0, ShopFacts DEF Shop!NoSum, SumType
<1>2. SUFFICES ASSUME UNCHANGED <<window, price, edited, edits, products, version, damaged,
                                  subscribed, click>>,
                      delayed' \in Nat, totalPrice' \in 0..MaxTotal, overlap' \in BOOLEAN,
                      NEW x \in SumType(version), x.pc = "summing" => x.at # 0,
                      sum' = [sum EXCEPT ![s] = x]
               PROVE  ShopInv'
  <2>1. CASE Shop!BeginSum(s)
    <3> DEFINE x == [pc |-> "summing", at |-> 1, acc |-> 0, version |-> version]
    <3>1. x \in SumType(version) /\ x.at # 0 BY <1>0, ShopFacts DEF SumType
    <3>2. /\ delayed > 0 /\ delayed' = delayed - 1 /\ sum' = [sum EXCEPT ![s] = x]
          /\ overlap' = (overlap \/ \E t \in Shop!Sums : sum[t] # Shop!NoSum)
          /\ UNCHANGED <<window, price, edited, edits, products, version, damaged,
                         subscribed, click, totalPrice>>
      BY <2>1 DEF Shop!BeginSum, Shop!uiVars, Shop!listVars
    <3>3. overlap' \in BOOLEAN BY <3>2
    <3>4. delayed' \in Nat BY <1>0, <3>2
    <3> HIDE DEF x
    <3> QED BY <1>0, <1>2, <3>1, <3>2, <3>3, <3>4
  <2>2. CASE Shop!AddNext(s)
    <3> DEFINE y == sum[s]
               acc == y.acc + price[products[y.at]]
               x == IF y.version # version THEN Shop!NoSum
                    ELSE IF y.at > Len(products) THEN [y EXCEPT !.pc = "writing"]
                    ELSE IF acc > MaxTotal THEN Shop!NoSum
                    ELSE [y EXCEPT !.acc = acc, !.at = @ + 1]
    <3>1. /\ sum' = [sum EXCEPT ![s] = x] /\ y.pc = "summing"
          /\ UNCHANGED <<window, price, edited, edits, products, version, damaged,
                         subscribed, click, delayed, totalPrice, overlap>>
      BY <2>2 DEF Shop!AddNext, Shop!uiVars, Shop!listVars
    <3>2. y.at # 0 /\ y.at \in Nat /\ y.acc \in Nat
      <4>1. sum[s].at \in Nat /\ sum[s].acc \in Nat BY <1>0, ShopFacts DEF SumType
      <4>2. sum[s].at # 0 BY <3>1 DEF ShopInv, FormedOK
      <4> QED BY <4>1, <4>2
    <3>3. ASSUME ~(y.at > Len(products)) PROVE acc \in Nat
      <4>1. y.at \in 1..Len(products) BY <1>0, <3>2, <3>3
      <4>2. products[y.at] \in Shop!Clicks BY <1>0, <4>1
      <4>3. price[products[y.at]] \in Nat BY <1>0, <4>2
      <4> QED BY <3>2, <4>3
    <3>4. x \in SumType(version) /\ (x.pc = "summing" => x.at # 0)
      <4> HIDE DEF acc
      <4>1. CASE x = Shop!NoSum BY <1>1, <4>1
      <4>2. CASE x = [y EXCEPT !.pc = "writing"]
        <5>1. [y EXCEPT !.pc = "writing"] \in SumType(version) BY <1>0 DEF SumType
        <5>2. [y EXCEPT !.pc = "writing"].pc = "writing" BY <1>0 DEF SumType
        <5> HIDE DEF x, y
        <5> QED BY <4>2, <5>1, <5>2
      <4>3. CASE x # Shop!NoSum /\ x # [y EXCEPT !.pc = "writing"]
        <5>1. x = [y EXCEPT !.acc = acc, !.at = @ + 1] /\ acc \in 0..MaxTotal
          BY <3>3, <4>3, ShopFacts
        <5> DEFINE z == [y EXCEPT !.acc = acc, !.at = @ + 1]
        <5>2. z \in SumType(version) /\ z.at = y.at + 1
          <6>1. y \in SumType(version) BY <1>0
          <6>2. y.at + 1 \in Nat BY <3>2
          <6> HIDE DEF x, y
          <6> QED BY <5>1, <6>1, <6>2 DEF SumType
        <5> HIDE DEF x, y, z
        <5>3. x = z BY <5>1 DEF z
        <5> QED BY <3>2, <5>2, <5>3
      <4> QED BY <4>1, <4>2, <4>3
    <3> HIDE DEF x
    <3> QED BY <1>0, <1>2, <3>1, <3>4
  <2>3. CASE Shop!SetTotalPrice(s)
    <3>1. /\ totalPrice' = sum[s].acc /\ sum' = [sum EXCEPT ![s] = Shop!NoSum]
          /\ UNCHANGED <<window, price, edited, edits, products, version, damaged,
                         subscribed, click, delayed, overlap>>
      BY <2>3 DEF Shop!SetTotalPrice, Shop!uiVars, Shop!listVars
    <3>2. totalPrice' \in 0..MaxTotal BY <1>0, <3>1 DEF SumType
    <3> QED BY <1>0, <1>1, <1>2, <3>1, <3>2
  <2>4. CASE Shop!AddTorn(s)
    <3>1. /\ UNCHANGED <<window, price, edited, edits, products, version, damaged,
                         subscribed, click, delayed, totalPrice, overlap>>
          /\ \/ sum' = [sum EXCEPT ![s] = Shop!NoSum]
             \/ \E acc \in 0..MaxTotal :
                  sum' = [sum EXCEPT ![s].pc = "writing", ![s].acc = acc]
      BY <2>4 DEF Shop!AddTorn, Shop!uiVars, Shop!listVars
    <3>2. CASE sum' = [sum EXCEPT ![s] = Shop!NoSum]
      BY <1>0, <1>1, <1>2, <3>1, <3>2
    <3>3. ASSUME NEW acc \in 0..MaxTotal,
                 sum' = [sum EXCEPT ![s].pc = "writing", ![s].acc = acc]
          PROVE  ShopInv'
      <4> DEFINE x == [sum[s] EXCEPT !.pc = "writing", !.acc = acc]
      <4>1. x \in SumType(version) /\ x.pc = "writing" BY <1>0 DEF SumType
      <4>2. sum' = [sum EXCEPT ![s] = x] BY <3>3
      <4> HIDE DEF x
      <4> QED BY <1>0, <1>2, <3>1, <4>1, <4>2
    <3> QED BY <3>1, <3>2, <3>3
  <2> QED BY <2>1, <2>2, <2>3, <2>4
<1>3. sum' \in [Shop!Sums -> SumType(version)] BY <1>0, <1>2
<1>4. Shop!TypeOK' BY <1>2, <1>3 DEF ShopInv, Shop!TypeOK, SumType
<1>5. FormedOK' BY <1>0, <1>2 DEF ShopInv, FormedOK
<1> QED BY <1>2, <1>4, <1>5, ListUntouched DEF ShopInv

(* Click k goes on, about the same product, and what it does to the list   *)
(* is what it adds or removes.                                             *)
Moves(k) ==
  /\ click[k].op # "none"
  /\ click'[k].op = click[k].op /\ click'[k].item = click[k].item
  /\ \A j \in Shop!Clicks \ {k} : click'[j] = click[j]
  /\ Shop!Shown \subseteq Shop!Shown'
  /\ click[k].op = "Add" =>
       /\ click'[k].pc \in {"change", "subscribe", "update", "done"}
       /\ click[k].pc \in {"subscribe", "update", "done"}
            \/ click'[k].pc = "change" \/ k \in Listed'
  /\ click[k].op = "Remove" => click'[k].pc \in {"change", "update", "done"}
  /\ click[k].pc \in {"update", "done"} => click'[k].pc \in {"update", "done"}
  /\ \A p \in Shop!Clicks :
       p \in Listed => p \in Listed' \/ /\ click[k].op = "Remove" /\ click[k].item = p
                                        /\ click'[k].pc \in {"update", "done"}
  /\ \A r \in Shop!Clicks :
       click'[r].op = "Remove" /\ click'[r].pc \in {"update", "done"}
         => click'[r].item \notin Listed'

(* Then what the others have done stands.                                  *)
LEMMA ClicksMove ==
  ASSUME ClicksOK, NEW k \in Shop!Clicks, Moves(k)
  PROVE  ClicksOK'
<1> USE DEF Moves
<1> SUFFICES ASSUME NEW j \in Shop!Clicks PROVE ClicksOK!(j)'
  BY DEF ClicksOK
<1>1. \A r \in Shop!Clicks :
        /\ click'[r].op = click[r].op /\ click'[r].item = click[r].item
        /\ click[r].pc \in {"update", "done"} => click'[r].pc \in {"update", "done"}
  OBVIOUS
<1>2. ASSUME click[j].op = "Add", click[j].pc \in {"subscribe", "update", "done"}
      PROVE  j \in Listed' \/ \E r \in Shop!Clicks :
               /\ click'[r].op = "Remove" /\ click'[r].item = j
               /\ click'[r].pc \in {"update", "done"}
  <2>1. CASE j \in Listed BY <1>1, <2>1
  <2>2. ASSUME NEW r \in Shop!Clicks, click[r].op = "Remove", click[r].item = j,
               click[r].pc \in {"update", "done"}
        PROVE  \E q \in Shop!Clicks : /\ click'[q].op = "Remove" /\ click'[q].item = j
                                      /\ click'[q].pc \in {"update", "done"}
    BY <1>1, <2>2
  <2> QED BY <1>2, <2>1, <2>2 DEF ClicksOK
<1>3. CASE j = k
  <2>1. ClicksOK!(k) BY DEF ClicksOK
  <2>2. CASE click[k].op = "Add"
    <3>1. CASE click[k].pc \in {"subscribe", "update", "done"}
      <4>1. k \in Listed' \/ \E r \in Shop!Clicks :
               /\ click'[r].op = "Remove" /\ click'[r].item = k
               /\ click'[r].pc \in {"update", "done"}
        BY <1>2, <1>3, <2>2, <3>1
      <4> QED BY <1>3, <2>2, <4>1
    <3>2. CASE click[k].pc \notin {"subscribe", "update", "done"}
      BY <1>3, <2>2, <3>2
    <3> QED BY <3>1, <3>2
  <2>3. CASE click[k].op = "Remove"
    <3>1. click'[k].item # 0 => click'[k].item \in Shop!Shown' BY <2>1, <2>3
    <3> QED BY <1>3, <2>3, <3>1
  <2>4. CASE click[k].op \notin {"Add", "Remove"}
    BY <1>3, <2>4
  <2> QED BY <2>2, <2>3, <2>4
<1>4. CASE j # k
  <2>1. click'[j] = click[j] BY <1>4
  <2>2. ClicksOK!(j) BY DEF ClicksOK
  <2>3. CASE click[j].op = "Add"
    BY <1>2, <2>1, <2>2, <2>3
  <2>4. CASE click[j].op = "Remove"
    <3>1. click'[j].item # 0 => click'[j].item \in Shop!Shown' BY <2>1, <2>2, <2>4
    <3> QED BY <2>1, <2>2, <2>4, <3>1
  <2>5. CASE click[j].op \notin {"Add", "Remove"} BY <2>1, <2>2, <2>5
  <2> QED BY <2>3, <2>4, <2>5
<1> QED BY <1>3, <1>4

(* Steps of click k that leave the list alone and begin no change.         *)
LEMMA GotoOK ==
  ASSUME ShopInv, NEW k \in Shop!Clicks, NEW pc \in {"update", "done"}, Shop!Goto(k, pc),
         click[k].pc \in {"begin", "subscribe", "update"},
         click[k].op = "Add" => click[k].pc # "begin",
         click[k].op = "Remove" /\ click[k].pc = "begin" => click[k].item \notin Listed,
         click[k].pc \in {"begin", "subscribe"} => pc = "update",
         UNCHANGED <<window, price, edited, edits, products, version, damaged, sum,
                     totalPrice, overlap>>,
         delayed' \in Nat, subscribed' \subseteq Shop!Clicks
  PROVE  ShopInv'
<1>1. /\ click \in [Shop!Clicks -> ClickType] /\ click' \in [Shop!Clicks -> ClickType]
      /\ click'[k].pc = pc /\ click'[k].op = click[k].op
      /\ click'[k].item = click[k].item /\ click'[k].index = click[k].index
      /\ \A j \in Shop!Clicks \ {k} : click'[j] = click[j]
  <2>1. click \in [Shop!Clicks -> ClickType] BY ShopTypes DEF ShopInv
  <2> QED BY <2>1, GotoValues
<1>2. Shop!TypeOK' BY <1>1, ShopTypes DEF ShopInv, Shop!TypeOK, ClickType
<1>3. FormedOK' BY <1>1 DEF ShopInv, FormedOK
<1>4. ASSUME ~damaged' PROVE (ClicksOK /\ ChangeOK /\ ListOK)'
  <2>1. ClicksOK /\ ChangeOK /\ ListOK BY <1>4 DEF ShopInv
  <2>2. Listed' = Listed BY DEF Listed
  <2>3. Shop!Shown \subseteq Shop!Shown' BY <1>1 DEF Shop!Shown
  <2>4. click[k].op \in {"Add", "Remove"} BY <1>1, <2>1 DEF ClicksOK, ClickType
  <2>5. \A r \in Shop!Clicks :
          click'[r].op = "Remove" /\ click'[r].pc \in {"update", "done"}
            => click'[r].item \notin Listed'
    <3> TAKE r \in Shop!Clicks
    <3>1. CASE r = k
      <4> SUFFICES ASSUME click[k].op = "Remove" PROVE click[k].item \notin Listed
        BY <1>1, <2>2, <3>1
      <4>1. ClicksOK!(k) BY <2>1 DEF ClicksOK
      <4> QED BY <4>1
    <3>2. CASE r # k BY <1>1, <2>1, <2>2, <3>2 DEF ClicksOK
    <3> QED BY <3>1, <3>2
  <2>6. ClicksOK'
    <3>1. Moves(k) BY <1>1, <2>1, <2>2, <2>3, <2>4, <2>5 DEF Moves
    <3> QED BY <2>1, <3>1, ClicksMove
  <2>7. ChangeOK' BY <1>1, <2>1 DEF ChangeOK
  <2>8. ListOK' BY <2>1, <2>3 DEF ListOK
  <2> QED BY <2>6, <2>7, <2>8
<1> QED BY <1>2, <1>3, <1>4 DEF ShopInv

(* A click that has to do with the list: the types.                        *)
LEMMA ListTyped ==
  ASSUME ShopInv, NEW k \in Shop!Clicks,
         click' \in [Shop!Clicks -> ClickType],
         click'[k].op = click[k].op, click'[k].item = click[k].item,
         \A j \in Shop!Clicks \ {k} : click'[j] = click[j],
         products' \in Seq(Shop!Clicks), version' \in Nat, version <= version',
         damaged' \in BOOLEAN,
         UNCHANGED <<window, price, edited, edits, delayed, sum, totalPrice,
                     subscribed, overlap>>
  PROVE  Shop!TypeOK' /\ FormedOK'
<1>1. version \in Nat /\ sum \in [Shop!Sums -> SumType(version)]
  BY ShopTypes DEF ShopInv
<1>2. SumType(version) \subseteq SumType(version')
  <2>1. 0..version \subseteq 0..version' BY <1>1
  <2> QED BY <2>1 DEF SumType
<1>3. sum' \in [Shop!Sums -> SumType(version')] BY <1>1, <1>2
<1>4. Shop!TypeOK' BY <1>3, ShopTypes
  DEF ShopInv, Shop!TypeOK, ClickType, SumType
<1>5. FormedOK' BY DEF ShopInv, FormedOK
<1> QED BY <1>4, <1>5

(* One that damages the list, or finds it so.                              *)
LEMMA DamagedOK ==
  ASSUME ShopInv, NEW k \in Shop!Clicks,
         click' \in [Shop!Clicks -> ClickType],
         click'[k].op = click[k].op, click'[k].item = click[k].item,
         \A j \in Shop!Clicks \ {k} : click'[j] = click[j],
         Shop!Overlaps \/ (damaged /\ UNCHANGED <<products, version, damaged>>),
         UNCHANGED <<window, price, edited, edits, delayed, sum, totalPrice,
                     subscribed, overlap>>
  PROVE  ShopInv'
<1>1. products \in Seq(Shop!Clicks) /\ version \in Nat
  BY ShopTypes DEF ShopInv
<1>2. products' \in Seq(Shop!Clicks)
  <2>1. << >> \in Seq(Shop!Clicks) BY EmptySeq
  <2> QED BY <1>1, <2>1 DEF Shop!Overlaps
<1>3. version' = version /\ damaged' = TRUE
  <2>1. damaged \in BOOLEAN BY ShopTypes DEF ShopInv
  <2> QED BY <2>1 DEF Shop!Overlaps
<1>4. version' \in Nat /\ version <= version' BY <1>1, <1>3
<1>5. Shop!TypeOK' /\ FormedOK' BY <1>2, <1>3, <1>4, ListTyped
<1> QED BY <1>3, <1>5 DEF ShopInv

(* A click that has found the index of its change, the only one.           *)
LEMMA BeginChange ==
  ASSUME ShopInv, NEW k \in Shop!Clicks, NEW n \in Nat,
         click[k].op \in {"Add", "Remove"}, click[k].pc = "begin",
         click' = [click EXCEPT ![k].pc = "change", ![k].index = n],
         click[k].op = "Add" => n = Len(products),
         click[k].op = "Remove" =>
           n \in DOMAIN products /\ products[n] = click[k].item,
         ~damaged, ~Shop!Changing,
         UNCHANGED <<window, price, edited, edits, products, version, damaged,
                     delayed, sum, totalPrice, subscribed, overlap>>
  PROVE  ShopInv'
<1>0. click \in [Shop!Clicks -> ClickType] BY ShopTypes DEF ShopInv
<1>1. /\ click' \in [Shop!Clicks -> ClickType]
      /\ click'[k].pc = "change" /\ click'[k].op = click[k].op
      /\ click'[k].item = click[k].item /\ click'[k].index = n
      /\ \A j \in Shop!Clicks \ {k} : click'[j] = click[j]
  BY <1>0, FoundValues
<1>2. Shop!TypeOK' BY <1>1 DEF ShopInv, Shop!TypeOK, ClickType
<1>3. FormedOK' BY <1>1 DEF ShopInv, FormedOK
<1>4. ClicksOK /\ ChangeOK /\ ListOK BY DEF ShopInv
<1>5. Listed' = Listed BY DEF Listed
<1>6. Shop!Shown \subseteq Shop!Shown' BY <1>1 DEF Shop!Shown
<1>7. \A r \in Shop!Clicks :
        click'[r].op = "Remove" /\ click'[r].pc \in {"update", "done"}
          => click'[r].item \notin Listed'
  <2> TAKE r \in Shop!Clicks
  <2>1. CASE r = k BY <1>1, <2>1
  <2>2. CASE r # k BY <1>1, <1>4, <1>5, <2>2 DEF ClicksOK
  <2> QED BY <2>1, <2>2
<1>8. ClicksOK'
  <2>1. Moves(k) BY <1>1, <1>5, <1>6, <1>7 DEF Moves
  <2> QED BY <1>4, <2>1, ClicksMove
<1>9. ChangeOK'
  <2>1. \A j \in Shop!Clicks : click'[j].pc = "change" => j = k
    BY <1>1 DEF Shop!Changing
  <2> QED BY <1>1, <2>1 DEF ChangeOK
<1>10. ListOK' BY <1>4, <1>6 DEF ListOK
<1> QED BY <1>2, <1>3, <1>8, <1>9, <1>10 DEF ShopInv

LEMMA FindEndOK ==
  ASSUME ShopInv, NEW k \in Shop!Clicks, Shop!FindEnd(k)
  PROVE  ShopInv'
<1>1. /\ click \in [Shop!Clicks -> ClickType] /\ products \in Seq(Shop!Clicks)
      /\ Len(products) \in Nat
  <2>1. click \in [Shop!Clicks -> ClickType] /\ products \in Seq(Shop!Clicks)
    BY ShopTypes DEF ShopInv
  <2> QED BY <2>1
<1>2. /\ click[k].op = "Add" /\ click[k].pc = "begin"
      /\ click' = [click EXCEPT ![k].pc = "change", ![k].index = Len(products)]
      /\ UNCHANGED <<window, price, edited, edits, delayed, sum, totalPrice,
                     subscribed, overlap>>
  BY DEF Shop!FindEnd, Shop!At, Shop!uiVars, Shop!sumVars
<1>3. CASE ~(damaged \/ Shop!Changing)
  <2>1. UNCHANGED <<products, version, damaged>>
    BY <1>3 DEF Shop!FindEnd, Shop!listVars
  <2> QED BY <1>1, <1>2, <1>3, <2>1, BeginChange
<1>4. CASE damaged \/ Shop!Changing
  <2>1. Shop!Overlaps BY <1>4 DEF Shop!FindEnd
  <2>2. /\ click' \in [Shop!Clicks -> ClickType]
        /\ click'[k].op = click[k].op /\ click'[k].item = click[k].item
        /\ \A j \in Shop!Clicks \ {k} : click'[j] = click[j]
    BY <1>1, <1>2, FoundValues
  <2> QED BY <1>2, <2>1, <2>2, DamagedOK
<1> QED BY <1>3, <1>4

LEMMA FindIndexOK ==
  ASSUME ShopInv, NEW k \in Shop!Clicks, Shop!FindIndex(k)
  PROVE  ShopInv'
<1> DEFINE I == {i \in DOMAIN products : products[i] = click[k].item}
<1>1. /\ click[k].op = "Remove" /\ click[k].pc = "begin"
      /\ UNCHANGED <<window, price, edited, edits, delayed, sum, totalPrice,
                     subscribed, overlap>>
  BY DEF Shop!FindIndex, Shop!At, Shop!uiVars, Shop!sumVars
<1>2. CASE I = {} /\ Shop!Goto(k, "update") /\ UNCHANGED Shop!listVars
  <2>1. UNCHANGED <<products, version, damaged>> BY <1>2 DEF Shop!listVars
  <2>2. click[k].item \notin Listed BY <1>2 DEF Listed
  <2>3. delayed' \in Nat /\ subscribed' \subseteq Shop!Clicks
    BY <1>1, ShopTypes DEF ShopInv
  <2> QED BY <1>1, <1>2, <2>1, <2>2, <2>3, GotoOK
<1>3. CASE /\ I # {} /\ ~damaged /\ ~Shop!Changing /\ UNCHANGED Shop!listVars
           /\ click' = [click EXCEPT ![k].pc = "change", ![k].index = Shop!Min(I)]
  <2>1. UNCHANGED <<products, version, damaged>> BY <1>3 DEF Shop!listVars
  <2>2. products \in Seq(Shop!Clicks) BY ShopTypes DEF ShopInv
  <2>3. DOMAIN products \subseteq Nat \ {0} BY <2>2
  <2>4. Shop!Min(I) \in I BY <1>3, <2>3, ShopMin
  <2> DEFINE n == Shop!Min(I)
  <2>5. n \in Nat /\ n \in DOMAIN products /\ products[n] = click[k].item
    BY <2>3, <2>4
  <2>6. click' = [click EXCEPT ![k].pc = "change", ![k].index = n] BY <1>3
  <2> HIDE DEF n
  <2> QED BY <1>1, <1>3, <2>1, <2>5, <2>6, BeginChange
<1>4. CASE /\ Shop!Overlaps
           /\ \E pc \in {"change", "update"} : Shop!Goto(k, pc)
  <2>1. PICK pc \in {"change", "update"} : Shop!Goto(k, pc) BY <1>4
  <2>2. click \in [Shop!Clicks -> ClickType] BY ShopTypes DEF ShopInv
  <2>3. /\ click' \in [Shop!Clicks -> ClickType]
        /\ click'[k].op = click[k].op /\ click'[k].item = click[k].item
        /\ \A j \in Shop!Clicks \ {k} : click'[j] = click[j]
    BY <2>1, <2>2, GotoValues
  <2> QED BY <1>1, <1>4, <2>3, DamagedOK
<1> QED BY <1>2, <1>3, <1>4 DEF Shop!FindIndex

LEMMA SubscribeOK ==
  ASSUME ShopInv, NEW k \in Shop!Clicks, Shop!Subscribe(k)
  PROVE  ShopInv'
<1>1. /\ click[k].op = "Add" /\ click[k].pc = "subscribe" /\ Shop!Goto(k, "update")
      /\ subscribed' = subscribed \cup {click[k].item}
      /\ UNCHANGED <<window, price, edited, edits, products, version, damaged, delayed, sum,
                     totalPrice, overlap>>
  BY DEF Shop!Subscribe, Shop!At, Shop!uiVars, Shop!listVars, Shop!sumVars
<1>2. delayed' \in Nat /\ subscribed \subseteq Shop!Clicks
  BY <1>1, ShopTypes DEF ShopInv
<1>3. click[k].item = k BY <1>1 DEF ShopInv, FormedOK
<1>4. subscribed' \subseteq Shop!Clicks BY <1>1, <1>2, <1>3
<1> QED BY <1>1, <1>2, <1>4, GotoOK

LEMMA UpdatePriceOK ==
  ASSUME ShopInv, NEW k \in Shop!Clicks, Shop!UpdatePriceAsync(k)
  PROVE  ShopInv'
<1>1. /\ click[k].pc = "update" /\ Shop!Goto(k, "done") /\ delayed' = delayed + 1
      /\ UNCHANGED <<window, price, edited, edits, products, version, damaged, sum,
                     totalPrice, subscribed, overlap>>
  BY DEF Shop!UpdatePriceAsync, Shop!At, Shop!uiVars, Shop!listVars
<1>2. delayed \in Nat /\ subscribed' \subseteq Shop!Clicks
  BY <1>1, ShopTypes DEF ShopInv
<1>3. delayed' \in Nat BY <1>1, <1>2
<1> QED BY <1>1, <1>2, <1>3, GotoOK

LEMMA InsertOK ==
  ASSUME ShopInv, NEW k \in Shop!Clicks, Shop!Insert(k)
  PROVE  ShopInv'
<1> DEFINE n == click[k].index
<1>1. /\ click[k].op = "Add" /\ click[k].pc = "change" /\ click[k].item = k
      /\ UNCHANGED <<window, price, edited, edits, delayed, sum, totalPrice,
                     subscribed, overlap>>
  BY DEF Shop!Insert, Shop!At, Shop!uiVars, Shop!sumVars, ShopInv, FormedOK
<1>2. /\ products \in Seq(Shop!Clicks) /\ version \in Nat /\ Len(products) \in Nat
      /\ click \in [Shop!Clicks -> ClickType]
  <2>1. /\ products \in Seq(Shop!Clicks) /\ version \in Nat
        /\ click \in [Shop!Clicks -> ClickType]
    BY ShopTypes DEF ShopInv
  <2> QED BY <2>1
<1>3. PICK pc \in {"subscribe", "faulted"} : Shop!Goto(k, pc) BY DEF Shop!Insert
<1>4. /\ click' \in [Shop!Clicks -> ClickType]
      /\ click'[k].pc = pc /\ click'[k].op = "Add" /\ click'[k].item = k
      /\ \A j \in Shop!Clicks \ {k} : click'[j] = click[j]
  BY <1>1, <1>2, <1>3, GotoValues
<1>5. CASE damaged
  <2>1. UNCHANGED <<products, version, damaged>>
    BY <1>5 DEF Shop!Insert, Shop!listVars
  <2> QED BY <1>1, <1>4, <1>5, <2>1, DamagedOK
<1>6. CASE ~damaged
  <2>1. /\ Shop!Goto(k, "subscribe") /\ UNCHANGED damaged
        /\ products' = Shop!InsertAt(products, n + 1, k) /\ version' = version + 1
    BY <1>1, <1>6 DEF Shop!Insert
  <2>2. ClicksOK /\ ChangeOK /\ ListOK BY <1>6 DEF ShopInv
  <2>3. n = Len(products) BY <1>1, <2>2 DEF ChangeOK
  <2>4. products' = Append(products, k) BY <1>2, <2>1, <2>3, InsertLast
  <2>5. products' \in Seq(Shop!Clicks) BY <1>2, <2>4, AppendProperties
  <2>6. version' \in Nat /\ version <= version' BY <1>2, <2>1
  <2>bool. damaged' \in BOOLEAN BY <2>1, ShopTypes, Zenon DEF ShopInv
  <2>7. Shop!TypeOK' /\ FormedOK' BY <1>1, <1>4, <2>5, <2>6, <2>bool, ListTyped
  <2>8. click'[k].pc = "subscribe" BY <1>2, <2>1, GotoValues
  <2>9. (ClicksOK /\ ChangeOK /\ ListOK)'
    <3>3. /\ Len(products') = Len(products) + 1 /\ products'[Len(products) + 1] = k
          /\ \A i \in 1..Len(products) : products'[i] = products[i]
          /\ DOMAIN products = 1..Len(products)
          /\ DOMAIN products' = 1..Len(products) + 1
      BY <1>2, <2>4, AppendProperties
    <3>4. k \notin Shop!Shown /\ k # 0
      BY <1>1, ShopFacts DEF Shop!Shown, Shop!Clicks
    <3>5. Listed \subseteq Shop!Shown BY <2>2 DEF ListOK, Listed
    <3>6. Listed' = Listed \cup {k}
      <4>1. \A i \in DOMAIN products' : i \in DOMAIN products \/ i = Len(products) + 1
        BY <1>2, <3>3
      <4>2. Listed' \subseteq Listed \cup {k} BY <3>3, <4>1 DEF Listed
      <4>3. \A i \in DOMAIN products : i \in DOMAIN products' BY <1>2, <3>3
      <4>4. Len(products) + 1 \in DOMAIN products' BY <1>2, <3>3
      <4>5. Listed \cup {k} \subseteq Listed' BY <3>3, <4>3, <4>4 DEF Listed
      <4> QED BY <4>2, <4>5
    <3>7. Shop!Shown \cup {k} \subseteq Shop!Shown' BY <1>4, <2>8, <3>4 DEF Shop!Shown
    <3>8. \A r \in Shop!Clicks :
            click'[r].op = "Remove" /\ click'[r].pc \in {"update", "done"}
              => click'[r].item \notin Listed'
      <4> SUFFICES ASSUME NEW r \in Shop!Clicks, click'[r].op = "Remove",
                          click'[r].pc \in {"update", "done"}
                   PROVE  click'[r].item \notin Listed'
        OBVIOUS
      <4>1. r # k /\ click'[r] = click[r] BY <1>4
      <4>2. /\ click[r].item # 0 => click[r].item \in Shop!Shown
            /\ click[r].item \notin Listed
        BY <2>2, <4>1 DEF ClicksOK
      <4>3. click[r].item # k BY <3>4, <4>2
      <4> QED BY <3>6, <4>1, <4>2, <4>3
    <3>9. ClicksOK'
      <4>1. Moves(k) BY <1>1, <1>4, <2>8, <3>6, <3>7, <3>8 DEF Moves
      <4> QED BY <2>2, <4>1, ClicksMove
    <3>10. ChangeOK'
      <4>1. \A j \in Shop!Clicks : click'[j].pc # "change"
        BY <1>1, <1>4, <2>2, <2>8 DEF ChangeOK
      <4> QED BY <4>1 DEF ChangeOK
    <3>11. ListOK'
      <4>1. \A i \in DOMAIN products' : products'[i] \in Shop!Shown'
        BY <3>5, <3>6, <3>7 DEF Listed
      <4>2. ASSUME NEW i \in DOMAIN products', NEW j \in DOMAIN products',
                   products'[i] = products'[j]
            PROVE  i = j
        <5>1. /\ i \in DOMAIN products \/ i = Len(products) + 1
              /\ j \in DOMAIN products \/ j = Len(products) + 1
          BY <1>2, <3>3
        <5>2. \A m \in DOMAIN products : products'[m] = products[m] /\ products[m] # k
          BY <2>2, <3>3, <3>4 DEF ListOK
        <5>3. CASE i \in DOMAIN products /\ j \in DOMAIN products
          BY <2>2, <4>2, <5>2, <5>3 DEF ListOK
        <5>4. CASE i = Len(products) + 1 /\ j \in DOMAIN products
          BY <3>3, <4>2, <5>2, <5>4
        <5>5. CASE i \in DOMAIN products /\ j = Len(products) + 1
          BY <3>3, <4>2, <5>2, <5>5
        <5> QED BY <5>1, <5>3, <5>4, <5>5
      <4> QED BY <4>1, <4>2 DEF ListOK
    <3> QED BY <3>9, <3>10, <3>11
  <2> QED BY <2>7, <2>9 DEF ShopInv
<1> QED BY <1>5, <1>6

LEMMA RemoveItemOK ==
  ASSUME ShopInv, NEW k \in Shop!Clicks, Shop!RemoveItem(k)
  PROVE  ShopInv'
<1> DEFINE n == click[k].index
           p == click[k].item
<1>1. /\ click[k].op = "Remove" /\ click[k].pc = "change"
      /\ UNCHANGED <<window, price, edited, edits, delayed, sum, totalPrice,
                     subscribed, overlap>>
  BY DEF Shop!RemoveItem, Shop!At, Shop!uiVars, Shop!sumVars
<1>2. /\ products \in Seq(Shop!Clicks) /\ version \in Nat
      /\ Len(products) \in Nat /\ DOMAIN products = 1..Len(products)
      /\ click \in [Shop!Clicks -> ClickType]
  <2>1. /\ products \in Seq(Shop!Clicks) /\ version \in Nat
        /\ click \in [Shop!Clicks -> ClickType]
    BY ShopTypes DEF ShopInv
  <2> QED BY <2>1
<1>3. PICK pc \in {"update", "faulted"} : Shop!Goto(k, pc) BY DEF Shop!RemoveItem
<1>4. /\ click' \in [Shop!Clicks -> ClickType]
      /\ click'[k].pc = pc /\ click'[k].op = "Remove" /\ click'[k].item = p
      /\ \A j \in Shop!Clicks \ {k} : click'[j] = click[j]
  BY <1>1, <1>2, <1>3, GotoValues
<1>5. CASE damaged
  <2>1. UNCHANGED <<products, version, damaged>>
    BY <1>5 DEF Shop!RemoveItem, Shop!listVars
  <2> QED BY <1>1, <1>4, <1>5, <2>1, DamagedOK
<1>6. CASE ~damaged
  <2>goes. /\ Shop!Goto(k, "update") /\ UNCHANGED damaged
         /\ products' = Shop!RemoveAt(products, n) /\ version' = version + 1
    BY <1>6 DEF Shop!RemoveItem
  <2>before. ClicksOK /\ ChangeOK /\ ListOK BY <1>6 DEF ShopInv
  <2>there. products[n] = p BY <1>1, <2>before DEF ChangeOK
  <2>0. n \in 1..Len(products) BY <1>1, <1>2, <2>before DEF ChangeOK
  <2>1. /\ products' \in Seq(Shop!Clicks) /\ Len(products') = Len(products) - 1
        /\ \A i \in 1..Len(products) - 1 :
             products'[i] = IF i < n THEN products[i] ELSE products[i + 1]
    BY <1>2, <2>goes, <2>0, TakenOut
  <2>2. version' \in Nat /\ version <= version' BY <1>2, <2>goes
  <2>bool. damaged' \in BOOLEAN BY <2>goes, ShopTypes, Zenon DEF ShopInv
  <2>3. /\ Shop!TypeOK' /\ FormedOK' /\ click'[k].pc = "update"
    <3>1. Shop!TypeOK' /\ FormedOK' BY <1>1, <1>4, <2>1, <2>2, <2>bool, ListTyped
    <3>2. click'[k].pc = "update" BY <1>2, <2>goes, GotoValues
    <3> QED BY <3>1, <3>2
  <2>4. DOMAIN products' = 1..Len(products) - 1 BY <2>1
  <2> DEFINE was(i) == IF i < n THEN i ELSE i + 1
  <2>5. ASSUME NEW i \in DOMAIN products'
        PROVE  was(i) \in DOMAIN products \ {n} /\ products'[i] = products[was(i)]
    BY <1>2, <2>0, <2>1, <2>4, <2>5
  <2>6. \A i, j \in DOMAIN products' : was(i) = was(j) => i = j
    <3>1. n \in Nat /\ \A i \in DOMAIN products' : i \in Nat BY <1>2, <2>0, <2>4
    <3> QED BY <3>1
  <2>7. ASSUME NEW m \in DOMAIN products \ {n}
        PROVE  \E i \in DOMAIN products' : was(i) = m
    <3>1. CASE m < n
      <4>1. m \in DOMAIN products' /\ was(m) = m BY <1>2, <2>0, <2>4, <2>7, <3>1
      <4> QED BY <4>1
    <3>2. CASE ~(m < n)
      <4>1. m - 1 \in DOMAIN products' /\ was(m - 1) = m
        BY <1>2, <2>0, <2>4, <2>7, <3>2
      <4> QED BY <4>1
    <3> QED BY <3>1, <3>2
  <2> HIDE DEF was
  <2>8. (ClicksOK /\ ChangeOK /\ ListOK)'
    <3>1. ClicksOK /\ ChangeOK /\ ListOK /\ products[n] = p BY <2>before, <2>there
    <3>2. \A m \in DOMAIN products \ {n} : products[m] # p
      BY <1>2, <2>0, <3>1 DEF ListOK
    <3>3. Listed' \subseteq Listed /\ p \notin Listed'
      BY <2>5, <3>2 DEF Listed
    <3>4. Listed \subseteq Listed' \cup {p}
      <4> SUFFICES ASSUME NEW m \in DOMAIN products, m # n
                   PROVE  products[m] \in Listed'
        BY <3>1 DEF Listed
      <4>1. PICK i \in DOMAIN products' : was(i) = m BY <2>7
      <4>2. products'[i] = products[m] BY <2>5, <4>1
      <4> QED BY <4>2 DEF Listed
    <3>5. Shop!Shown \subseteq Shop!Shown' BY <1>1, <1>4 DEF Shop!Shown
    <3>6. \A r \in Shop!Clicks :
            click'[r].op = "Remove" /\ click'[r].pc \in {"update", "done"}
              => click'[r].item \notin Listed'
      <4> SUFFICES ASSUME NEW r \in Shop!Clicks, click'[r].op = "Remove",
                          click'[r].pc \in {"update", "done"}
                   PROVE  click'[r].item \notin Listed'
        OBVIOUS
      <4>1. CASE r = k BY <1>4, <3>3, <4>1
      <4>2. CASE r # k
        <5>1. click'[r] = click[r] BY <1>4, <4>2
        <5>2. click[r].item \notin Listed BY <3>1, <5>1 DEF ClicksOK
        <5> QED BY <3>3, <5>1, <5>2
      <4> QED BY <4>1, <4>2
    <3>7. ClicksOK'
      <4>1. Moves(k) BY <1>1, <1>4, <2>3, <3>4, <3>5, <3>6 DEF Moves
      <4> QED BY <3>1, <4>1, ClicksMove
    <3>8. ChangeOK'
      <4>1. \A j \in Shop!Clicks : click'[j].pc # "change"
        BY <1>1, <1>4, <2>3, <3>1 DEF ChangeOK
      <4> QED BY <4>1 DEF ChangeOK
    <3>9. ListOK'
      <4>1. \A i \in DOMAIN products' : products'[i] \in Shop!Shown'
        BY <2>5, <3>1, <3>5 DEF ListOK
      <4>2. \A i, j \in DOMAIN products' : products'[i] = products'[j] => i = j
        BY <2>5, <2>6, <3>1 DEF ListOK
      <4> QED BY <4>1, <4>2 DEF ListOK
    <3> QED BY <3>7, <3>8, <3>9
  <2> QED BY <2>3, <2>8 DEF ShopInv
<1> QED BY <1>5, <1>6

LEMMA ShopNext == ShopInv /\ [Shop!Next]_(Shop!vars) => ShopInv'
<1> SUFFICES ASSUME ShopInv, Shop!Next \/ UNCHANGED Shop!vars PROVE ShopInv'
  OBVIOUS
<1>1. CASE Shop!Window BY <1>1, WindowOK
<1>2. CASE Shop!Pool
  BY <1>2, FindEndOK, InsertOK, SubscribeOK, FindIndexOK, RemoveItemOK,
     UpdatePriceOK, SumsOK
  DEF Shop!Pool
<1>3. CASE UNCHANGED Shop!vars
  <2>1. UNCHANGED <<window, price, edited, edits, products, version, damaged, delayed, sum,
                    totalPrice, subscribed, click, overlap>>
    BY <1>3 DEF Shop!vars, Shop!uiVars, Shop!listVars, Shop!sumVars
  <2>2. Shop!TypeOK' BY <2>1 DEF ShopInv, Shop!TypeOK
  <2>3. FormedOK' BY <2>1 DEF ShopInv, FormedOK
  <2> QED BY <2>1, <2>2, <2>3, ListUntouched DEF ShopInv
<1> QED BY <1>1, <1>2, <1>3 DEF Shop!Next

(* The types of the shop's state, for any clicks, edits and prices; among  *)
(* them, that TotalPrice never passes int.MaxValue, and that Products holds*)
(* products only as long as no two changes have overlapped.                *)
THEOREM ShopTypeCorrect == Shop!Spec => []Shop!TypeOK
<1>1. ShopInv => Shop!TypeOK BY DEF ShopInv
<1> QED BY <1>1, ShopInit, ShopNext, PTL DEF Shop!Spec

(* Unless two changes have overlapped, the list comes to hold just what was*)
(* added and not removed, each once: ListSettles, for any number of clicks.*)
THEOREM ListDoesSettle == Shop!Spec => []ListSettles
<1>1. ShopInv => ListSettles
  <2> SUFFICES ASSUME ShopInv, Shop!AtRest, ~damaged
               PROVE  /\ Shop!ToSet(products)
                           = Shop!Items("Add") \ Shop!Items("Remove")
                      /\ Len(products) = Cardinality(Shop!ToSet(products))
    BY DEF ListSettles, Shop!ListSettles, Shop!Cardinality, Cardinality
  <2>1. ClicksOK /\ ListOK /\ FormedOK BY DEF ShopInv
  <2>2. Shop!ToSet(products) = Listed BY DEF Shop!ToSet, Listed
  <2>3. \A k \in Shop!Clicks : click[k].op # "none" => click[k].pc = "done"
    <3> SUFFICES ASSUME NEW k \in Shop!Clicks, click[k].op # "none"
                 PROVE  click[k].pc = "done"
      OBVIOUS
    <3>1. click[k].op \in {"Add", "Remove"}
      BY ShopTypes DEF ShopInv, ClickType
    <3>2. click[k].pc \in {"none", "done", "faulted"} BY DEF Shop!AtRest
    <3> QED BY <2>1, <3>1, <3>2 DEF ClicksOK
  <2>4. \A r \in Shop!Clicks : click[r].op = "Remove" => click[r].item \notin Listed
    BY <2>1, <2>3 DEF ClicksOK
  <2>5. Listed \cap Shop!Items("Remove") = {} BY <2>4 DEF Shop!Items
  <2>6. Listed \subseteq Shop!Items("Add")
    <3>1. Listed \subseteq Shop!Shown BY <2>1 DEF ListOK, Listed
    <3>2. \A q \in Shop!Shown : q \in Shop!Clicks /\ click[q].op = "Add"
                               /\ click[q].item = q
      BY <2>1 DEF FormedOK, Shop!Shown
    <3> QED BY <3>1, <3>2 DEF Shop!Items
  <2>7. ASSUME NEW q \in Shop!Items("Add") \ Shop!Items("Remove") PROVE q \in Listed
    <3>1. q \in Shop!Clicks /\ click[q].op = "Add"
      BY <2>1, <2>7 DEF Shop!Items, FormedOK
    <3>2. \A r \in Shop!Clicks : click[r].op = "Remove" => click[r].item # q
      BY <2>7 DEF Shop!Items
    <3>3. click[q].pc = "done" BY <2>3, <3>1
    <3> QED BY <2>1, <3>1, <3>2, <3>3 DEF ClicksOK
  <2>8. Len(products) = Cardinality(Listed)
    <3>1. products \in Seq(Shop!Clicks) BY ShopTypes DEF ShopInv
    <3>2. Len(products) \in Nat /\ DOMAIN products = 1..Len(products) BY <3>1
    <3>3. products \in Bijection(1..Len(products), Listed)
      <4>1. products \in [1..Len(products) -> Listed] BY <3>1, <3>2 DEF Listed
      <4>2. \A i, j \in 1..Len(products) : products[i] = products[j] => i = j
        BY <2>1, <3>2 DEF ListOK
      <4>3. \A p \in Listed : \E i \in 1..Len(products) : products[i] = p
        BY <3>2 DEF Listed
      <4> QED BY <4>1, <4>2, <4>3, Fun_IsBij DEF IsInjective
    <3>4. ExistsBijection(1..Len(products), Listed) BY <3>3 DEF ExistsBijection
    <3>5. /\ IsFiniteSet(1..Len(products))
          /\ Cardinality(1..Len(products)) = Len(products)
      <4>1. PICK N \in Nat : N = Len(products) BY <3>2
      <4>2. 1 \in Int /\ N \in Int /\ (IF 1 > N THEN 0 ELSE N - 1 + 1) = N OBVIOUS
      <4>3. IsFiniteSet(1..N) /\ Cardinality(1..N) = N BY <4>2, FS_Interval
      <4> QED BY <4>1, <4>3
    <3> QED BY <3>4, <3>5, FS_Bijection
  <2> QED BY <2>2, <2>5, <2>6, <2>7, <2>8
<1> QED BY <1>1, ShopInit, ShopNext, PTL DEF Shop!Spec
-----------------------------------------------------------------------------
(* A sum is still to come, ...                                             *)
Announced == \/ delayed > 0 \/ edited \in Listed
             \/ \E k \in Shop!Clicks : click[k].pc \in {"change", "subscribe", "update"}

ListTotal == Shop!Totals[Len(products)]

(* ... or under way and right so far, or over.                             *)
Summed ==
  \/ \E s \in Shop!Sums : /\ sum[s].pc = "summing" /\ sum[s].version = version
                          /\ sum[s].at <= Len(products) + 1
                          /\ sum[s].acc = Shop!Totals[sum[s].at - 1]
  \/ \E s \in Shop!Sums : sum[s].pc = "writing" /\ sum[s].acc = ListTotal
  \/ /\ \A s \in Shop!Sums : sum[s] = Shop!NoSum
     /\ ListTotal = totalPrice \/ ListTotal > MaxTotal

(* While nothing overlapped there is one sum at a time, and a product in the *)
(* list is listened to, or will be before the change that added it ends.   *)
SumsOneByOne ==
  \A s, t \in Shop!Sums : sum[s] # Shop!NoSum /\ sum[t] # Shop!NoSum => s = t

ListenedTo == \A p \in Listed : p \in subscribed \/ click[p].pc = "subscribe"

Quiet == ~damaged /\ ~overlap

TotalOK == Quiet => SumsOneByOne /\ ListenedTo /\ (Announced \/ Summed)

-----------------------------------------------------------------------------
(* The running totals of the list.                                         *)
LEMMA TotalsGrow ==
  ASSUME Shop!TypeOK
  PROVE  /\ Shop!Totals[0] = 0
         /\ \A n \in 1..Len(products) :
              Shop!Totals[n] = Shop!Totals[n - 1] + price[products[n]]
         /\ \A n \in 0..Len(products) : Shop!Totals[n] \in 0..ListTotal
         /\ ListTotal \in Nat
<1> DEFINE t == [i \in DOMAIN products |-> price[products[i]]]
           N == Len(products)
<1>1. products \in Seq(Shop!Clicks) /\ price \in [Shop!Clicks -> Nat]
  BY DEF Shop!TypeOK
<1>2. /\ N \in Nat /\ DOMAIN products = 1..N
      /\ \A i \in 1..N : products[i] \in Shop!Clicks
  BY <1>1
<1>3. t \in [1..N -> Nat] /\ \A i \in 1..N : t[i] = price[products[i]]
  BY <1>1, <1>2
<1>4. Shop!Totals = PartialSums(t, N)
  BY DEF Shop!Totals, Shop!PartialSums, PartialSums
<1> HIDE DEF t, N
<1>5. t \in [1..N -> Int] BY <1>3
<1>6. /\ PartialSums(t, N) \in [0..N -> Int] /\ PartialSums(t, N)[0] = 0
      /\ \A n \in 1..N : PartialSums(t, N)[n] = PartialSums(t, N)[n - 1] + t[n]
  BY <1>2, <1>5, PartialSumsExist
<1>7. \A n \in 0..N : PartialSums(t, N)[n] \in 0..PartialSums(t, N)[N]
  BY <1>2, <1>3, PartialSumsGrow
<1>8. PartialSums(t, N)[N] \in Nat
  <2>1. N \in 0..N BY <1>2
  <2> QED BY <1>6, <1>7, <2>1
<1> QED BY <1>3, <1>4, <1>6, <1>7, <1>8 DEF N, ListTotal

LEMMA ListFacts ==
  ASSUME ShopInv, ~damaged
  PROVE  Listed \subseteq Shop!Shown /\ 0 \notin Shop!Clicks /\ Listed \subseteq Shop!Clicks
BY ShopFacts DEF ShopInv, ListOK, Listed, Shop!Shown, Shop!Clicks

(* Prices of other products do not matter to the totals.                   *)
LEMMA SameTotals ==
  ASSUME products' = products, \A p \in Listed : price'[p] = price[p]
  PROVE  Shop!Totals' = Shop!Totals /\ ListTotal' = ListTotal
<1>1. [i \in DOMAIN products |-> price'[products[i]]]
        = [i \in DOMAIN products |-> price[products[i]]]
  BY DEF Listed
<1> QED BY <1>1 DEF Shop!Totals, ListTotal

LEMMA FreshTotal == Fresh => TotalOK
<1> SUFFICES ASSUME Fresh PROVE TotalOK OBVIOUS
<1>1. Shop!TypeOK BY FreshShop DEF ShopInv
<1>2. /\ products = << >> /\ totalPrice = 0
      /\ \A s \in Shop!Sums : sum[s] = Shop!NoSum
  BY DEF Fresh
<1>3. Len(products) = 0 /\ Listed = {} BY <1>2 DEF Listed
<1>4. ListTotal = 0 BY <1>1, <1>3, TotalsGrow DEF ListTotal
<1> QED BY <1>2, <1>3, <1>4 DEF TotalOK, SumsOneByOne, ListenedTo, Summed

(* A step that leaves the sums alone and announces one, or changes nothing *)
(* that matters to them.                                                   *)
LEMMA SumsUntouched ==
  ASSUME TotalOK, Quiet' => Quiet /\ ListenedTo',
         UNCHANGED <<sum, totalPrice>>,
         \/ Announced'
         \/ /\ UNCHANGED <<products, version>> /\ ~Announced
            /\ Shop!Totals' = Shop!Totals
  PROVE  TotalOK'
<1> SUFFICES ASSUME Quiet' PROVE TotalOK' BY DEF TotalOK
<1>1. SumsOneByOne /\ ListenedTo' /\ (Announced \/ Summed) BY DEF TotalOK
<1>2. SumsOneByOne' BY <1>1 DEF SumsOneByOne
<1>3. CASE Announced' BY <1>1, <1>2, <1>3 DEF TotalOK
<1>4. CASE /\ UNCHANGED <<products, version>> /\ ~Announced
           /\ Shop!Totals' = Shop!Totals
  <2>1. ListTotal' = ListTotal BY <1>4 DEF ListTotal
  <2>2. Summed' BY <1>1, <1>4, <2>1 DEF Summed
  <2> QED BY <1>1, <1>2, <2>2 DEF TotalOK
<1> QED BY <1>3, <1>4

LEMMA WindowTotal ==
  ShopInv /\ ShopInv' /\ TotalOK /\ Shop!Window => TotalOK'
<1> SUFFICES ASSUME ShopInv, ShopInv', TotalOK, Shop!Window PROVE TotalOK'
  OBVIOUS
<1>0. click \in [Shop!Clicks -> ClickType] /\ price \in [Shop!Clicks -> Nat]
  BY ShopTypes DEF ShopInv
<1>1. ASSUME NEW k \in Shop!Clicks,
             Shop!ButtonClick(k) \/ Shop!RemoveBtnOnClick(k)
      PROVE  TotalOK'
  <2> SUFFICES ASSUME Quiet' PROVE TotalOK' BY DEF TotalOK
  <2>1. PICK op \in {"Add", "Remove"}, p \in Shop!Clicks \cup {0} :
          Shop!StartTask(k, op, p)
    BY <1>1 DEF Shop!ButtonClick, Shop!RemoveBtnOnClick, Shop!Shown
  <2>2. /\ click[k] = Shop!NoClick
        /\ click' = [click EXCEPT ![k] = [op |-> op, item |-> p, pc |-> "begin",
                                          index |-> 0]]
        /\ UNCHANGED <<edited, products, version, damaged, delayed, sum, totalPrice,
                       subscribed, overlap>>
    BY <2>1 DEF Shop!StartTask, Shop!listVars, Shop!sumVars
  <2>quiet. Quiet BY <2>2 DEF Quiet
  <2>3. /\ click[k].pc = "none" /\ click'[k].pc = "begin"
        /\ \A j \in Shop!Clicks \ {k} : click'[j] = click[j]
    BY <1>0, <2>2 DEF Shop!NoClick
  <2>4. Listed \subseteq Shop!Clicks /\ k \notin Listed /\ Listed' = Listed
    BY <2>2, <2>quiet, <2>3, ListFacts DEF Quiet, Shop!Shown, Listed
  <2>5. \A q \in Listed : price'[q] = price[q]
    BY <1>0, <1>1, <2>4 DEF Shop!ButtonClick, Shop!RemoveBtnOnClick
  <2>6. ListenedTo' BY <2>2, <2>quiet, <2>3, <2>4 DEF TotalOK, ListenedTo
  <2>7. Announced' <=> Announced BY <2>2, <2>3, <2>4 DEF Announced
  <2>8. Shop!Totals' = Shop!Totals BY <2>2, <2>5, SameTotals
  <2> QED BY <2>2, <2>quiet, <2>6, <2>7, <2>8, SumsUntouched
<1>2. CASE Shop!ButtonClickNoPrice
  <2>1. Fresh' BY <1>2 DEF Shop!ButtonClickNoPrice, Fresh
  <2>2. Fresh' => TotalOK' BY FreshTotal, PTL
  <2> QED BY <2>1, <2>2
<1>3. CASE Shop!RaisePropertyChanged
  <2>1. /\ edited # 0 /\ edited' = 0
        /\ delayed' = IF edited \in subscribed THEN delayed + 1 ELSE delayed
        /\ UNCHANGED <<price, products, version, damaged, sum, totalPrice, subscribed,
                       click, overlap>>
    BY <1>3 DEF Shop!RaisePropertyChanged, Shop!listVars
  <2> SUFFICES ASSUME Quiet' PROVE TotalOK' BY DEF TotalOK
  <2>quiet. Quiet BY <2>1 DEF Quiet
  <2>2. delayed \in Nat /\ Listed' = Listed BY <2>1, ShopTypes DEF ShopInv, Listed
  <2>3. ListenedTo' BY <2>1, <2>quiet, <2>2 DEF TotalOK, ListenedTo
  <2>4. Listed \subseteq Shop!Clicks /\ 0 \notin Listed
    BY <2>quiet, ListFacts DEF Quiet
  <2>5. CASE edited \in Listed
    <3>1. edited \in subscribed \/ click[edited].pc = "subscribe"
      BY <2>quiet, <2>5 DEF TotalOK, ListenedTo
    <3>2. Announced' BY <2>1, <2>2, <2>4, <2>5, <3>1 DEF Announced
    <3> QED BY <2>1, <2>quiet, <2>3, <3>2, SumsUntouched
  <2>6. CASE edited \notin Listed
    <3>1. Announced => Announced' BY <2>1, <2>2, <2>4, <2>6 DEF Announced
    <3>2. Shop!Totals' = Shop!Totals BY <2>1, SameTotals
    <3> QED BY <2>1, <2>quiet, <2>3, <3>1, <3>2, SumsUntouched
  <2> QED BY <2>5, <2>6
<1>4. ASSUME NEW p \in Shop!Clicks, Shop!SetPrice(p) PROVE TotalOK'
  <2> SUFFICES ASSUME Quiet' PROVE TotalOK' BY DEF TotalOK
  <2>1. /\ edited' = p
        /\ UNCHANGED <<products, version, damaged, delayed, sum, totalPrice, subscribed,
                       click, overlap>>
    BY <1>4 DEF Shop!SetPrice, Shop!listVars, Shop!sumVars
  <2>quiet. Quiet BY <2>1 DEF Quiet
  <2>here. p \in Shop!ToSet(products) BY <1>4, <2>quiet DEF Quiet, Shop!SetPrice
  <2>2. Listed' = Listed /\ p \in Listed BY <2>1, <2>here DEF Listed, Shop!ToSet
  <2>3. Announced' BY <2>1, <2>2 DEF Announced
  <2>4. ListenedTo' BY <2>1, <2>quiet, <2>2 DEF TotalOK, ListenedTo
  <2> QED BY <2>1, <2>quiet, <2>3, <2>4, SumsUntouched
<1> QED BY <1>1, <1>2, <1>3, <1>4 DEF Shop!Window

(* The steps of a click: those that end a change of the list announce a    *)
(* sum, and the others leave what is announced.                            *)
LEMMA ClickTotal ==
  ASSUME ShopInv, ShopInv', TotalOK, NEW k \in Shop!Clicks,
         \/ Shop!FindEnd(k) \/ Shop!Insert(k) \/ Shop!Subscribe(k)
         \/ Shop!FindIndex(k) \/ Shop!RemoveItem(k) \/ Shop!UpdatePriceAsync(k)
  PROVE  TotalOK'
<1> SUFFICES ASSUME Quiet' PROVE TotalOK' BY DEF TotalOK
<1>0. /\ click \in [Shop!Clicks -> ClickType] /\ delayed \in Nat
      /\ subscribed \subseteq Shop!Clicks /\ products \in Seq(Shop!Clicks)
  BY ShopTypes DEF ShopInv
<1>1. UNCHANGED <<price, edited, sum, totalPrice, overlap>>
  BY DEF Shop!FindEnd, Shop!Insert, Shop!Subscribe, Shop!FindIndex, Shop!RemoveItem,
         Shop!UpdatePriceAsync, Shop!uiVars, Shop!sumVars
<1>2. ~damaged /\ ~damaged' /\ ~overlap
  <2>1. ~damaged' /\ ~overlap' BY DEF Quiet
  <2>2. damaged => damaged'
    BY DEF Shop!FindEnd, Shop!Insert, Shop!Subscribe, Shop!FindIndex, Shop!RemoveItem,
           Shop!UpdatePriceAsync, Shop!Overlaps, Shop!listVars
  <2> QED BY <1>1, <2>1, <2>2
<1>3. CASE Shop!FindEnd(k) \/ Shop!FindIndex(k)
  <2>0. ~Shop!Overlaps BY <1>2 DEF Shop!Overlaps
  <2>1. /\ click[k].pc = "begin" /\ UNCHANGED <<products, version, delayed, subscribed>>
    BY <1>3, <2>0 DEF Shop!FindEnd, Shop!FindIndex, Shop!At, Shop!listVars, Shop!sumVars
  <2>2. PICK pc \in {"update", "change"} :
          \/ click' = [click EXCEPT ![k].pc = pc]
          \/ \E n : click' = [click EXCEPT ![k].pc = pc, ![k].index = n]
    BY <1>3, <2>0 DEF Shop!FindEnd, Shop!FindIndex, Shop!Goto
  <2>3. /\ click'[k].pc = pc
        /\ \A j \in Shop!Clicks \ {k} : click'[j] = click[j]
    BY <1>0, <2>2 DEF ClickType
  <2>4. Listed' = Listed /\ Listed \subseteq Shop!Clicks
    BY <1>2, <2>1, ListFacts DEF Listed
  <2>5. ListenedTo' BY <1>2, <2>1, <2>3, <2>4 DEF TotalOK, Quiet, ListenedTo
  <2>6. Announced' BY <2>3 DEF Announced
  <2> QED BY <1>1, <1>2, <2>5, <2>6, SumsUntouched DEF Quiet
<1>4. CASE Shop!UpdatePriceAsync(k)
  <2>1. delayed' = delayed + 1 /\ click[k].pc = "update" /\ Shop!Goto(k, "done")
        /\ UNCHANGED <<products, subscribed>>
    BY <1>4 DEF Shop!UpdatePriceAsync, Shop!At, Shop!listVars
  <2>2. Announced' BY <1>0, <2>1 DEF Announced
  <2>3. \A j \in Shop!Clicks \ {k} : click'[j] = click[j]
    BY <1>0, <2>1, GotoValues
  <2>4. Listed' = Listed /\ Listed \subseteq Shop!Clicks
    BY <1>2, <2>1, ListFacts DEF Listed
  <2>5. ListenedTo' BY <1>2, <2>1, <2>3, <2>4 DEF TotalOK, Quiet, ListenedTo
  <2> QED BY <1>1, <1>2, <2>2, <2>5, SumsUntouched DEF Quiet
<1>5. CASE Shop!Subscribe(k)
  <2>1. /\ Shop!Goto(k, "update") /\ subscribed' = subscribed \cup {click[k].item}
        /\ click[k].item = k /\ UNCHANGED products
    BY <1>5 DEF Shop!Subscribe, Shop!At, Shop!listVars, ShopInv, FormedOK
  <2>2. click'[k].pc = "update" /\ \A j \in Shop!Clicks \ {k} : click'[j] = click[j]
    BY <1>0, <2>1, GotoValues
  <2>3. Listed' = Listed /\ Listed \subseteq Shop!Clicks
    BY <1>2, <2>1, ListFacts DEF Listed
  <2>4. ListenedTo' BY <1>2, <2>1, <2>2, <2>3 DEF TotalOK, Quiet, ListenedTo
  <2>5. Announced' BY <2>2 DEF Announced
  <2> QED BY <1>1, <1>2, <2>4, <2>5, SumsUntouched DEF Quiet
<1>6. CASE Shop!RemoveItem(k)
  <2>1. /\ UNCHANGED subscribed /\ click[k].op = "Remove" /\ click[k].pc = "change"
        /\ products' = Shop!RemoveAt(products, click[k].index)
        /\ Shop!Goto(k, "update")
    BY <1>2, <1>6 DEF Shop!RemoveItem, Shop!At
  <2>2. click[k].index \in DOMAIN products
    BY <1>2, <2>1 DEF ShopInv, ChangeOK
  <2>4. click'[k].pc = "update" /\ \A j \in Shop!Clicks \ {k} : click'[j] = click[j]
    BY <1>0, <2>1, GotoValues
  <2>5. Listed' \subseteq Listed
    <3> DEFINE n == click[k].index
    <3>1. PICK N \in Nat : N = Len(products) /\ n \in 1..N /\ DOMAIN products = 1..N
      BY <1>0, <2>2
    <3>2. /\ products' \in Seq(Shop!Clicks) /\ Len(products') = N - 1
          /\ \A i \in 1..N - 1 :
               products'[i] = IF i < n THEN products[i] ELSE products[i + 1]
      BY <1>0, <2>1, <3>1, TakenOut
    <3>3. DOMAIN products' = 1..N - 1 BY <3>1, <3>2
    <3>4. ASSUME NEW i \in 1..N - 1 PROVE products'[i] \in Listed
      <4>1. i \in 1..N /\ i + 1 \in 1..N BY <3>1
      <4> QED BY <3>1, <3>2, <4>1 DEF Listed
    <3> QED BY <3>3, <3>4 DEF Listed
  <2>6. Listed \subseteq Shop!Clicks /\ k \notin Listed
    BY <1>2, <2>1, ListFacts DEF Shop!Shown
  <2>7. ListenedTo' BY <1>2, <2>1, <2>4, <2>5, <2>6 DEF TotalOK, Quiet, ListenedTo
  <2>8. Announced' BY <2>4 DEF Announced
  <2> QED BY <1>1, <1>2, <2>7, <2>8, SumsUntouched DEF Quiet
<1>7. CASE Shop!Insert(k)
  <2> DEFINE n == click[k].index
  <2>1. /\ UNCHANGED subscribed /\ click[k].op = "Add" /\ click[k].pc = "change"
        /\ click[k].item = k
    BY <1>7 DEF Shop!Insert, Shop!At, ShopInv, FormedOK
  <2>2. n = Len(products) BY <1>2, <2>1 DEF ShopInv, ChangeOK
  <2>3. /\ products' = Shop!InsertAt(products, n + 1, k)
        /\ Shop!Goto(k, "subscribe")
    BY <1>2, <1>7, <2>1 DEF Shop!Insert
  <2>4. products' = Append(products, k) BY <1>0, <2>2, <2>3, InsertLast
  <2>5. click'[k].pc = "subscribe" /\ \A j \in Shop!Clicks \ {k} : click'[j] = click[j]
    BY <1>0, <2>3, GotoValues
  <2>6. Listed' \subseteq Listed \cup {k}
    <3>1. PICK N \in Nat : N = Len(products) /\ DOMAIN products = 1..N
      BY <1>0
    <3>2. /\ DOMAIN products' = 1..N + 1 /\ products'[N + 1] = k
          /\ \A i \in 1..N : products'[i] = products[i]
      BY <1>0, <2>4, <3>1, AppendProperties
    <3>3. \A i \in 1..N + 1 : i \in 1..N \/ i = N + 1 BY <3>1
    <3> QED BY <3>1, <3>2, <3>3 DEF Listed
  <2>7. Listed \subseteq Shop!Clicks BY <1>2, ListFacts
  <2>8. ListenedTo' BY <1>2, <2>1, <2>5, <2>6, <2>7 DEF TotalOK, Quiet, ListenedTo
  <2>9. Announced' BY <2>5 DEF Announced
  <2> QED BY <1>1, <1>2, <2>8, <2>9, SumsUntouched DEF Quiet
<1> QED BY <1>3, <1>4, <1>5, <1>6, <1>7

(* The steps of a sum.  It is the only one, so if none is announced it is  *)
(* the one that will be right; prices only add to what is already too much.*)
LEMMA SumTotal ==
  ASSUME ShopInv, ShopInv', TotalOK, NEW s \in Shop!Sums,
         \/ Shop!BeginSum(s) \/ Shop!AddNext(s) \/ Shop!AddTorn(s)
         \/ Shop!SetTotalPrice(s)
  PROVE  TotalOK'
<1> SUFFICES ASSUME Quiet' PROVE TotalOK' BY DEF TotalOK
<1> DEFINE N == Len(products)
<1>0. /\ sum \in [Shop!Sums -> SumType(version)] /\ N \in Nat
      /\ DOMAIN products = 1..N /\ Shop!NoSum.pc = "none"
      /\ Shop!TypeOK
  <2>1. /\ products \in Seq(Shop!Clicks) /\ sum \in [Shop!Sums -> SumType(version)]
        /\ Shop!TypeOK
    BY ShopTypes DEF ShopInv
  <2> QED BY <2>1 DEF Shop!NoSum
<1>1. /\ UNCHANGED <<price, edited, products, version, damaged, subscribed, click>>
      /\ ~overlap /\ ~damaged
  <2>1. UNCHANGED <<price, edited, products, version, damaged, subscribed, click>>
    BY DEF Shop!BeginSum, Shop!AddNext, Shop!AddTorn, Shop!SetTotalPrice,
           Shop!uiVars, Shop!listVars
  <2>2. overlap => overlap'
    BY Zenon DEF Shop!BeginSum, Shop!AddNext, Shop!AddTorn, Shop!SetTotalPrice
  <2> QED BY <2>1, <2>2 DEF Quiet
<1>2. SumsOneByOne /\ ListenedTo /\ (Announced \/ Summed)
  BY <1>1 DEF TotalOK, Quiet
<1>3. Listed' = Listed BY <1>1 DEF Listed
<1>4. ListenedTo' BY <1>1, <1>2, <1>3 DEF ListenedTo
<1>5. Shop!Totals' = Shop!Totals /\ ListTotal' = ListTotal BY <1>1, SameTotals
<1>6. /\ Shop!Totals[0] = 0 /\ Shop!Totals[N] = ListTotal /\ ListTotal \in Nat
      /\ \A n \in 1..N : Shop!Totals[n] = Shop!Totals[n - 1] + price[products[n]]
      /\ \A n \in 0..N : Shop!Totals[n] \in 0..ListTotal
  <2>1. Shop!Totals[N] = ListTotal BY DEF ListTotal
  <2> QED BY <1>0, <2>1, TotalsGrow, Zenon
<1>7. CASE Shop!BeginSum(s)
  <2> DEFINE x == [pc |-> "summing", at |-> 1, acc |-> 0, version |-> version]
  <2>1. /\ sum' = [sum EXCEPT ![s] = x]
        /\ \A t \in Shop!Sums : sum[t] = Shop!NoSum
    BY <1>7 DEF Shop!BeginSum, Quiet
  <2>2. /\ x.pc = "summing" /\ x.at = 1 /\ x.acc = 0 /\ x.version = version
    OBVIOUS
  <2> HIDE DEF x
  <2>3. sum'[s] = x /\ \A t \in Shop!Sums \ {s} : sum'[t] = Shop!NoSum
    BY <1>0, <2>1
  <2>4. SumsOneByOne' BY <2>3 DEF SumsOneByOne
  <2>5. Summed'
    <3>1. x.at <= N + 1 /\ x.acc = Shop!Totals[x.at - 1] BY <1>0, <1>6, <2>2
    <3> QED BY <1>1, <1>5, <2>2, <2>3, <3>1 DEF Summed
  <2> QED BY <1>4, <2>4, <2>5 DEF TotalOK
<1>8. CASE Shop!AddNext(s)
  <2> DEFINE y == sum[s]
             acc == y.acc + price[products[y.at]]
             x == IF y.version # version THEN Shop!NoSum
                  ELSE IF y.at > N THEN [y EXCEPT !.pc = "writing"]
                  ELSE IF acc > MaxTotal THEN Shop!NoSum
                  ELSE [y EXCEPT !.acc = acc, !.at = @ + 1]
  <2>1. /\ sum' = [sum EXCEPT ![s] = x] /\ y.pc = "summing"
        /\ UNCHANGED <<delayed, totalPrice>>
    BY <1>8 DEF Shop!AddNext
  <2>2. /\ y.at \in Nat /\ y.at # 0 /\ y.acc \in Nat /\ y \in SumType(version)
    BY <1>0, <2>1, ShopFacts DEF ShopInv, FormedOK, SumType
  <2>3. y # Shop!NoSum /\ \A t \in Shop!Sums \ {s} : sum[t] = Shop!NoSum
    BY <1>0, <1>2, <2>1 DEF SumsOneByOne
  <2>4. sum'[s] = x /\ \A t \in Shop!Sums \ {s} : sum'[t] = Shop!NoSum
    <3> HIDE DEF x
    <3> QED BY <1>0, <2>1, <2>3
  <2>5. SumsOneByOne' BY <2>4 DEF SumsOneByOne
  <2>6. Announced' <=> Announced BY <1>1, <1>3, <2>1 DEF Announced
  <2>7. ASSUME Summed PROVE Summed'
    <3>1. /\ y.version = version /\ y.at <= N + 1 /\ y.acc = Shop!Totals[y.at - 1]
      BY <1>0, <2>1, <2>3, <2>7 DEF Summed
    <3>2. CASE y.at > N
      <4>0. y.at - 1 = N BY <1>0, <2>2, <3>1, <3>2
      <4>1. y.acc = ListTotal BY <1>6, <3>1, <4>0, Zenon
      <4>2. x = [y EXCEPT !.pc = "writing"] BY <3>1, <3>2
      <4> HIDE DEF x, y
      <4>3. x.pc = "writing" /\ x.acc = y.acc BY <2>2, <4>2 DEF SumType
      <4> QED BY <1>5, <2>4, <4>1, <4>3 DEF Summed
    <3>3. CASE ~(y.at > N)
      <4>1. y.at \in 1..N /\ y.at \in 0..N BY <1>0, <2>2, <3>3
      <4>2. acc = Shop!Totals[y.at] BY <1>6, <3>1, <4>1
      <4>3. acc \in 0..ListTotal BY <1>6, <4>1, <4>2
      <4>4. CASE acc > MaxTotal
        <5>1. x = Shop!NoSum BY <3>1, <3>3, <4>4
        <5>2. ListTotal > MaxTotal BY <1>6, <4>3, <4>4, ShopFacts
        <5>3. \A t \in Shop!Sums : sum'[t] = Shop!NoSum BY <2>4, <5>1
        <5> QED BY <1>5, <5>2, <5>3 DEF Summed
      <4>5. CASE ~(acc > MaxTotal)
        <5>1. x = [y EXCEPT !.acc = acc, !.at = @ + 1] BY <3>1, <3>3, <4>5
        <5> HIDE DEF acc, x
        <5>2. /\ x.pc = y.pc /\ x.acc = acc /\ x.at = y.at + 1
              /\ x.version = y.version
          BY <2>2, <5>1 DEF SumType
        <5>3. x.at <= N + 1 /\ x.at - 1 = y.at BY <1>0, <4>1, <5>2
        <5> HIDE DEF y
        <5> QED BY <1>1, <1>5, <2>1, <2>4, <3>1, <4>2, <5>2, <5>3 DEF Summed
      <4> QED BY <4>4, <4>5
    <3> QED BY <3>2, <3>3
  <2> QED BY <1>2, <1>4, <2>5, <2>6, <2>7 DEF TotalOK
<1>9. CASE Shop!SetTotalPrice(s)
  <2>1. /\ totalPrice' = sum[s].acc /\ sum' = [sum EXCEPT ![s] = Shop!NoSum]
        /\ sum[s].pc = "writing" /\ UNCHANGED delayed
    BY <1>9 DEF Shop!SetTotalPrice
  <2>2. sum[s] # Shop!NoSum /\ \A t \in Shop!Sums : sum'[t] = Shop!NoSum
    BY <1>0, <1>2, <2>1 DEF SumsOneByOne
  <2>3. SumsOneByOne' BY <2>2 DEF SumsOneByOne
  <2>4. Announced' <=> Announced BY <1>1, <1>3, <2>1 DEF Announced
  <2>5. ASSUME Summed PROVE Summed'
    <3>1. PICK t \in Shop!Sums : sum[t].pc \in {"summing", "writing"} /\
            (sum[t].pc = "writing" => sum[t].acc = ListTotal)
      BY <1>0, <2>2, <2>5 DEF Summed
    <3>2. t = s BY <1>0, <1>2, <2>2, <3>1 DEF SumsOneByOne
    <3> QED BY <1>5, <2>1, <2>2, <3>1, <3>2 DEF Summed
  <2> QED BY <1>2, <1>4, <2>3, <2>4, <2>5 DEF TotalOK
<1>10. CASE Shop!AddTorn(s)
  <2>1. /\ sum[s].pc = "summing" /\ Shop!Changing
        /\ \E x : sum' = [sum EXCEPT ![s] = x]
    <3>1. /\ sum[s].pc = "summing" /\ Shop!Changing
          /\ \/ sum' = [sum EXCEPT ![s] = Shop!NoSum]
             \/ \E acc \in 0..MaxTotal :
                  sum' = [sum EXCEPT ![s].pc = "writing", ![s].acc = acc]
      BY <1>1, <1>10 DEF Shop!AddTorn
    <3>2. ASSUME NEW acc \in 0..MaxTotal,
                 sum' = [sum EXCEPT ![s].pc = "writing", ![s].acc = acc]
          PROVE  sum' = [sum EXCEPT ![s] = [sum[s] EXCEPT !.pc = "writing", !.acc = acc]]
      BY <1>0, <3>2
    <3> QED BY <3>1, <3>2
  <2>2. sum[s] # Shop!NoSum BY <1>0, <2>1
  <2>3. \A t \in Shop!Sums \ {s} : sum'[t] = Shop!NoSum
    BY <1>0, <1>2, <2>1, <2>2 DEF SumsOneByOne
  <2>4. SumsOneByOne' BY <2>3 DEF SumsOneByOne
  <2>5. Announced' BY <1>1, <2>1 DEF Announced, Shop!Changing
  <2> QED BY <1>4, <2>4, <2>5 DEF TotalOK
<1> QED BY <1>7, <1>8, <1>9, <1>10

LEMMA TotalNext ==
  ShopInv /\ ShopInv' /\ TotalOK /\ [Shop!Next]_(Shop!vars) => TotalOK'
<1> SUFFICES ASSUME ShopInv, ShopInv', TotalOK, Shop!Next \/ UNCHANGED Shop!vars
             PROVE  TotalOK'
  OBVIOUS
<1>1. CASE Shop!Window BY <1>1, WindowTotal
<1>2. CASE Shop!Pool BY <1>2, ClickTotal, SumTotal DEF Shop!Pool
<1>3. CASE UNCHANGED Shop!vars
  <2>1. UNCHANGED <<price, edited, products, version, damaged, delayed, sum, totalPrice,
                    subscribed, click, overlap>>
    BY <1>3 DEF Shop!vars, Shop!uiVars, Shop!listVars, Shop!sumVars
  <2>2. Shop!Totals' = Shop!Totals BY <2>1, SameTotals
  <2>3. ListenedTo' <=> ListenedTo BY <2>1 DEF ListenedTo, Listed
  <2>4. Announced' <=> Announced BY <2>1 DEF Announced, Listed
  <2>5. Quiet' <=> Quiet BY <2>1 DEF Quiet
  <2> QED BY <2>1, <2>2, <2>3, <2>4, <2>5, SumsUntouched DEF TotalOK
<1> QED BY <1>1, <1>2, <1>3 DEF Shop!Next

(* Unless two changes or two sums overlapped, TotalPrice comes to be the    *)
(* sum of the list's prices, or that sum is above int.MaxValue: for any     *)
(* clicks, edits and prices, wherever they come in an enumeration.          *)
THEOREM TotalDoesSettle == Shop!Spec => []Shop!TotalSettles
<1>1. ShopInv /\ TotalOK => Shop!TotalSettles
  <2> SUFFICES ASSUME ShopInv, TotalOK, Shop!AtRest, Quiet
               PROVE  ListTotal = totalPrice \/ ListTotal > MaxTotal
    BY DEF Shop!TotalSettles, ListTotal, Quiet
  <2>1. Announced \/ Summed BY DEF TotalOK
  <2>2. edited \notin Listed BY ListFacts DEF Shop!AtRest, Quiet
  <2>3. ~Announced BY <2>2 DEF Announced, Shop!AtRest
  <2>4. \A s \in Shop!Sums : sum[s].pc = "none" BY DEF Shop!AtRest, Shop!NoSum
  <2> QED BY <2>1, <2>3, <2>4 DEF Summed
<1>2. Shop!Init => TotalOK BY FreshTotal DEF Shop!Init, Fresh
<1> QED BY <1>1, <1>2, ShopInit, ShopNext, TotalNext, PTL DEF Shop!Spec

(* So every sum that is made step by step is whole in the end: SumsComplete *)
(* of the shop and of Task3, each with its own specification.               *)
THEOREM SumsAreComplete == Shop!Spec /\ Threads!Spec => []SumsComplete
BY ProductIsComplete, TotalDoesSettle, PTL DEF SumsComplete
-----------------------------------------------------------------------------
(* The types of all five programs, each with its own specification.        *)
THEOREM AllTypesCorrect ==
  Spec /\ Calc!Spec /\ Crud!Spec /\ Shop!Spec /\ Threads!Spec => []AllTypeOK
BY UploadTypeCorrect, CalcTypeCorrect, RepositoryTypeCorrect, ShopTypeCorrect,
   ThreadsTypeCorrect, PTL
DEF AllTypeOK
=============================================================================
