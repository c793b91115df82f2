---------------------------- MODULE BdRingProofs ----------------------------
(***************************************************************************)
(* For every ring size, channel kind and set of windows: the groups of the *)
(* BD ring stay adjacent and account for every BD, the ring implements the *)
(* pipeline of BdPipeline, and what reaches the post-work group is whole.  *)
(* SeekAhead is only ever applied with at most N BDs, so that its one      *)
(* subtraction is the whole modulus and two seeks compose; GroupLayout is  *)
(* inductive because of it.  With the windows shut, and the current BD     *)
(* saved by a reset: BDs complete in order and the engine works on pending *)
(* BDs of the work group only, which OrderInv below strengthens.           *)
(***************************************************************************)
EXTENDS BdRing, Sequences, FiniteSetTheorems, TLAPS

(* A seek over at most N BDs stays in the ring. *)
LEMMA SeekAheadInRing ==
  ASSUME NEW b \in Bd, NEW n \in 0 .. N
  PROVE  SeekAhead(b, n) \in Bd
BY BdRingAssumption DEF Bd, SeekAhead

(* A seek over m and then n BDs, no more than N in all, is one over m + n. *)
LEMMA SeekAheadComposes ==
  ASSUME NEW b \in Bd, NEW m \in 0 .. N, NEW n \in 0 .. N, m + n <= N
  PROVE  SeekAhead(SeekAhead(b, m), n) = SeekAhead(b, m + n)
BY BdRingAssumption DEF Bd, SeekAhead

(* Of c BDs from b on, one that comes after the first r. *)
LEMMA SeekOn ==
  ASSUME NEW b \in Bd, NEW c \in 0 .. N, NEW r \in 0 .. c, NEW j \in 0 .. c - r - 1
  PROVE  SeekAhead(SeekAhead(b, r), j) = SeekAhead(b, j + r)
BY BdRingAssumption DEF Bd, SeekAhead

(* XAXIDMA_RING_SEEKBACK undoes XAXIDMA_RING_SEEKAHEAD. *)
LEMMA SeekBackUndoes ==
  ASSUME NEW b \in Bd, NEW n \in 0 .. N
  PROVE  /\ SeekBack(b, n) \in Bd
         /\ SeekBack(SeekAhead(b, n), n) = b
BY BdRingAssumption DEF Bd, SeekAhead, SeekBack

LEMMA BdRingNextInRing ==
  ASSUME NEW b \in Bd
  PROVE  BdRingNext(b) \in Bd
BY BdRingAssumption DEF Bd, BdRingNext
-----------------------------------------------------------------------------
LEMMA InitStateType == Init => StateType
<1> SUFFICES ASSUME Init PROVE StateType
  OBVIOUS
<1>1. RingType
  BY BdRingAssumption DEF Init, RingType, Bd
<1>2. BdsType
  BY DEF Init, BdsType
<1>3. SoftType
  <2>1. 0 \in Bd
    BY BdRingAssumption DEF Bd
  <2> QED  BY <2>1 DEF Init, SoftType
<1>4. EngineType
  BY DEF Init, EngineType
<1> QED  BY <1>1, <1>2, <1>3, <1>4 DEF StateType

(* Each of the ways to leave StartRing keeps the types. *)
LEMMA StartRingType ==
  ASSUME StateType, NEW more \in BOOLEAN, StartRing(more)
  PROVE  StateType'
<1>0. UNCHANGED <<ring, bds, bdaRestart, err, active, tdesc>>
  BY DEF StartRing
<1>1. RingType' /\ BdsType'
  BY <1>0 DEF StateType, RingType, BdsType, ring, heads, counts, bds, Bd
<1>2. ASSUME Returned(more) \/ Returned(FALSE)
      PROVE  pc' \in {"ready", "again"} /\ again' \in BOOLEAN
  BY <1>2 DEF Returned
<1>3. CASE UpdateBdRingCDesc /\ StartBdRingHw(more)
  <2>1. cdesc' \in Bd \cup {NoBd} /\ hwNext' \in Bd \cup {NoBd}
    BY <1>3 DEF UpdateBdRingCDesc, StateType, EngineType
  <2>2. halted' \in BOOLEAN /\ runState' \in {"HALTED", "NOT_HALTED"}
    BY <1>3 DEF StartBdRingHw, StateType, EngineType, SoftType
  <2>3. pc' \in {"ready", "again", "kick"} /\ again' \in BOOLEAN
    BY <1>2, <1>3 DEF StartBdRingHw
  <2> QED  BY <1>0, <1>1, <2>1, <2>2, <2>3 DEF StateType, SoftType, EngineType, Bd
<1>4. CASE ~(UpdateBdRingCDesc /\ StartBdRingHw(more))
  <2>1. Returned(FALSE) /\ UNCHANGED <<cdesc, hwNext, halted, runState>>
    BY <1>4 DEF StartRing
  <2> QED  BY <1>0, <1>1, <1>2, <2>1 DEF StateType, SoftType, EngineType, Bd
<1> QED  BY <1>3, <1>4

(* The steps that leave the groups alone. *)
LEMMA QuietSteps ==
  ASSUME StateType, UNCHANGED ring, BdsType', SoftType', EngineType'
  PROVE  StateType' /\ (GroupLayout => GroupLayout')
BY DEF StateType, RingType, GroupLayout, ring, heads, counts, Bd, SeekAhead

-----------------------------------------------------------------------------
(* One lemma for each call that moves BDs between groups. *)
LEMMA CreateLayout ==
  ASSUME StateType, GroupLayout, BdRingCreate
  PROVE  StateType' /\ GroupLayout'
<1>1. RingType' /\ GroupLayout'
  BY BdRingAssumption DEF BdRingCreate, RingType, GroupLayout, Bd, SeekAhead
<1>2. BdsType'
  BY DEF BdRingCreate, BdsType
<1>3. 0 \in Bd
  BY BdRingAssumption DEF Bd
<1>4. SoftType'
  BY <1>3 DEF BdRingCreate, StateType, SoftType
<1>5. EngineType'
  BY DEF BdRingCreate, StateType, EngineType, engine, Bd
<1> QED  BY <1>1, <1>2, <1>4, <1>5 DEF StateType

LEMMA AllocLayout ==
  ASSUME StateType, GroupLayout, NEW n \in 1 .. N, BdRingAlloc(n)
  PROVE  StateType' /\ GroupLayout'
<1>1. RingType' /\ GroupLayout'
  BY BdRingAssumption DEF BdRingAlloc, StateType, RingType, GroupLayout, Bd, SeekAhead
<1> QED
  BY <1>1 DEF BdRingAlloc, StateType, BdsType, SoftType, EngineType, bds, soft, engine, Bd

LEMMA UnAllocLayout ==
  ASSUME StateType, GroupLayout, NEW n \in 1 .. N, NEW b \in Bd, BdRingUnAlloc(n, b)
  PROVE  StateType' /\ GroupLayout'
<1>1. RingType' /\ GroupLayout'
  BY BdRingAssumption
  DEF BdRingUnAlloc, StateType, RingType, GroupLayout, Bd, SeekAhead, SeekBack
<1> QED
  BY <1>1 DEF BdRingUnAlloc, StateType, BdsType, SoftType, EngineType, bds, soft, engine, Bd

LEMMA ToHwLayout ==
  ASSUME StateType, GroupLayout,
         NEW n \in 1 .. N, NEW b \in Bd, NEW sof, NEW eofs \in SUBSET Bd, NEW empty,
         BdRingToHw(n, b, sof, eofs, empty)
  PROVE  StateType' /\ GroupLayout'
<1>1. RingType' /\ GroupLayout'
  BY BdRingAssumption DEF BdRingToHw, StateType, RingType, GroupLayout, Bd, SeekAhead
<1>2. BdsType'
  <2>1. cmplt' \in [Bd -> BOOLEAN]
    BY DEF BdRingToHw
  <2>2. \A c \in Bd : eof[c] \in BOOLEAN /\ (c \in eofs) \in BOOLEAN
    BY DEF StateType, BdsType
  <2>3. eof' \in [Bd -> BOOLEAN]
    BY <2>2 DEF BdRingToHw
  <2> QED  BY <2>1, <2>3 DEF BdsType
<1>3. EngineType'
  <2>1. UNCHANGED <<halted, err, cdesc, hwNext>>
    BY DEF BdRingToHw
  <2>2. tdesc' \in Bd \cup {NoBd} /\ active' \in BOOLEAN
    BY <1>1 DEF BdRingToHw, WriteTDesc, StateType, RingType, EngineType, Bd
  <2> QED  BY <2>1, <2>2 DEF StateType, EngineType, Bd
<1> QED
  BY <1>1, <1>2, <1>3 DEF BdRingToHw, StateType, SoftType, soft, Bd

LEMMA FromHwLayout ==
  ASSUME StateType, GroupLayout,
         NEW limit \in 1 .. N, NEW k \in 0 .. N, NEW r \in 0 .. N,
         BdRingFromHw(limit, k, r)
  PROVE  StateType' /\ GroupLayout'
<1>1. r <= hwCnt
  BY BdRingAssumption DEF BdRingFromHw, ScanStops, WholePackets, StateType, RingType
<1>2. RingType' /\ GroupLayout'
  BY <1>1, BdRingAssumption
  DEF BdRingFromHw, StateType, RingType, GroupLayout, Bd, SeekAhead
<1> QED
  BY <1>2 DEF BdRingFromHw, StateType, BdsType, SoftType, EngineType, bds, soft, engine, Bd

LEMMA FreeLayout ==
  ASSUME StateType, GroupLayout, NEW n \in 1 .. N, NEW b \in Bd, BdRingFree(n, b)
  PROVE  StateType' /\ GroupLayout'
<1>1. RingType' /\ GroupLayout'
  BY BdRingAssumption DEF BdRingFree, StateType, RingType, GroupLayout, Bd, SeekAhead
<1> QED
  BY <1>1 DEF BdRingFree, StateType, BdsType, SoftType, EngineType, bds, soft, engine, Bd
-----------------------------------------------------------------------------
(* The remaining steps leave the groups alone and keep the types. *)
LEMMA OtherSteps ==
  ASSUME StateType,
         \/ \E templateEof \in BOOLEAN : BdRingClone(templateEof)
         \/ \E n \in 1 .. N, b \in Bd, k \in 0 .. N : BdRingToHwRejected(n, b, k)
         \/ StartBdRingHwTail \/ Pause \/ ResetSnapShot \/ ResetWrite
         \/ (\E last \in BOOLEAN : HwComplete(last)) \/ HwError
         \/ UNCHANGED vars
  PROVE  UNCHANGED ring /\ BdsType' /\ SoftType' /\ EngineType'
<1> USE DEF StateType
<1>1. CASE \E templateEof \in BOOLEAN : BdRingClone(templateEof)
  BY <1>1 DEF BdRingClone, BdsType, SoftType, EngineType, soft, engine, Bd
<1>2. CASE \E n \in 1 .. N, b \in Bd, k \in 0 .. N : BdRingToHwRejected(n, b, k)
  <2>1. PICK n \in 1 .. N, b \in Bd, k \in 0 .. N : BdRingToHwRejected(n, b, k)
    BY <1>2
  <2>2. BdsType'
    BY <2>1 DEF BdRingToHwRejected, BdsType
  <2> QED  BY <2>1, <2>2 DEF BdRingToHwRejected, SoftType, EngineType, soft, engine, Bd
<1>3. CASE StartBdRingHwTail
  <2>1. pc' \in {"ready", "again"} /\ again' \in BOOLEAN
    BY <1>3 DEF StartBdRingHwTail, Returned
  <2>2. tdesc' \in Bd \cup {NoBd} /\ active' \in BOOLEAN
    BY <1>3 DEF StartBdRingHwTail, WriteTDesc, RingType, EngineType
  <2> QED  BY <1>3, <2>1, <2>2 DEF StartBdRingHwTail, BdsType, SoftType, EngineType, bds, Bd
<1>4. CASE Pause
  BY <1>4 DEF Pause, BdsType, SoftType, EngineType, bds, engine, Bd
<1>5. CASE ResetSnapShot
  BY <1>5 DEF ResetSnapShot, BdsType, SoftType, EngineType, bds, engine, Bd
<1>6. CASE ResetWrite
  BY <1>6 DEF ResetWrite, BdsType, SoftType, EngineType, bds, Bd
<1>7. CASE \E last \in BOOLEAN : HwComplete(last)
  <2>1. PICK last \in BOOLEAN : HwComplete(last)
    BY <1>7
  <2>2. hwNext \in Bd
    BY <2>1 DEF HwComplete, EngineType
  <2>3. BdRingNext(hwNext) \in Bd
    BY <2>2, BdRingNextInRing
  <2>4. BdsType'
    BY <2>1 DEF HwComplete, BdsType
  <2>5. EngineType'
    BY <2>1, <2>2, <2>3 DEF HwComplete, EngineType, Bd
  <2> QED  BY <2>1, <2>4, <2>5 DEF HwComplete, SoftType, soft, Bd
<1>8. CASE HwError
  BY <1>8 DEF HwError, BdsType, SoftType, EngineType, bds, soft, Bd
<1>9. CASE UNCHANGED vars
  BY <1>9 DEF vars, BdsType, SoftType, EngineType, bds, soft, engine, Bd
<1> QED  BY <1>1, <1>2, <1>3, <1>4, <1>5, <1>6, <1>7, <1>8, <1>9

LEMMA StepKeepsLayout ==
  ASSUME StateType, GroupLayout, [Next]_vars
  PROVE  StateType' /\ GroupLayout'
<1>1. CASE BdRingCreate
  BY <1>1, CreateLayout
<1>2. CASE \E n \in 1 .. N : BdRingAlloc(n)
  BY <1>2, AllocLayout
<1>3. CASE \E n \in 1 .. N, b \in Bd : BdRingUnAlloc(n, b)
  BY <1>3, UnAllocLayout
<1>4. CASE \E n \in 1 .. N, b \in Bd, sof \in BOOLEAN, eofs, empty \in SUBSET Bd :
             BdRingToHw(n, b, sof, eofs, empty)
  BY <1>4, ToHwLayout
<1>5. CASE \E limit \in 1 .. N, k, r \in 0 .. N : BdRingFromHw(limit, k, r)
  BY <1>5, FromHwLayout
<1>6. CASE \E n \in 1 .. N, b \in Bd : BdRingFree(n, b)
  BY <1>6, FreeLayout
<1>7. CASE BdRingStart \/ Resume \/ ResumeAgain
  <2>1. PICK more \in BOOLEAN : StartRing(more)
    BY <1>7 DEF BdRingStart, Resume, ResumeAgain, StateType, EngineType
  <2>2. StateType'
    BY <2>1, StartRingType
  <2>3. UNCHANGED ring
    BY <2>1 DEF StartRing
  <2> QED  BY <2>2, <2>3, QuietSteps DEF StateType
<1>8. CASE ~( \/ BdRingCreate \/ BdRingStart \/ Resume \/ ResumeAgain
              \/ \E n \in 1 .. N : BdRingAlloc(n)
              \/ \E n \in 1 .. N, b \in Bd : BdRingUnAlloc(n, b)
              \/ \E n \in 1 .. N, b \in Bd, sof \in BOOLEAN, eofs, empty \in SUBSET Bd :
                    BdRingToHw(n, b, sof, eofs, empty)
              \/ \E limit \in 1 .. N, k, r \in 0 .. N : BdRingFromHw(limit, k, r)
              \/ \E n \in 1 .. N, b \in Bd : BdRingFree(n, b))
  BY <1>8, OtherSteps, QuietSteps DEF Next
<1> QED  BY <1>1, <1>2, <1>3, <1>4, <1>5, <1>6, <1>7, <1>8

LEMMA InitLayout == Init => GroupLayout
BY BdRingAssumption DEF Init, GroupLayout, SeekAhead

(* A ring stays a transmit or a receive ring. *)
LEMMA KindStays == [Next]_vars => UNCHANGED isRx
<1>1. CASE \/ BdRingCreate \/ \E templateEof \in BOOLEAN : BdRingClone(templateEof)
           \/ \E n \in 1 .. N : BdRingAlloc(n)
           \/ \E n \in 1 .. N, b \in Bd : BdRingUnAlloc(n, b) \/ BdRingFree(n, b)
  BY <1>1 DEF BdRingCreate, BdRingClone, BdRingAlloc, BdRingUnAlloc, BdRingFree
<1>2. CASE \E n \in 1 .. N, b \in Bd, sof \in BOOLEAN, eofs, empty \in SUBSET Bd :
             BdRingToHw(n, b, sof, eofs, empty)
  BY <1>2 DEF BdRingToHw
<1>3. CASE \/ \E n \in 1 .. N, b \in Bd, k \in 0 .. N : BdRingToHwRejected(n, b, k)
           \/ \E limit \in 1 .. N, k, r \in 0 .. N : BdRingFromHw(limit, k, r)
  BY <1>3 DEF BdRingToHwRejected, BdRingFromHw
<1>4. CASE BdRingStart \/ Resume \/ ResumeAgain
  BY <1>4 DEF BdRingStart, Resume, ResumeAgain, StartRing
<1>5. CASE \/ StartBdRingHwTail \/ Pause \/ ResetSnapShot \/ ResetWrite
           \/ (\E last \in BOOLEAN : HwComplete(last)) \/ HwError \/ UNCHANGED vars
  BY <1>5 DEF StartBdRingHwTail, Pause, ResetSnapShot, ResetWrite, HwComplete, HwError, vars
<1> QED  BY <1>1, <1>2, <1>3, <1>4, <1>5 DEF Next

(* The types of the ring's pointers and counters: what XAxiDma_BdRingCheck *)
(* tests, that every head points into the ring, holds after every call.    *)
THEOREM BdRingTypeCorrect == Spec => []TypeOK
<1>1. Init => TypeOK /\ GroupLayout
  BY InitStateType, InitLayout DEF Init, TypeOK
<1>2. TypeOK /\ GroupLayout /\ [Next]_vars => (TypeOK /\ GroupLayout)'
  BY StepKeepsLayout, KindStays DEF TypeOK
<1> QED  BY <1>1, <1>2, PTL DEF Spec

(* The four groups partition the ring, in order and without a gap, however *)
(* the application calls the driver and whatever the engine does: no size  *)
(* of the ring, no window of Hazards breaks it.                            *)
THEOREM BdRingGroups == Spec => []GroupLayout
<1>1. Init => StateType /\ GroupLayout
  BY InitStateType, InitLayout
<1>2. StateType /\ GroupLayout /\ [Next]_vars => (StateType /\ GroupLayout)'
  BY StepKeepsLayout
<1> QED  BY <1>1, <1>2, PTL DEF Spec

(* XAxiDma_BdRingCheck, whose error tells the application to throw the     *)
(* ring away, never finds one in a ring below 4 GB that is not running,    *)
(* whatever has been called, rejected or interrupted by an error before;   *)
(* of a ring that lies higher it says so of every such state.              *)
THEOREM BdRingCheckPasses ==
  Spec => [](runState = "HALTED" => /\ BdRingCheck({}) = "SUCCESS"
                                    /\ BdRingCheck(Bd) = "SG_LIST_ERROR")
<1>1. TypeOK /\ GroupLayout => (runState = "HALTED" => /\ BdRingCheck({}) = "SUCCESS"
                                                      /\ BdRingCheck(Bd) = "SG_LIST_ERROR")
  <2> SUFFICES ASSUME TypeOK, GroupLayout, runState = "HALTED"
               PROVE  /\ BdRingCheck({}) = "SUCCESS"
                      /\ BdRingCheck(Bd) = "SG_LIST_ERROR"
    OBVIOUS
  <2>1. HeadsInRing({}) /\ ~HeadsInRing(Bd)
    BY DEF TypeOK, StateType, RingType, HeadsInRing
  <2>2. CountersAddUp
    BY DEF TypeOK, StateType, RingType, GroupLayout, CountersAddUp
  <2> QED  BY <2>1, <2>2 DEF BdRingCheck
<1> QED  BY <1>1, BdRingTypeCorrect, BdRingGroups, PTL
-----------------------------------------------------------------------------
(* What the post-work group holds. *)

(* Two seeks from one BD that meet have gone equally far.                  *)
LEMMA SeekInjective ==
  ASSUME NEW b \in Bd, NEW m \in 0 .. N - 1, NEW n \in 0 .. N - 1,
         SeekAhead(b, m) = SeekAhead(b, n)
  PROVE  m = n
BY BdRingAssumption DEF Bd, SeekAhead

(* The BDs of the pre-work group are neither in the work nor in the        *)
(* post-work group.                                                        *)
LEMMA PreApart ==
  ASSUME StateType, GroupLayout, NEW i \in 0 .. preCnt - 1
  PROVE  /\ \A j \in 0 .. postCnt - 1 : SeekAhead(preHead, i) # SeekAhead(postHead, j)
         /\ \A j \in 0 .. hwCnt - 1 : SeekAhead(preHead, i) # SeekAhead(hwHead, j)
<1>1. /\ N \in Nat \ {0} /\ postHead \in Bd /\ hwHead \in Bd
      /\ postCnt \in Nat /\ hwCnt \in Nat /\ preCnt \in Nat
      /\ postCnt + hwCnt + preCnt <= N
  BY BdRingAssumption DEF StateType, RingType, GroupLayout
<1>2. SeekAhead(preHead, i) = SeekAhead(hwHead, hwCnt + i)
  BY <1>1, SeekAheadComposes DEF GroupLayout
<1>3. SeekAhead(hwHead, hwCnt + i) = SeekAhead(postHead, postCnt + (hwCnt + i))
  BY <1>1, SeekAheadComposes DEF GroupLayout
<1>4. \A j \in 0 .. postCnt - 1 : SeekAhead(preHead, i) # SeekAhead(postHead, j)
  <2>1. SUFFICES ASSUME NEW j \in 0 .. postCnt - 1,
                        SeekAhead(preHead, i) = SeekAhead(postHead, j)
                 PROVE  FALSE
    OBVIOUS
  <2>2. j \in 0 .. N - 1 /\ postCnt + (hwCnt + i) \in 0 .. N - 1
    BY <1>1
  <2>3. postCnt + (hwCnt + i) = j
    BY <1>1, <1>2, <1>3, <2>1, <2>2, SeekInjective
  <2> QED  BY <1>1, <2>3
<1>5. \A j \in 0 .. hwCnt - 1 : SeekAhead(preHead, i) # SeekAhead(hwHead, j)
  <2>1. SUFFICES ASSUME NEW j \in 0 .. hwCnt - 1,
                        SeekAhead(preHead, i) = SeekAhead(hwHead, j)
                 PROVE  FALSE
    OBVIOUS
  <2>2. j \in 0 .. N - 1 /\ hwCnt + i \in 0 .. N - 1
    BY <1>1
  <2>3. hwCnt + i = j
    BY <1>1, <1>2, <2>1, <2>2, SeekInjective
  <2> QED  BY <1>1, <2>3
<1> QED  BY <1>4, <1>5

(* Steps that leave the group, and of its BDs both bits that are set.      *)
LEMMA QuietPostWork ==
  ASSUME PostWorkIsWhole, UNCHANGED <<postHead, postCnt>>,
         StateType,
         \A j \in 0 .. postCnt - 1 : 
           LET b == SeekAhead(postHead, j)
           IN  (cmplt[b] => cmplt'[b]) /\ (cmplt[b] /\ eof[b] => eof'[b])
  PROVE  PostWorkIsWhole'
<1>1. postCnt > 0 => postCnt - 1 \in 0 .. postCnt - 1
  BY BdRingAssumption DEF StateType, RingType
<1> QED  BY <1>1 DEF PostWorkIsWhole

(* XAxiDma_BdRingToHw writes to BDs of the pre-work group only.            *)
LEMMA ToHwPostWork ==
  ASSUME StateType, GroupLayout, PostWorkIsWhole,
         NEW n \in 1 .. N, NEW b \in Bd, NEW sof, NEW eofs, NEW empty,
         BdRingToHw(n, b, sof, eofs, empty)
  PROVE  PostWorkIsWhole'
<1>1. b = preHead /\ n <= preCnt /\ UNCHANGED <<postHead, postCnt>>
  BY DEF BdRingToHw
<1>2. \A j \in 0 .. postCnt - 1, i \in 0 .. n - 1 : SeekAhead(b, i) # SeekAhead(postHead, j)
  <2>1. \A i \in 0 .. n - 1 : i \in 0 .. preCnt - 1
    BY <1>1 DEF StateType, RingType
  <2> QED  BY <1>1, <2>1, PreApart
<1>3. \A j \in 0 .. postCnt - 1 : SeekAhead(postHead, j) \in Bd
  BY SeekAheadInRing, BdRingAssumption DEF StateType, RingType
<1>4. ASSUME NEW j \in 0 .. postCnt - 1
      PROVE  LET c == SeekAhead(postHead, j)
             IN  (cmplt[c] => cmplt'[c]) /\ (eof[c] => eof'[c])
  BY <1>2, <1>3 DEF BdRingToHw
<1> QED  BY <1>1, <1>4, QuietPostWork

LEMMA RejectedPostWork ==
  ASSUME StateType, GroupLayout, PostWorkIsWhole,
         NEW n \in 1 .. N, NEW b \in Bd, NEW k \in 0 .. N, BdRingToHwRejected(n, b, k)
  PROVE  PostWorkIsWhole'
<1>1. b = preHead /\ k <= preCnt /\ UNCHANGED <<postHead, postCnt, eof>>
  BY DEF BdRingToHwRejected, StateType, RingType, ring, heads, counts
<1>2. \A j \in 0 .. postCnt - 1, i \in 0 .. k - 1 : SeekAhead(b, i) # SeekAhead(postHead, j)
  <2>1. \A i \in 0 .. k - 1 : i \in 0 .. preCnt - 1
    BY <1>1 DEF StateType, RingType
  <2> QED  BY <1>1, <2>1, PreApart
<1>3. \A j \in 0 .. postCnt - 1 : SeekAhead(postHead, j) \in Bd
  BY SeekAheadInRing, BdRingAssumption DEF StateType, RingType
<1>4. \A j \in 0 .. postCnt - 1 :
        cmplt[SeekAhead(postHead, j)] => cmplt'[SeekAhead(postHead, j)]
  BY <1>2, <1>3 DEF BdRingToHwRejected
<1> QED  BY <1>1, <1>4, QuietPostWork

(* The engine writes to a BD that is not completed, so to none of these.   *)
LEMMA HwCompletePostWork ==
  ASSUME StateType, GroupLayout, PostWorkIsWhole, NEW last \in BOOLEAN, HwComplete(last)
  PROVE  PostWorkIsWhole'
<1>1. UNCHANGED <<postHead, postCnt>> /\ ~cmplt[hwNext]
  BY DEF HwComplete, ring, heads, counts
<1>2. ASSUME NEW j \in 0 .. postCnt - 1
      PROVE  LET c == SeekAhead(postHead, j)
             IN  (cmplt[c] => cmplt'[c]) /\ (cmplt[c] /\ eof[c] => eof'[c])
  BY <1>1 DEF HwComplete, StateType, BdsType
<1> QED  BY <1>1, <1>2, QuietPostWork

(* What XAxiDma_BdRingFromHw adds is completed and ends a packet.          *)
LEMMA FromHwPostWork ==
  ASSUME StateType, GroupLayout, PostWorkIsWhole,
         NEW limit \in 1 .. N, NEW k \in 0 .. N, NEW r \in 0 .. N,
         BdRingFromHw(limit, k, r)
  PROVE  PostWorkIsWhole'
<1>1. /\ r > 0 /\ r <= k /\ k <= hwCnt /\ eof[SeekAhead(hwHead, r - 1)]
      /\ \A j \in 0 .. k - 1 : cmplt[SeekAhead(hwHead, j)]
      /\ postCnt' = postCnt + r /\ UNCHANGED <<postHead, cmplt, eof>>
  BY DEF BdRingFromHw, ScanStops, WholePackets, bds
<1>2. /\ N \in Nat \ {0} /\ postHead \in Bd /\ postCnt \in Nat /\ hwCnt \in Nat
      /\ postCnt + hwCnt <= N
  BY BdRingAssumption DEF StateType, RingType, GroupLayout
<1>3. ASSUME NEW j \in 0 .. r - 1
      PROVE  SeekAhead(postHead, postCnt + j) = SeekAhead(hwHead, j)
  BY <1>1, <1>2, SeekAheadComposes DEF GroupLayout
<1>4. eof[SeekAhead(postHead, postCnt' - 1)]
  <2>1. r - 1 \in 0 .. r - 1 /\ postCnt' - 1 = postCnt + (r - 1)
    BY <1>1, <1>2
  <2> QED  BY <1>1, <1>3, <2>1
<1>5. ASSUME NEW j \in 0 .. postCnt' - 1 PROVE cmplt[SeekAhead(postHead, j)]
  <2>1. CASE j < postCnt
    BY <1>2, <2>1 DEF PostWorkIsWhole
  <2>2. CASE j >= postCnt
    <3>1. /\ j - postCnt \in 0 .. r - 1 /\ j - postCnt \in 0 .. k - 1
          /\ postCnt + (j - postCnt) = j
      BY <1>1, <1>2, <2>2
    <3> QED  BY <1>1, <1>3, <3>1
  <2> QED  BY <1>2, <2>1, <2>2
<1> QED  BY <1>1, <1>4, <1>5 DEF PostWorkIsWhole

(* XAxiDma_BdRingFree takes BDs off the head.                              *)
LEMMA FreePostWork ==
  ASSUME StateType, GroupLayout, PostWorkIsWhole,
         NEW n \in 1 .. N, NEW b \in Bd, BdRingFree(n, b)
  PROVE  PostWorkIsWhole'
<1>1. /\ n <= postCnt /\ postCnt' = postCnt - n /\ postHead' = SeekAhead(postHead, n)
      /\ UNCHANGED <<cmplt, eof>>
  BY DEF BdRingFree, bds
<1>2. N \in Nat \ {0} /\ postHead \in Bd /\ postCnt \in 0 .. N
  BY BdRingAssumption DEF StateType, RingType
<1>3. ASSUME NEW j \in 0 .. postCnt' - 1
      PROVE  /\ SeekAhead(postHead', j) = SeekAhead(postHead, n + j)
             /\ n + j \in 0 .. postCnt - 1
  BY <1>1, <1>2, SeekAheadComposes
<1>4. postCnt' > 0 => postCnt' - 1 \in 0 .. postCnt' - 1 /\ n + (postCnt' - 1) = postCnt - 1
  BY <1>1, <1>2
<1> QED  BY <1>1, <1>2, <1>3, <1>4 DEF PostWorkIsWhole

LEMMA StepKeepsPostWork ==
  ASSUME StateType, GroupLayout, PostWorkIsWhole, [Next]_vars
  PROVE  PostWorkIsWhole'
<1>1. CASE BdRingCreate
  BY <1>1 DEF BdRingCreate, PostWorkIsWhole
<1>2. CASE \E templateEof \in BOOLEAN : BdRingClone(templateEof)
  <2>1. freeCnt = N /\ postCnt' = postCnt
    BY <1>2 DEF BdRingClone, ring, counts
  <2>2. ~(postCnt' > 0)
    BY <2>1, BdRingAssumption DEF StateType, RingType, GroupLayout
  <2> QED  BY <2>2 DEF PostWorkIsWhole
<1>3. CASE \E n \in 1 .. N, b \in Bd, sof \in BOOLEAN, eofs, empty \in SUBSET Bd :
             BdRingToHw(n, b, sof, eofs, empty)
  BY <1>3, ToHwPostWork
<1>4. CASE \E n \in 1 .. N, b \in Bd, k \in 0 .. N : BdRingToHwRejected(n, b, k)
  BY <1>4, RejectedPostWork
<1>5. CASE \E limit \in 1 .. N, k, r \in 0 .. N : BdRingFromHw(limit, k, r)
  BY <1>5, FromHwPostWork
<1>6. CASE \E n \in 1 .. N, b \in Bd : BdRingFree(n, b)
  BY <1>6, FreePostWork
<1>7. CASE \E last \in BOOLEAN : HwComplete(last)
  BY <1>7, HwCompletePostWork
<1>8. CASE \/ \E n \in 1 .. N : BdRingAlloc(n)
           \/ \E n \in 1 .. N, b \in Bd : BdRingUnAlloc(n, b)
           \/ BdRingStart \/ Resume \/ ResumeAgain \/ StartBdRingHwTail \/ Pause
           \/ ResetSnapShot \/ ResetWrite \/ HwError \/ UNCHANGED vars
  <2>1. UNCHANGED <<postHead, postCnt, cmplt, eof>>
    BY <1>8 DEF BdRingAlloc, BdRingUnAlloc, BdRingStart, Resume, ResumeAgain, StartRing,
                StartBdRingHwTail, Pause, ResetSnapShot, ResetWrite, HwError,
                vars, ring, heads, counts, bds
  <2> QED  BY <2>1 DEF PostWorkIsWhole
<1> QED  BY <1>1, <1>2, <1>3, <1>4, <1>5, <1>6, <1>7, <1>8 DEF Next

(* Whatever the calls, their order and the windows left open:              *)
(* XAxiDma_BdRingFromHw has handed out completed BDs and whole packets     *)
(* only, and nothing takes a COMPLETE bit or an end of packet back from a  *)
(* BD of the post-work group before XAxiDma_BdRingFree.                    *)
THEOREM BdRingPostWork == Spec => []PostWorkIsWhole
<1>1. Init => StateType /\ GroupLayout /\ PostWorkIsWhole
  BY InitStateType, InitLayout DEF Init, PostWorkIsWhole
<1>2. StateType /\ GroupLayout /\ PostWorkIsWhole /\ [Next]_vars
        => (StateType /\ GroupLayout /\ PostWorkIsWhole)'
  BY StepKeepsLayout, StepKeepsPostWork
<1> QED  BY <1>1, <1>2, PTL DEF Spec

-----------------------------------------------------------------------------
(* The refinement of BdPipeline: a group, as a sequence of BDs, is cut and *)
(* joined where SeekAhead points.                                          *)

(* The BDs of a group in their order.                                      *)
LEMMA GroupIsSequence ==
  ASSUME NEW h \in Bd, NEW n \in 0 .. N
  PROVE  Group(h, n) \in Seq(Bd) /\ Len(Group(h, n)) = n
<1>1. \A i \in 1 .. n : SeekAhead(h, i - 1) \in Bd
  BY SeekAheadInRing, BdRingAssumption
<1> QED  BY <1>1 DEF Group

LEMMA JoinedSequence ==
  ASSUME NEW s \in Seq(Bd), NEW t \in Seq(Bd)
  PROVE  s \o t \in Seq(Bd) /\ Len(s \o t) = Len(s) + Len(t)
OBVIOUS

LEMMA SameSequence ==
  ASSUME NEW s \in Seq(Bd), NEW t \in Seq(Bd), NEW n, Len(s) = n, Len(t) = n,
         \A i \in 1 .. n : s[i] = t[i]
  PROVE  s = t
OBVIOUS

(* Two groups that follow one another are one, and one group is cut in two *)
(* at the BD that SeekAhead names.                                         *)
LEMMA GroupSplits ==
  ASSUME NEW h \in Bd, NEW m \in 0 .. N, NEW n \in 0 .. N, m + n <= N
  PROVE  /\ Group(h, m + n) = Group(h, m) \o Group(SeekAhead(h, m), n)
         /\ Pipeline!First(Group(h, m + n), m) = Group(h, m)
         /\ Pipeline!Rest(Group(h, m + n), m) = Group(SeekAhead(h, m), n)
<1> DEFINE k == SeekAhead(h, m)
           g == Group(h, m + n)
<1>1. k \in Bd /\ m + n \in 0 .. N
  BY SeekAheadInRing, BdRingAssumption
<1>2. /\ Group(h, m) \in Seq(Bd) /\ Len(Group(h, m)) = m
      /\ Group(k, n) \in Seq(Bd) /\ Len(Group(k, n)) = n
      /\ g \in Seq(Bd) /\ Len(g) = m + n
  BY <1>1, GroupIsSequence
<1>3. \A i \in 1 .. m + n : g[i] = SeekAhead(h, i - 1)
  BY DEF Group
<1>4. \A i \in 1 .. m : Group(h, m)[i] = SeekAhead(h, i - 1)
  BY DEF Group
<1>5. \A i \in 1 .. n : Group(k, n)[i] = SeekAhead(h, m + i - 1)
  <2>1. \A i \in 1 .. n : SeekAhead(k, i - 1) = SeekAhead(h, m + (i - 1))
    BY SeekAheadComposes, BdRingAssumption
  <2> QED  BY <2>1 DEF Group
<1> HIDE DEF k, g
<1>6. g = Group(h, m) \o Group(k, n)
  <2>1. /\ Group(h, m) \o Group(k, n) \in Seq(Bd)
        /\ Len(Group(h, m) \o Group(k, n)) = m + n
    <3>1. /\ Group(h, m) \o Group(k, n) \in Seq(Bd)
          /\ Len(Group(h, m) \o Group(k, n)) = Len(Group(h, m)) + Len(Group(k, n))
      BY <1>2, JoinedSequence
    <3> QED  BY <1>2, <3>1
  <2>2. ASSUME NEW i \in 1 .. m + n PROVE g[i] = (Group(h, m) \o Group(k, n))[i]
    <3>1. CASE i <= m
      BY <1>2, <1>3, <1>4, <3>1
    <3>2. CASE ~(i <= m)
      <4>1. i - m \in 1 .. n /\ m + (i - m) - 1 = i - 1 /\ i > m
        BY <3>2, BdRingAssumption
      <4>2. (Group(h, m) \o Group(k, n))[i] = Group(k, n)[i - m]
        BY <1>2, <4>1
      <4> QED  BY <1>3, <1>5, <4>1, <4>2
    <3> QED  BY <3>1, <3>2
  <2> QED  BY <1>2, <2>1, <2>2, SameSequence
<1>7. SubSeq(g, 1, m) = Group(h, m)
  <2>1. SubSeq(g, 1, m) \in Seq(Bd) /\ Len(SubSeq(g, 1, m)) = m
    BY <1>2
  <2>2. \A i \in 1 .. m : i \in 1 .. m + n /\ SubSeq(g, 1, m)[i] = g[i]
    BY <1>2
  <2>3. \A i \in 1 .. m : SubSeq(g, 1, m)[i] = Group(h, m)[i]
    BY <1>3, <1>4, <2>2
  <2> QED  BY <1>2, <2>1, <2>3, SameSequence
<1>8. SubSeq(g, m + 1, m + n) = Group(k, n)
  <2>1. SubSeq(g, m + 1, m + n) \in Seq(Bd) /\ Len(SubSeq(g, m + 1, m + n)) = n
    BY <1>2
  <2>2. \A i \in 1 .. n : m + i \in 1 .. m + n /\ SubSeq(g, m + 1, m + n)[i] = g[m + i]
    BY <1>2
  <2>3. \A i \in 1 .. n : SubSeq(g, m + 1, m + n)[i] = Group(k, n)[i]
    BY <1>3, <1>5, <2>2
  <2> QED  BY <1>2, <2>1, <2>3, SameSequence
<1> QED
  BY <1>2, <1>6, <1>7, <1>8 DEF Pipeline!First, Pipeline!Rest, k, g

(* What the calls that take n BDs from the head of a group do to it.       *)
LEMMA GroupTaken ==
  ASSUME NEW h \in Bd, NEW m \in 0 .. N, NEW n \in 0 .. m
  PROVE  /\ Pipeline!First(Group(h, m), n) = Group(h, n)
         /\ Pipeline!Rest(Group(h, m), n) = Group(SeekAhead(h, n), m - n)
<1>1. n \in 0 .. N /\ m - n \in 0 .. N /\ n + (m - n) = m /\ m <= N
  BY BdRingAssumption
<1>2. n + (m - n) <= N
  BY <1>1
<1>3. /\ Pipeline!First(Group(h, n + (m - n)), n) = Group(h, n)
      /\ Pipeline!Rest(Group(h, n + (m - n)), n) = Group(SeekAhead(h, n), m - n)
  BY <1>1, <1>2, GroupSplits
<1> QED  BY <1>1, <1>3

(* What they do to the group that the BDs join.                            *)
LEMMA GroupJoined ==
  ASSUME NEW h \in Bd, NEW m \in 0 .. N, NEW n \in 0 .. m
  PROVE  Group(h, m) = Group(h, n) \o Group(SeekAhead(h, n), m - n)
<1>1. n \in 0 .. N /\ m - n \in 0 .. N /\ n + (m - n) = m /\ n + (m - n) <= N
  BY BdRingAssumption
<1>2. Group(h, n + (m - n)) = Group(h, n) \o Group(SeekAhead(h, n), m - n)
  BY <1>1, GroupSplits
<1> QED  BY <1>1, <1>2

(* The positions, in the work group, of the BDs that are completed. *)
Done == {j \in 0 .. hwCnt - 1 : cmplt[SeekAhead(hwHead, j)]}

(* The count of the completed BDs is one.                                  *)
LEMMA DoneFinite ==
  ASSUME StateType
  PROVE  IsFiniteSet(Done) /\ Cardinality(Done) \in Nat /\ Cardinality(Done) <= hwCnt
<1>1. hwCnt \in Nat /\ Done \in SUBSET (0 .. hwCnt - 1)
  BY DEF Done, StateType, RingType
<1>2. IsFiniteSet(0 .. hwCnt - 1) /\ Cardinality(0 .. hwCnt - 1) = hwCnt
  BY <1>1, FS_Interval
<1>3. IsFiniteSet(Done) /\ Cardinality(Done) <= hwCnt
  BY <1>1, <1>2, FS_Subset
<1> QED  BY <1>3, FS_CardinalityType

(* A new ring as the abstract pipeline sees it.                            *)
LEMMA EmptyRing ==
  /\ Group(0, N) = [i \in 1 .. N |-> i - 1]
  /\ Group(0, 0) = <<>>
  /\ Cardinality({}) = 0
BY BdRingAssumption, FS_EmptySet DEF Group, SeekAhead

(* Steps that leave the heads, the counts and the completed positions.     *)
LEMMA QuietPipeline ==
  ASSUME UNCHANGED ring, Done' = Done
  PROVE  UNCHANGED Pipeline!queues
BY DEF Pipeline!queues, Done, ring, heads, counts, Group

(* GroupLayout with the fourth side of the circle: the free group ends     *)
(* where the post-work group begins.                                       *)
LEMMA RingFacts ==
  ASSUME StateType, GroupLayout
  PROVE  /\ N \in Nat \ {0}
         /\ freeHead \in Bd /\ preHead \in Bd /\ hwHead \in Bd /\ postHead \in Bd
         /\ freeCnt \in 0 .. N /\ preCnt \in 0 .. N
         /\ hwCnt \in 0 .. N /\ postCnt \in 0 .. N
         /\ freeCnt + preCnt + hwCnt + postCnt = N
         /\ freeHead = SeekAhead(preHead, preCnt)
         /\ preHead = SeekAhead(hwHead, hwCnt)
         /\ hwHead = SeekAhead(postHead, postCnt)
         /\ postHead = SeekAhead(freeHead, freeCnt)
<1>1. /\ N \in Nat \ {0}
      /\ freeHead \in Bd /\ preHead \in Bd /\ hwHead \in Bd /\ postHead \in Bd
      /\ freeCnt \in 0 .. N /\ preCnt \in 0 .. N
      /\ hwCnt \in 0 .. N /\ postCnt \in 0 .. N
      /\ freeCnt + preCnt + hwCnt + postCnt = N
      /\ freeHead = SeekAhead(preHead, preCnt)
      /\ preHead = SeekAhead(hwHead, hwCnt)
      /\ hwHead = SeekAhead(postHead, postCnt)
  BY BdRingAssumption DEF StateType, RingType, GroupLayout
<1>2. preHead = SeekAhead(postHead, postCnt + hwCnt)
  BY <1>1, SeekAheadComposes
<1>3. freeHead = SeekAhead(postHead, postCnt + hwCnt + preCnt)
  BY <1>1, <1>2, SeekAheadComposes
<1>4. SeekAhead(freeHead, freeCnt) = SeekAhead(postHead, N)
  BY <1>1, <1>3, SeekAheadComposes
<1>5. SeekAhead(postHead, N) = postHead
  BY <1>1 DEF SeekAhead, Bd
<1> QED  BY <1>1, <1>4, <1>5

(* One lemma for each call that moves BDs: it is the move of the same      *)
(* name.                                                                   *)
LEMMA AllocPipeline ==
  ASSUME StateType, GroupLayout, NEW n \in 1 .. N, BdRingAlloc(n)
  PROVE  Pipeline!Alloc(n)
<1>1. /\ n <= freeCnt /\ freeHead' = SeekAhead(freeHead, n)
      /\ freeCnt' = freeCnt - n /\ preCnt' = preCnt + n
      /\ UNCHANGED <<preHead, hwHead, postHead, hwCnt, postCnt, cmplt>>
  BY DEF BdRingAlloc, bds
<1>2. n \in 0 .. N /\ freeCnt' \in 0 .. N /\ n + freeCnt' = freeCnt /\ preCnt + n <= N
  BY <1>1, RingFacts
<1>3. /\ Pipeline!First(Group(freeHead, freeCnt), n) = Group(freeHead, n)
      /\ Pipeline!Rest(Group(freeHead, freeCnt), n) = Group(freeHead', freeCnt')
  BY <1>1, <1>2, RingFacts, GroupTaken
<1>4. Group(preHead, preCnt') = Group(preHead, preCnt) \o Group(freeHead, n)
  <2>1. /\ preHead \in Bd /\ freeHead = SeekAhead(preHead, preCnt)
        /\ preCnt' \in 0 .. N /\ preCnt \in 0 .. preCnt' /\ preCnt' - preCnt = n
    BY <1>1, <1>2, RingFacts
  <2>2. Group(preHead, preCnt') = Group(preHead, preCnt) \o Group(SeekAhead(preHead, preCnt), preCnt' - preCnt)
    BY <2>1, GroupJoined
  <2> QED  BY <2>1, <2>2
<1>5. Len(Group(freeHead, freeCnt)) = freeCnt
  BY RingFacts, GroupIsSequence
<1> QED
  BY <1>1, <1>3, <1>4, <1>5 DEF Pipeline!Alloc, Group

LEMMA UnAllocPipeline ==
  ASSUME StateType, GroupLayout, NEW n \in 1 .. N, NEW b \in Bd, BdRingUnAlloc(n, b)
  PROVE  Pipeline!UnAlloc(n)
<1>1. /\ n <= preCnt /\ freeHead' = SeekBack(freeHead, n)
      /\ freeCnt' = freeCnt + n /\ preCnt' = preCnt - n
      /\ UNCHANGED <<preHead, hwHead, postHead, hwCnt, postCnt, cmplt>>
  BY DEF BdRingUnAlloc, bds
<1>2. n \in 0 .. N /\ preCnt' \in 0 .. N /\ preCnt' + n = preCnt /\ n + freeCnt <= N
  BY <1>1, RingFacts
<1> DEFINE h == SeekAhead(preHead, preCnt')
<1>3. h \in Bd /\ SeekAhead(h, n) = freeHead
  BY <1>2, RingFacts, SeekAheadComposes, SeekAheadInRing
<1>4. freeHead' = h
  BY <1>1, <1>2, <1>3, SeekBackUndoes
<1>5. /\ Pipeline!First(Group(preHead, preCnt), preCnt') = Group(preHead, preCnt')
      /\ Pipeline!Rest(Group(preHead, preCnt), preCnt') = Group(h, n)
  BY <1>2, RingFacts, GroupTaken
<1>6. Group(freeHead', freeCnt') = Group(h, n) \o Group(freeHead, freeCnt)
  <2>1. freeCnt' \in 0 .. N /\ n \in 0 .. freeCnt' /\ freeCnt' - n = freeCnt
    BY <1>1, <1>2, RingFacts
  <2> HIDE DEF h
  <2>2. Group(h, freeCnt') = Group(h, n) \o Group(SeekAhead(h, n), freeCnt' - n)
    BY <1>3, <2>1, GroupJoined
  <2> QED  BY <1>3, <1>4, <2>1, <2>2
<1>7. Len(Group(preHead, preCnt)) = preCnt
  BY <1>2, RingFacts, GroupIsSequence
<1> HIDE DEF h
<1> QED
  BY <1>1, <1>5, <1>6, <1>7 DEF Pipeline!UnAlloc, Group

(* The BDs handed over are not completed: what is done stays as it is. *)
LEMMA ToHwPipeline ==
  ASSUME StateType, GroupLayout,
         NEW n \in 1 .. N, NEW b \in Bd, NEW sof, NEW eofs, NEW empty,
         BdRingToHw(n, b, sof, eofs, empty)
  PROVE  Pipeline!ToHw(n)
<1>1. /\ n <= preCnt /\ b = preHead /\ preHead' = SeekAhead(preHead, n)
      /\ preCnt' = preCnt - n /\ hwCnt' = hwCnt + n
      /\ cmplt' = [c \in Bd |-> cmplt[c] /\ \A j \in 0 .. n - 1 : SeekAhead(b, j) # c]
      /\ UNCHANGED <<freeHead, hwHead, postHead, freeCnt, postCnt>>
  BY DEF BdRingToHw
<1>2. n \in 0 .. N /\ preCnt' \in 0 .. N /\ n + preCnt' = preCnt /\ hwCnt + n <= N
  BY <1>1, RingFacts
<1>3. /\ Pipeline!First(Group(preHead, preCnt), n) = Group(preHead, n)
      /\ Pipeline!Rest(Group(preHead, preCnt), n) = Group(preHead', preCnt')
  BY <1>1, <1>2, RingFacts, GroupTaken
<1>4. Group(hwHead, hwCnt') = Group(hwHead, hwCnt) \o Group(preHead, n)
  <2>1. /\ hwHead \in Bd /\ preHead = SeekAhead(hwHead, hwCnt)
        /\ hwCnt' \in 0 .. N /\ hwCnt \in 0 .. hwCnt' /\ hwCnt' - hwCnt = n
    BY <1>1, <1>2, RingFacts
  <2>2. Group(hwHead, hwCnt') = Group(hwHead, hwCnt) \o Group(SeekAhead(hwHead, hwCnt), hwCnt' - hwCnt)
    BY <2>1, GroupJoined
  <2> QED  BY <2>1, <2>2
<1>5. Len(Group(preHead, preCnt)) = preCnt
  BY RingFacts, GroupIsSequence
<1>6. Done' = Done
  <2>1. ASSUME NEW j \in 0 .. hwCnt - 1
        PROVE  SeekAhead(hwHead, j) \in Bd
                 /\ (cmplt'[SeekAhead(hwHead, j)] <=> cmplt[SeekAhead(hwHead, j)])
    <3>1. SeekAhead(hwHead, j) \in Bd
      BY RingFacts, SeekAheadInRing
    <3>2. \A i \in 0 .. n - 1 : SeekAhead(preHead, i) # SeekAhead(hwHead, j)
      <4>1. \A i \in 0 .. n - 1 : i \in 0 .. preCnt - 1
        BY <1>1, <1>2, RingFacts
      <4> QED  BY <4>1, PreApart
    <3> QED  BY <1>1, <3>1, <3>2
  <2>2. ASSUME NEW j \in 0 .. n - 1 PROVE ~cmplt'[SeekAhead(hwHead, hwCnt + j)]
    <3>1. SeekAhead(hwHead, hwCnt + j) = SeekAhead(preHead, j)
      BY <1>1, <1>2, RingFacts, SeekAheadComposes
    <3>2. SeekAhead(preHead, j) \in Bd
      BY <1>2, RingFacts, SeekAheadInRing
    <3> QED  BY <1>1, <3>1, <3>2
  <2>3. ASSUME NEW j \in 0 .. hwCnt' - 1, cmplt'[SeekAhead(hwHead, j)]
        PROVE  j \in 0 .. hwCnt - 1
    <3>1. SUFFICES ASSUME j >= hwCnt PROVE FALSE
      BY <1>1, <1>2, RingFacts
    <3>2. j - hwCnt \in 0 .. n - 1 /\ hwCnt + (j - hwCnt) = j
      BY <1>1, <1>2, <3>1, RingFacts
    <3> QED  BY <2>2, <2>3, <3>2
  <2>4. 0 .. hwCnt - 1 \subseteq 0 .. hwCnt' - 1
    BY <1>1, <1>2, RingFacts
  <2> QED  BY <1>1, <2>1, <2>3, <2>4 DEF Done
<1> QED
  BY <1>1, <1>3, <1>4, <1>5, <1>6 DEF Pipeline!ToHw, Group, Done

(* A rejected set has left no trace in the queues.                         *)
LEMMA RejectedPipeline ==
  ASSUME StateType, GroupLayout,
         NEW n \in 1 .. N, NEW b \in Bd, NEW k \in 0 .. N, BdRingToHwRejected(n, b, k)
  PROVE  UNCHANGED Pipeline!queues
<1>1. /\ b = preHead /\ k <= preCnt /\ UNCHANGED ring /\ UNCHANGED <<hwHead, hwCnt>>
      /\ cmplt' = [c \in Bd |-> cmplt[c] /\ \A j \in 0 .. k - 1 : SeekAhead(b, j) # c]
  BY DEF BdRingToHwRejected, StateType, RingType, ring, heads, counts
<1>2. ASSUME NEW j \in 0 .. hwCnt - 1
      PROVE  cmplt'[SeekAhead(hwHead, j)] <=> cmplt[SeekAhead(hwHead, j)]
  <2>1. SeekAhead(hwHead, j) \in Bd
    BY RingFacts, SeekAheadInRing
  <2>2. \A i \in 0 .. k - 1 : SeekAhead(preHead, i) # SeekAhead(hwHead, j)
    <3>1. \A i \in 0 .. k - 1 : i \in 0 .. preCnt - 1
      BY <1>1, RingFacts
    <3> QED  BY <3>1, PreApart
  <2> QED  BY <1>1, <2>1, <2>2
<1>3. Done' = Done
  BY <1>1, <1>2 DEF Done
<1> QED  BY <1>1, <1>3, QuietPipeline

LEMMA FreePipeline ==
  ASSUME StateType, GroupLayout, NEW n \in 1 .. N, NEW b \in Bd, BdRingFree(n, b)
  PROVE  Pipeline!Free(n)
<1>1. /\ n <= postCnt /\ postHead' = SeekAhead(postHead, n)
      /\ postCnt' = postCnt - n /\ freeCnt' = freeCnt + n
      /\ UNCHANGED <<freeHead, preHead, hwHead, preCnt, hwCnt, cmplt>>
  BY DEF BdRingFree, bds
<1>2. n \in 0 .. N /\ postCnt' \in 0 .. N /\ n + postCnt' = postCnt /\ freeCnt + n <= N
  BY <1>1, RingFacts
<1>3. /\ Pipeline!First(Group(postHead, postCnt), n) = Group(postHead, n)
      /\ Pipeline!Rest(Group(postHead, postCnt), n) = Group(postHead', postCnt')
  BY <1>1, <1>2, RingFacts, GroupTaken
<1>4. Group(freeHead, freeCnt') = Group(freeHead, freeCnt) \o Group(postHead, n)
  <2>1. /\ freeHead \in Bd /\ postHead = SeekAhead(freeHead, freeCnt)
        /\ freeCnt' \in 0 .. N /\ freeCnt \in 0 .. freeCnt' /\ freeCnt' - freeCnt = n
    BY <1>1, <1>2, RingFacts
  <2>2. Group(freeHead, freeCnt') = Group(freeHead, freeCnt) \o Group(SeekAhead(freeHead, freeCnt), freeCnt' - freeCnt)
    BY <2>1, GroupJoined
  <2> QED  BY <2>1, <2>2
<1>5. Len(Group(postHead, postCnt)) = postCnt
  BY RingFacts, GroupIsSequence
<1> QED
  BY <1>1, <1>3, <1>4, <1>5 DEF Pipeline!Free, Group

(* The engine completes a BD of the work group, or one outside that the    *)
(* pipeline does not see (with a window open).                             *)
LEMMA HwCompletePipeline ==
  ASSUME StateType, GroupLayout, NEW last \in BOOLEAN, HwComplete(last)
  PROVE  Pipeline!Complete \/ UNCHANGED Pipeline!queues
<1>1. /\ UNCHANGED ring /\ UNCHANGED <<hwHead, hwCnt>> /\ ~cmplt[hwNext]
      /\ hwNext \in Bd /\ cmplt' = [cmplt EXCEPT ![hwNext] = TRUE]
  BY DEF HwComplete, ring, heads, counts, StateType, EngineType
<1>2. \A j \in 0 .. hwCnt - 1 : SeekAhead(hwHead, j) \in Bd
  BY RingFacts, SeekAheadInRing
<1>3. CASE \E d \in 0 .. hwCnt - 1 : SeekAhead(hwHead, d) = hwNext
  <2>1. PICK d \in 0 .. hwCnt - 1 : SeekAhead(hwHead, d) = hwNext
    BY <1>3
  <2>2. \A j \in 0 .. hwCnt - 1 : SeekAhead(hwHead, j) = hwNext => j = d
    BY <2>1, RingFacts, SeekInjective
  <2>3. d \notin Done /\ Done' = Done \cup {d}
    BY <1>1, <1>2, <2>1, <2>2 DEF Done, StateType, BdsType
  <2>4. IsFiniteSet(Done) /\ Cardinality(Done) \in Nat
    BY DoneFinite
  <2>5. Cardinality(Done') = Cardinality(Done) + 1
    BY <2>3, <2>4, FS_AddElement
  <2>6. Cardinality(Done') <= hwCnt
    <3>1. hwCnt \in Nat /\ Done' \in SUBSET (0 .. hwCnt - 1)
      BY <1>1, RingFacts DEF Done
    <3>2. IsFiniteSet(0 .. hwCnt - 1) /\ Cardinality(0 .. hwCnt - 1) = hwCnt
      BY <3>1, FS_Interval
    <3> QED  BY <3>1, <3>2, FS_Subset
  <2>7. Len(Group(hwHead, hwCnt)) = hwCnt
    BY RingFacts, GroupIsSequence
  <2>8. Cardinality(Done) < hwCnt
    BY <2>4, <2>5, <2>6, RingFacts
  <2> QED
    BY <1>1, <2>5, <2>7, <2>8 DEF Pipeline!Complete, Group, Done, ring, heads, counts
<1>4. CASE \A d \in 0 .. hwCnt - 1 : SeekAhead(hwHead, d) # hwNext
  <2>1. Done' = Done
    BY <1>1, <1>2, <1>4 DEF Done, StateType, BdsType
  <2> QED  BY <1>1, <2>1, QuietPipeline
<1> QED  BY <1>3, <1>4

(* The completed BDs that leave are the first r; the others move up by r.  *)
LEMMA FromHwPipeline ==
  ASSUME StateType, GroupLayout,
         NEW limit \in 1 .. N, NEW k \in 0 .. N, NEW r \in 0 .. N,
         BdRingFromHw(limit, k, r)
  PROVE  r \in 1 .. N /\ Pipeline!FromHw(r)
<1>1. /\ r > 0 /\ r <= k /\ k <= hwCnt /\ \A j \in 0 .. k - 1 : cmplt[SeekAhead(hwHead, j)]
      /\ hwHead' = SeekAhead(hwHead, r) /\ hwCnt' = hwCnt - r /\ postCnt' = postCnt + r
      /\ UNCHANGED <<freeHead, preHead, postHead, freeCnt, preCnt, cmplt>>
  BY DEF BdRingFromHw, ScanStops, WholePackets, bds
<1>2. r \in 1 .. N /\ hwCnt' \in 0 .. N /\ r + hwCnt' = hwCnt /\ postCnt + r <= N
  BY <1>1, RingFacts
<1>3. /\ Pipeline!First(Group(hwHead, hwCnt), r) = Group(hwHead, r)
      /\ Pipeline!Rest(Group(hwHead, hwCnt), r) = Group(hwHead', hwCnt')
  BY <1>1, <1>2, RingFacts, GroupTaken
<1>4. Group(postHead, postCnt') = Group(postHead, postCnt) \o Group(hwHead, r)
  <2>1. /\ postHead \in Bd /\ hwHead = SeekAhead(postHead, postCnt)
        /\ postCnt' \in 0 .. N /\ postCnt \in 0 .. postCnt' /\ postCnt' - postCnt = r
    BY <1>1, <1>2, RingFacts
  <2>2. Group(postHead, postCnt') = Group(postHead, postCnt) \o Group(SeekAhead(postHead, postCnt), postCnt' - postCnt)
    BY <2>1, GroupJoined
  <2> QED  BY <2>1, <2>2
<1>5. \A j \in 0 .. hwCnt' - 1 :
         cmplt'[SeekAhead(hwHead', j)] <=> cmplt[SeekAhead(hwHead, j + r)]
  <2>1. ASSUME NEW j \in 0 .. hwCnt' - 1
        PROVE  SeekAhead(hwHead', j) = SeekAhead(hwHead, j + r)
    <3>1. hwHead \in Bd /\ hwCnt \in 0 .. N /\ r \in 0 .. hwCnt /\ j \in 0 .. hwCnt - r - 1
      BY <1>1, <1>2, RingFacts
    <3> QED  BY <1>1, <3>1, SeekOn
  <2> QED  BY <1>1, <2>1
<1> DEFINE S == 0 .. r - 1
           T == {j + r : j \in Done'}
<1>6. Done = S \cup T
  <2>1. ASSUME NEW j \in Done PROVE j \in S \cup T
    <3>1. j \in 0 .. hwCnt - 1 /\ cmplt[SeekAhead(hwHead, j)]
      BY DEF Done
    <3>2. CASE ~(j < r)
      <4>1. j - r \in 0 .. hwCnt' - 1 /\ j - r + r = j
        BY <1>1, <1>2, <3>1, <3>2, RingFacts
      <4>2. j - r \in Done'
        BY <1>5, <3>1, <4>1 DEF Done
      <4> QED  BY <4>1, <4>2
    <3> QED  BY <1>2, <3>1, <3>2
  <2>2. ASSUME NEW j \in S PROVE j \in Done
    <3>1. j \in 0 .. k - 1 /\ j \in 0 .. hwCnt - 1
      BY <1>1, <1>2, RingFacts
    <3> QED  BY <1>1, <3>1 DEF Done
  <2>3. ASSUME NEW i \in Done' PROVE i + r \in Done
    <3>1. i \in 0 .. hwCnt' - 1 /\ cmplt'[SeekAhead(hwHead', i)]
      BY DEF Done
    <3>2. i + r \in 0 .. hwCnt - 1
      BY <1>1, <1>2, <3>1, RingFacts
    <3> QED  BY <1>5, <3>1, <3>2 DEF Done
  <2> QED  BY <2>1, <2>2, <2>3
<1>7. IsFiniteSet(Done') /\ Cardinality(Done') \in Nat
  <2>1. Done' \in SUBSET (0 .. hwCnt' - 1) /\ 0 \in Int /\ hwCnt' - 1 \in Int
    BY <1>2 DEF Done
  <2>2. IsFiniteSet(Done')
    BY <2>1, FS_Interval, FS_Subset
  <2> QED  BY <2>2, FS_CardinalityType
<1>8. IsFiniteSet(T) /\ Cardinality(T) = Cardinality(Done')
  <2> DEFINE f == [j \in Done' |-> j + r]
  <2>1. \A j \in Done' : j \in Int
    BY <1>2 DEF Done
  <2>2. f \in Injection(Done', T)
    BY <1>2, <2>1 DEF Injection, IsInjective
  <2>3. f \in Surjection(Done', T)
    BY DEF Surjection
  <2>4. ExistsBijection(Done', T)
    BY <2>2, <2>3 DEF ExistsBijection, Bijection
  <2> QED  BY <1>7, <2>4, FS_Bijection
<1>9. IsFiniteSet(S) /\ Cardinality(S) = r
  <2>1. 0 \in Int /\ r - 1 \in Int /\ ~(0 > r - 1) /\ r - 1 - 0 + 1 = r
    BY <1>2, RingFacts
  <2> QED  BY <2>1, FS_Interval
<1>10. S \cap T = {}
  <2>1. \A j \in Done' : j \in Int /\ 0 <= j
    BY <1>2 DEF Done
  <2> QED  BY <1>2, <2>1
<1>11. Cardinality(S \cap T) = 0
  BY <1>10, FS_EmptySet
<1>12. Cardinality(Done) = r + Cardinality(Done')
  <2> HIDE DEF S, T
  <2>1. Cardinality(S \cup T) = Cardinality(S) + Cardinality(T) - Cardinality(S \cap T)
    BY <1>8, <1>9, FS_Union
  <2>2. Cardinality(S \cup T) = r + Cardinality(Done') - 0
    BY <1>8, <1>9, <1>11, <2>1
  <2> QED  BY <1>2, <1>6, <1>7, <2>2
<1>13. r <= Cardinality(Done) /\ Cardinality(Done') = Cardinality(Done) - r
  BY <1>2, <1>7, <1>12
<1> QED
  BY <1>1, <1>2, <1>3, <1>4, <1>13 DEF Pipeline!FromHw, Group, Done

LEMMA StepImplementsPipeline ==
  ASSUME StateType, GroupLayout, [Next]_vars
  PROVE  [Pipeline!Next]_(Pipeline!queues)
<1>1. CASE BdRingCreate
  <2>1. Done' = {}
    BY <1>1 DEF BdRingCreate, Done
  <2>2. Pipeline!AllFree'
    BY <1>1, <2>1, EmptyRing DEF BdRingCreate, Pipeline!AllFree, Group, Done
  <2> QED  BY <2>2 DEF Pipeline!Next, Pipeline!Create
<1>2. CASE \E n \in 1 .. N : BdRingAlloc(n)
  BY <1>2, AllocPipeline DEF Pipeline!Next
<1>3. CASE \E n \in 1 .. N, b \in Bd : BdRingUnAlloc(n, b)
  BY <1>3, UnAllocPipeline DEF Pipeline!Next
<1>4. CASE \E n \in 1 .. N, b \in Bd, sof \in BOOLEAN, eofs, empty \in SUBSET Bd :
             BdRingToHw(n, b, sof, eofs, empty)
  BY <1>4, ToHwPipeline DEF Pipeline!Next
<1>5. CASE \E n \in 1 .. N, b \in Bd, k \in 0 .. N : BdRingToHwRejected(n, b, k)
  BY <1>5, RejectedPipeline
<1>6. CASE \E limit \in 1 .. N, k, r \in 0 .. N : BdRingFromHw(limit, k, r)
  BY <1>6, FromHwPipeline DEF Pipeline!Next
<1>7. CASE \E n \in 1 .. N, b \in Bd : BdRingFree(n, b)
  BY <1>7, FreePipeline DEF Pipeline!Next
<1>8. CASE \E last \in BOOLEAN : HwComplete(last)
  BY <1>8, HwCompletePipeline DEF Pipeline!Next
<1>9. CASE \E templateEof \in BOOLEAN : BdRingClone(templateEof)
  <2>1. UNCHANGED ring /\ UNCHANGED <<hwHead, hwCnt>> /\ hwCnt = 0
    <3>1. UNCHANGED ring /\ freeCnt = N
      BY <1>9 DEF BdRingClone
    <3> QED  BY <3>1, RingFacts DEF ring, heads, counts
  <2>2. Done' = Done
    BY <2>1 DEF Done
  <2> QED  BY <2>1, <2>2, QuietPipeline
<1>10. CASE \/ BdRingStart \/ Resume \/ ResumeAgain \/ StartBdRingHwTail \/ Pause
            \/ ResetSnapShot \/ ResetWrite \/ HwError \/ UNCHANGED vars
  <2>1. UNCHANGED ring /\ UNCHANGED cmplt
    BY <1>10 DEF BdRingStart, Resume, ResumeAgain, StartRing, StartBdRingHwTail, Pause,
                 ResetSnapShot, ResetWrite, HwError, vars, bds
  <2>2. Done' = Done
    BY <2>1 DEF Done, ring, heads, counts
  <2> QED  BY <2>1, <2>2, QuietPipeline
<1> QED
  BY <1>1, <1>2, <1>3, <1>4, <1>5, <1>6, <1>7, <1>8, <1>9, <1>10 DEF Next

(* The ring implements the pipeline of xaxidma.h, for every size of the    *)
(* ring and every set of windows: each call moves BDs from the head of one *)
(* queue to the tail of the next, the engine completes them in place, and  *)
(* none is lost, duplicated or overtaken.                                  *)
THEOREM BdRingIsPipeline == Spec => RefinesPipeline
<1>1. Init => Pipeline!AllFree
  <2>1. Init => Done = {}
    BY DEF Init, Done
  <2> QED  BY <2>1, EmptyRing DEF Init, Pipeline!AllFree, Group, Done
<1>2. StateType /\ GroupLayout /\ [Next]_vars => [Pipeline!Next]_(Pipeline!queues)
  BY StepImplementsPipeline
<1>3. Init => StateType /\ GroupLayout
  BY InitStateType, InitLayout
<1>4. StateType /\ GroupLayout /\ [Next]_vars => (StateType /\ GroupLayout)'
  BY StepKeepsLayout
<1> QED  BY <1>1, <1>2, <1>3, <1>4, PTL DEF Spec, RefinesPipeline, Pipeline!Spec

-----------------------------------------------------------------------------
(* The order of completion.  d BDs of the work group are completed; the    *)
(* uncompleted BDs of the ring are one stretch of u BDs, which begins with *)
(* the oldest pending one, p, and covers the rest of the work group.       *)

(* How far c lies ahead of b in the ring. *)
Ahead(b, c) == IF c >= b THEN c - b ELSE c - b + N

(* Ahead and SeekAhead undo each other.                                    *)
LEMMA AheadOfSeek ==
  ASSUME NEW b \in Bd, NEW n \in 0 .. N - 1
  PROVE  Ahead(b, SeekAhead(b, n)) = n
BY BdRingAssumption DEF Bd, SeekAhead, Ahead

LEMMA SeekOverAhead ==
  ASSUME NEW b \in Bd, NEW c \in Bd
  PROVE  Ahead(b, c) \in 0 .. N - 1 /\ SeekAhead(b, Ahead(b, c)) = c
BY BdRingAssumption DEF Bd, SeekAhead, Ahead

(* Seen from m BDs further on, a BD lies m nearer, or a lap less m         *)
(* further.                                                                *)
LEMMA AheadAfterSeek ==
  ASSUME NEW b \in Bd, NEW c \in Bd, NEW m \in 0 .. N - 1
  PROVE  Ahead(SeekAhead(b, m), c) = IF Ahead(b, c) >= m THEN Ahead(b, c) - m
                                                         ELSE Ahead(b, c) - m + N
BY BdRingAssumption DEF Bd, SeekAhead, Ahead

(* XAxiDma_BdRingNext is a seek over one BD.                               *)
LEMMA NextIsSeek ==
  ASSUME NEW b \in Bd PROVE BdRingNext(b) = SeekAhead(b, 1)
BY BdRingAssumption DEF Bd, SeekAhead, BdRingNext

LEMMA SeekNowhere ==
  ASSUME NEW b \in Bd PROVE SeekAhead(b, 0) = b
BY BdRingAssumption DEF Bd, SeekAhead

(* The uncompleted BDs of the ring are the u BDs from p on.                *)
UncompletedFrom(p, u) == \A c \in Bd : ~cmplt[c] <=> Ahead(p, c) < u

(* They take in the pending BDs of the work group.                         *)
Stretch(d, u) ==
  /\ d <= hwCnt /\ hwCnt - d <= u /\ u <= N - d
  /\ UncompletedFrom(SeekAhead(hwHead, d), u)

(* A channel that runs fetches p next and ends with a BD of the work       *)
(* group.                                                                  *)
EngineAt(d) ==
  /\ ~halted => hwNext = SeekAhead(hwHead, d)
  /\ active => ~halted /\ \E e \in d .. hwCnt - 1 : tdesc = SeekAhead(hwHead, e)
  /\ pc = "kick" => d < hwCnt

(* b is p, or a completed BD: the search of XAxiDma_UpdateBdRingCDesc,     *)
(* from b on, finds p.                                                     *)
Kept(b, p, u) == b = p \/ (b \in Bd /\ Ahead(p, b) >= u)

(* What a halted channel will start from, and what a reset will save.      *)
RestartsAt(p, u) ==
  /\ (halted /\ ~err) \/ pc = "reset" => Kept(bdaRestart, p, u)
  /\ err => halted /\ Kept(cdesc, p, u)
  /\ halted /\ ~err => runState = "HALTED" /\ cdesc = NoBd

OrderAt(d, u) == Stretch(d, u) /\ EngineAt(d) /\ RestartsAt(SeekAhead(hwHead, d), u)

OrderInv == \E d, u \in 0 .. N : OrderAt(d, u)

(* The two invariants that the run checks follow from OrderInv.            *)
LEMMA OrderImplies ==
  ASSUME StateType, OrderInv PROVE InOrder /\ EngineKeepsToWork
<1>1. PICK d \in 0 .. N, u \in 0 .. N : OrderAt(d, u)
  BY DEF OrderInv
<1> DEFINE p == SeekAhead(hwHead, d)
<1>2. hwHead \in Bd /\ hwCnt \in 0 .. N /\ N \in Nat \ {0}
  BY BdRingAssumption DEF StateType, RingType
<1>3. \A j \in 0 .. hwCnt - 1 :
         /\ SeekAhead(hwHead, j) \in Bd
         /\ Ahead(p, SeekAhead(hwHead, j)) = IF j >= d THEN j - d ELSE j - d + N
  <2>1. d <= hwCnt
    BY <1>1 DEF OrderAt, Stretch
  <2> QED  BY <1>2, <2>1 DEF Bd, Ahead, SeekAhead
<1>4. Completed(d)
  BY <1>1, <1>2, <1>3 DEF Completed, OrderAt, Stretch, UncompletedFrom
<1>5. InOrder
  BY <1>1, <1>4 DEF InOrder, OrderAt, EngineAt
<1>6. ASSUME active PROVE EngineKeepsToWork
  <2>1. PICK e \in d .. hwCnt - 1 : tdesc = SeekAhead(hwHead, e)
    BY <1>1, <1>6 DEF OrderAt, EngineAt
  <2>2. \A j \in d .. e : ~cmplt[SeekAhead(hwHead, j)]
    BY <1>2, <1>4, <2>1 DEF Completed
  <2>3. hwNext = SeekAhead(hwHead, d)
    BY <1>1, <1>6 DEF OrderAt, EngineAt
  <2>4. d \in 0 .. hwCnt - 1 /\ e \in 0 .. hwCnt - 1 /\ d <= e
    BY <1>2, <2>1
  <2> QED  BY <2>1, <2>2, <2>3, <2>4 DEF EngineKeepsToWork
<1> QED  BY <1>5, <1>6 DEF EngineKeepsToWork

(* A new ring: no BD is completed, and the stretch is the whole ring.      *)
LEMMA InitOrder == ASSUME Init PROVE OrderInv
<1>1. \A c \in Bd : ~cmplt[c] /\ Ahead(0, c) < N
  BY BdRingAssumption DEF Init, Bd, Ahead
<1>2. 0 \in Bd /\ 0 \in 0 .. N /\ N \in 0 .. N
  BY BdRingAssumption DEF Bd
<1>3. SeekAhead(0, 0) = 0
  BY <1>2, SeekNowhere
<1>4. OrderAt(0, N)
  BY <1>1, <1>2, <1>3, BdRingAssumption
  DEF Init, OrderAt, Stretch, UncompletedFrom, EngineAt, RestartsAt, Kept
<1> QED  BY <1>2, <1>4 DEF OrderInv

LEMMA CreateOrder ==
  ASSUME StateType, OrderInv, BdRingCreate PROVE OrderInv'
<1>1. \A c \in Bd : ~cmplt'[c] /\ Ahead(0, c) < N
  BY BdRingAssumption DEF BdRingCreate, Bd, Ahead
<1>2. 0 \in Bd /\ 0 \in 0 .. N /\ N \in 0 .. N
  BY BdRingAssumption DEF Bd
<1>3. SeekAhead(0, 0) = 0
  BY <1>2, SeekNowhere
<1>4. ~active /\ cdesc = NoBd
  BY DEF OrderInv, OrderAt, EngineAt, RestartsAt, BdRingCreate
<1>5. OrderAt(0, N)'
  BY <1>1, <1>2, <1>3, <1>4, BdRingAssumption
  DEF BdRingCreate, OrderAt, Stretch, UncompletedFrom, EngineAt, RestartsAt, Kept, engine
<1> QED  BY <1>2, <1>5 DEF OrderInv

(* The clone window is shut: the ring starts anew from its next BD.        *)
LEMMA CloneOrder ==
  ASSUME StateType, GroupLayout, OrderInv, Hazards = {},
         NEW templateEof \in BOOLEAN, BdRingClone(templateEof) PROVE OrderInv'
<1>1. PICK d \in 0 .. N, u \in 0 .. N : OrderAt(d, u)
  BY DEF OrderInv
<1>2. hwHead \in Bd /\ hwCnt = 0 /\ N \in Nat \ {0}
  BY BdRingAssumption DEF StateType, RingType, GroupLayout, BdRingClone
<1>3. d = 0
  BY <1>1, <1>2 DEF OrderAt, Stretch
<1>4. preHead = SeekAhead(hwHead, 0)
  BY <1>2 DEF GroupLayout
<1>5. \A c \in Bd : ~cmplt'[c] /\ Ahead(hwHead, c) < N
  BY <1>2 DEF BdRingClone, Bd, Ahead
<1>6. RestartBd = SeekAhead(hwHead, 0)
  BY <1>4 DEF BdRingClone
<1>7. ~active
  BY <1>1, <1>2, <1>3 DEF OrderAt, EngineAt
<1>8. OrderAt(0, N)'
  <2>1. Stretch(0, N)'
    BY <1>2, <1>5, SeekNowhere
    DEF Stretch, UncompletedFrom, BdRingClone, ring, heads, counts
  <2>2. EngineAt(0)'
    BY <1>1, <1>3, <1>7 DEF OrderAt, EngineAt, BdRingClone, engine, soft, ring, heads
  <2>3. RestartsAt(SeekAhead(hwHead, 0), N)'
    BY <1>1, <1>3, <1>6
    DEF OrderAt, RestartsAt, RestartBd, Kept, BdRingClone, engine, soft, ring, heads
  <2> QED  BY <2>1, <2>2, <2>3 DEF OrderAt
<1>9. 0 \in 0 .. N /\ N \in 0 .. N
  BY <1>2
<1> QED  BY <1>8, <1>9 DEF OrderInv

(* The bounds that the steps below count with.                             *)
LEMMA OrderTypes ==
  ASSUME StateType, GroupLayout, NEW d \in 0 .. N, NEW u \in 0 .. N, OrderAt(d, u)
  PROVE  /\ N \in Nat \ {0} /\ hwCnt \in 0 .. N /\ d <= hwCnt
         /\ hwHead \in Bd /\ SeekAhead(hwHead, d) \in Bd
         /\ 0 <= hwCnt - d /\ hwCnt - d <= u /\ u <= N - d
         /\ hwCnt + preCnt <= N
BY BdRingAssumption, SeekAheadInRing DEF StateType, RingType, GroupLayout, OrderAt, Stretch

(* The calls that touch neither the work group nor the engine.             *)
LEMMA QuietOrder ==
  ASSUME OrderInv,
         UNCHANGED <<hwHead, hwCnt, cmplt, bdaRestart, pc>>, UNCHANGED engine,
         runState' = runState \/ runState' = "HALTED"
  PROVE  OrderInv'
BY DEF OrderInv, OrderAt, Stretch, UncompletedFrom, EngineAt, RestartsAt, Kept, engine

(* When the first n BDs of the pre-work group lose their COMPLETE bits,    *)
(* the stretch still is one: it reaches the end of these BDs if it was     *)
(* shorter.                                                                *)
LEMMA UncompletedGrows ==
  ASSUME StateType, GroupLayout, NEW d \in 0 .. N, NEW u \in 0 .. N, OrderAt(d, u),
         NEW n \in 0 .. preCnt,
         cmplt' = [c \in Bd |-> cmplt[c] /\ \A j \in 0 .. n - 1 : SeekAhead(preHead, j) # c]
  PROVE  \E v \in 0 .. N :
           /\ u <= v /\ hwCnt - d + n <= v /\ v <= N - d
           /\ v = u \/ v = hwCnt - d + n
           /\ \A c \in Bd : ~cmplt'[c] <=> Ahead(SeekAhead(hwHead, d), c) < v
<1> DEFINE p == SeekAhead(hwHead, d)
           v == IF u >= hwCnt - d + n THEN u ELSE hwCnt - d + n
<1>1. /\ N \in Nat \ {0} /\ hwCnt \in 0 .. N /\ d <= hwCnt
      /\ hwHead \in Bd /\ p \in Bd
      /\ 0 <= hwCnt - d /\ hwCnt - d <= u /\ u <= N - d
      /\ hwCnt + preCnt <= N /\ preCnt \in Nat /\ n \in Nat /\ n <= preCnt
  BY OrderTypes DEF StateType, RingType
<1>2. preHead = SeekAhead(p, hwCnt - d)
  <2>1. SeekAhead(p, hwCnt - d) = SeekAhead(hwHead, d + (hwCnt - d))
    BY <1>1, SeekAheadComposes
  <2> QED  BY <1>1, <2>1 DEF GroupLayout
<1>3. ASSUME NEW c \in Bd
      PROVE  (\E j \in 0 .. n - 1 : SeekAhead(preHead, j) = c)
               <=> (hwCnt - d <= Ahead(p, c) /\ Ahead(p, c) < hwCnt - d + n)
  <2>1. Ahead(p, c) \in 0 .. N - 1 /\ SeekAhead(p, Ahead(p, c)) = c
    BY <1>1, SeekOverAhead
  <2>2. \A j \in 0 .. n - 1 : SeekAhead(preHead, j) = SeekAhead(p, hwCnt - d + j)
    BY <1>1, <1>2, SeekAheadComposes
  <2>3. \A j \in 0 .. n - 1 : Ahead(p, SeekAhead(p, hwCnt - d + j)) = hwCnt - d + j
    BY <1>1, AheadOfSeek
  <2>4. ASSUME NEW j \in 0 .. n - 1, SeekAhead(preHead, j) = c
        PROVE  hwCnt - d <= Ahead(p, c) /\ Ahead(p, c) < hwCnt - d + n
    <3>1. Ahead(p, c) = hwCnt - d + j
      BY <2>2, <2>3, <2>4
    <3> QED  BY <1>1, <3>1
  <2>5. ASSUME hwCnt - d <= Ahead(p, c), Ahead(p, c) < hwCnt - d + n
        PROVE  \E j \in 0 .. n - 1 : SeekAhead(preHead, j) = c
    <3>1. Ahead(p, c) - (hwCnt - d) \in 0 .. n - 1
      BY <1>1, <2>1, <2>5
    <3>2. hwCnt - d + (Ahead(p, c) - (hwCnt - d)) = Ahead(p, c)
      BY <1>1, <2>1
    <3> QED  BY <2>1, <2>2, <3>1, <3>2
  <2> QED  BY <2>4, <2>5
<1>4. ASSUME NEW c \in Bd PROVE ~cmplt'[c] <=> Ahead(p, c) < v
  <2>1. ~cmplt'[c] <=> ~cmplt[c] \/ \E j \in 0 .. n - 1 : SeekAhead(preHead, j) = c
    OBVIOUS
  <2>2. ~cmplt[c] <=> Ahead(p, c) < u
    BY DEF OrderAt, Stretch, UncompletedFrom
  <2>3. Ahead(p, c) \in 0 .. N - 1
    BY <1>1, SeekOverAhead
  <2> QED  BY <1>1, <1>3, <2>1, <2>2, <2>3
<1>5. /\ v \in 0 .. N /\ u <= v /\ hwCnt - d + n <= v /\ v <= N - d
      /\ v = u \/ v = hwCnt - d + n
  BY <1>1
<1> QED  BY <1>4, <1>5

(* With the lap window shut, the BD to restart from is kept. *)
LEMMA RestartStaysKept ==
  ASSUME StateType, GroupLayout, NEW d \in 0 .. N, NEW u \in 0 .. N, OrderAt(d, u),
         NEW n \in 0 .. preCnt, RestartKept(n), NEW v \in 0 .. N,
         v = u \/ v = hwCnt - d + n,
         Kept(RestartBd, SeekAhead(hwHead, d), u)
  PROVE  Kept(RestartBd, SeekAhead(hwHead, d), v)
<1> DEFINE p == SeekAhead(hwHead, d)
           r == RestartBd
<1>1. /\ N \in Nat \ {0} /\ hwCnt \in 0 .. N /\ d <= hwCnt
      /\ hwHead \in Bd /\ p \in Bd
      /\ 0 <= hwCnt - d /\ hwCnt - d <= u /\ u <= N - d
      /\ hwCnt + preCnt <= N /\ preCnt \in Nat /\ n \in Nat /\ n <= preCnt
  BY OrderTypes DEF StateType, RingType
<1>2. preHead = SeekAhead(p, hwCnt - d)
  <2>1. SeekAhead(p, hwCnt - d) = SeekAhead(hwHead, d + (hwCnt - d))
    BY <1>1, SeekAheadComposes
  <2> QED  BY <1>1, <2>1 DEF GroupLayout
<1>3. CASE r = p \/ v = u
  BY <1>3 DEF Kept
<1>4. CASE r # p /\ v = hwCnt - d + n
  <2>1. r \in Bd /\ Ahead(p, r) >= u
    BY <1>4 DEF Kept
  <2>2. Ahead(p, r) \in 0 .. N - 1 /\ SeekAhead(p, Ahead(p, r)) = r
    BY <1>1, <2>1, SeekOverAhead
  <2>3. SUFFICES ASSUME Ahead(p, r) < hwCnt - d + n PROVE FALSE
    BY <1>1, <1>4, <2>1, <2>2 DEF Kept
  <2> DEFINE j == Ahead(p, r) - (hwCnt - d)
  <2>4. j \in 0 .. n - 1 /\ hwCnt - d + j = Ahead(p, r)
    BY <1>1, <2>1, <2>2, <2>3
  <2>5. SeekAhead(preHead, j) = r
    <3>1. j \in 0 .. N /\ hwCnt - d \in 0 .. N /\ hwCnt - d + j <= N
      BY <1>1, <2>2, <2>4
    <3> HIDE DEF j
    <3> QED  BY <1>1, <1>2, <2>2, <2>4, <3>1, SeekAheadComposes
  <2>6. j = 0 /\ \A i \in 0 .. hwCnt - 1 : cmplt[SeekAhead(hwHead, i)]
    BY <2>4, <2>5 DEF RestartKept
  <2>7. ASSUME d < hwCnt PROVE FALSE
    <3>1. cmplt[p]
      BY <1>1, <2>6, <2>7
    <3>2. Ahead(p, p) = 0
      BY <1>1 DEF Ahead, Bd
    <3> QED  BY <1>1, <2>7, <3>1, <3>2 DEF OrderAt, Stretch, UncompletedFrom
  <2>8. d = hwCnt
    BY <1>1, <2>7
  <2>9. Ahead(p, r) = 0
    BY <1>1, <2>2, <2>6, <2>8
  <2> QED  BY <1>1, <1>4, <2>2, <2>9, SeekNowhere
<1> QED  BY <1>3, <1>4

LEMMA RejectedOrder ==
  ASSUME StateType, GroupLayout, OrderInv, Hazards = {},
         NEW n \in 1 .. N, NEW b \in Bd, NEW k \in 0 .. N, BdRingToHwRejected(n, b, k)
  PROVE  OrderInv'
<1>1. PICK d \in 0 .. N, u \in 0 .. N : OrderAt(d, u)
  BY DEF OrderInv
<1>2. k \in 0 .. preCnt /\ b = preHead
  BY DEF BdRingToHwRejected, StateType, RingType
<1>3. PICK v \in 0 .. N :
           /\ u <= v /\ hwCnt - d + k <= v /\ v <= N - d
           /\ v = u \/ v = hwCnt - d + k
           /\ \A c \in Bd : ~cmplt'[c] <=> Ahead(SeekAhead(hwHead, d), c) < v
  BY <1>1, <1>2, UncompletedGrows DEF BdRingToHwRejected
<1>4. /\ UNCHANGED <<hwHead, hwCnt, runState, bdaRestart, pc>>
      /\ UNCHANGED <<halted, err, active, cdesc, tdesc, hwNext>>
  BY DEF BdRingToHwRejected, ring, heads, counts, soft, engine
<1>5. ASSUME halted PROVE Kept(RestartBd, SeekAhead(hwHead, d), v)
  <2>1. Kept(RestartBd, SeekAhead(hwHead, d), u)
    BY <1>1, <1>5 DEF OrderAt, RestartsAt, RestartBd, StateType, EngineType
  <2>2. RestartKept(k)
    BY <1>5 DEF BdRingToHwRejected
  <2> QED  BY <1>1, <1>2, <1>3, <2>1, <2>2, RestartStaysKept
<1>6. Stretch(d, v)'
  <2>1. hwCnt - d <= v /\ d <= hwCnt
    BY <1>1, <1>2, <1>3, OrderTypes DEF StateType, RingType
  <2> QED  BY <1>3, <1>4, <2>1 DEF Stretch, UncompletedFrom
<1>7. EngineAt(d)'
  BY <1>1, <1>4 DEF OrderAt, EngineAt
<1>8. RestartsAt(SeekAhead(hwHead, d), v)'
  BY <1>1, <1>4, <1>5 DEF OrderAt, RestartsAt, RestartBd, BdRingToHwRejected, Kept
<1> QED  BY <1>6, <1>7, <1>8 DEF OrderInv, OrderAt

LEMMA ToHwOrder ==
  ASSUME StateType, GroupLayout, OrderInv, Hazards = {},
         NEW n \in 1 .. N, NEW b \in Bd, NEW sof, NEW eofs, NEW empty,
         BdRingToHw(n, b, sof, eofs, empty)
  PROVE  OrderInv'
<1>1. PICK d \in 0 .. N, u \in 0 .. N : OrderAt(d, u)
  BY DEF OrderInv
<1>2. n \in 0 .. preCnt /\ b = preHead
  BY DEF BdRingToHw, StateType, RingType
<1>3. PICK v \in 0 .. N :
           /\ u <= v /\ hwCnt - d + n <= v /\ v <= N - d
           /\ v = u \/ v = hwCnt - d + n
           /\ \A c \in Bd : ~cmplt'[c] <=> Ahead(SeekAhead(hwHead, d), c) < v
  BY <1>1, <1>2, UncompletedGrows DEF BdRingToHw
<1>4. /\ UNCHANGED <<hwHead, runState, bdaRestart, pc, halted, err, cdesc, hwNext>>
      /\ hwCnt' = hwCnt + n
  BY DEF BdRingToHw, soft
<1>9. /\ hwCnt \in 0 .. N /\ d <= hwCnt /\ hwHead \in Bd /\ N \in Nat
      /\ hwCnt + n <= N
  BY <1>1, <1>2, OrderTypes DEF StateType, RingType
<1>5. ASSUME halted PROVE Kept(RestartBd, SeekAhead(hwHead, d), v)
  <2>1. Kept(RestartBd, SeekAhead(hwHead, d), u)
    BY <1>1, <1>5 DEF OrderAt, RestartsAt, RestartBd, StateType, EngineType
  <2>2. RestartKept(n)
    BY <1>5 DEF BdRingToHw
  <2> QED  BY <1>1, <1>2, <1>3, <2>1, <2>2, RestartStaysKept
<1>6. Stretch(d, v)'
  <2>1. hwCnt' - d <= v /\ d <= hwCnt'
    BY <1>9, <1>3, <1>4
  <2> QED  BY <1>3, <1>4, <2>1 DEF Stretch, UncompletedFrom
<1>7. EngineAt(d)'
  <2>1. hwTail' = SeekAhead(hwHead, hwCnt' - 1)
    <3>1. SeekAhead(SeekAhead(hwHead, hwCnt), n - 1) = SeekAhead(hwHead, hwCnt + (n - 1))
      BY <1>9, SeekAheadComposes
    <3>2. hwTail' = SeekAhead(SeekAhead(hwHead, hwCnt), n - 1)
      BY <1>2 DEF BdRingToHw, GroupLayout
    <3>3. hwCnt' - 1 = hwCnt + (n - 1)
      BY <1>9, <1>4
    <3> QED  BY <3>1, <3>2, <3>3
  <2>2. hwCnt' - 1 \in d .. hwCnt' - 1 /\ hwCnt' > d
    BY <1>9, <1>4
  <2>3. ASSUME active'
        PROVE  ~halted /\ \E e \in d .. hwCnt' - 1 : tdesc' = SeekAhead(hwHead, e)
    <3>1. CASE UNCHANGED <<tdesc, active>>
      <4>1. ~halted /\ \E e \in d .. hwCnt - 1 : tdesc = SeekAhead(hwHead, e)
        BY <1>1, <2>3, <3>1 DEF OrderAt, EngineAt
      <4> QED  BY <4>1, <3>1, <1>9, <1>4
    <3>2. CASE ~UNCHANGED <<tdesc, active>>
      <4>1. ~halted /\ tdesc' = hwTail'
        BY <3>2 DEF BdRingToHw, WriteTDesc
      <4> QED  BY <4>1, <2>1, <2>2
    <3> QED  BY <3>1, <3>2
  <2>4. ~halted' => hwNext' = SeekAhead(hwHead', d)
    BY <1>1, <1>4 DEF OrderAt, EngineAt
  <2> QED  BY <1>4, <2>2, <2>3, <2>4 DEF EngineAt
<1>8. RestartsAt(SeekAhead(hwHead, d), v)'
  BY <1>1, <1>4, <1>5 DEF OrderAt, RestartsAt, RestartBd, BdRingToHw, Kept
<1> QED  BY <1>6, <1>7, <1>8 DEF OrderInv, OrderAt

(* Only completed BDs leave the work group: p and the stretch stay.        *)
LEMMA FromHwOrder ==
  ASSUME StateType, GroupLayout, OrderInv,
         NEW limit \in 1 .. N, NEW k \in 0 .. N, NEW r \in 0 .. N,
         BdRingFromHw(limit, k, r)
  PROVE  OrderInv'
<1>1. PICK d \in 0 .. N, u \in 0 .. N : OrderAt(d, u)
  BY DEF OrderInv
<1> DEFINE p == SeekAhead(hwHead, d)
<1>2. /\ N \in Nat \ {0} /\ hwCnt \in 0 .. N /\ d <= hwCnt
      /\ hwHead \in Bd /\ p \in Bd
      /\ 0 <= hwCnt - d /\ hwCnt - d <= u /\ u <= N - d
  BY <1>1, OrderTypes
<1>3. r <= k /\ k <= hwCnt /\ \A j \in 0 .. k - 1 : cmplt[SeekAhead(hwHead, j)]
  BY DEF BdRingFromHw, ScanStops, WholePackets
<1>4. k <= d
  <2>1. SUFFICES ASSUME d < k PROVE FALSE
    BY <1>2
  <2>2. cmplt[p]
    BY <1>2, <1>3, <2>1
  <2>3. Ahead(p, p) = 0
    BY <1>2 DEF Ahead, Bd
  <2> QED  BY <1>1, <1>2, <1>3, <2>1, <2>2, <2>3 DEF OrderAt, Stretch, UncompletedFrom
<1>5. d - r \in 0 .. N /\ r \in 0 .. N /\ r + (d - r) = d
  BY <1>2, <1>3, <1>4
<1>6. /\ UNCHANGED <<cmplt, runState, bdaRestart, pc>>
      /\ UNCHANGED <<halted, err, active, cdesc, tdesc, hwNext>>
      /\ hwCnt' = hwCnt - r /\ hwHead' = SeekAhead(hwHead, r)
  BY DEF BdRingFromHw, soft, engine, bds
<1>7. SeekAhead(hwHead', d - r) = p
  BY <1>2, <1>5, <1>6, SeekAheadComposes
<1>8. Stretch(d - r, u)'
  <2>1. d - r <= hwCnt' /\ hwCnt' - (d - r) <= u /\ u <= N - (d - r)
    BY <1>2, <1>5, <1>6
  <2> QED  BY <1>1, <1>6, <1>7, <2>1 DEF OrderAt, Stretch, UncompletedFrom
<1>9. EngineAt(d - r)'
  <2>1. ASSUME active
        PROVE  ~halted /\ \E e \in d - r .. hwCnt' - 1 : tdesc = SeekAhead(hwHead', e)
    <3>1. PICK e \in d .. hwCnt - 1 : ~halted /\ tdesc = SeekAhead(hwHead, e)
      BY <1>1, <2>1 DEF OrderAt, EngineAt
    <3>2. e - r \in d - r .. hwCnt' - 1 /\ e - r \in 0 .. N /\ r + (e - r) = e
      BY <1>2, <1>5, <1>6
    <3>3. SeekAhead(hwHead', e - r) = SeekAhead(hwHead, e)
      BY <1>2, <1>5, <1>6, <3>1, <3>2, SeekAheadComposes
    <3> QED  BY <3>1, <3>2, <3>3
  <2>2. pc # "kick"
    BY DEF BdRingFromHw
  <2> QED  BY <1>1, <1>6, <1>7, <2>1, <2>2 DEF OrderAt, EngineAt
<1>10. RestartsAt(SeekAhead(hwHead, d - r), u)'
  BY <1>1, <1>6, <1>7 DEF OrderAt, RestartsAt, Kept
<1> QED  BY <1>5, <1>8, <1>9, <1>10 DEF OrderInv, OrderAt

(* XAxiDma_UpdateBdRingCDesc finds the oldest pending BD.                  *)
LEMMA RestartIsPending ==
  ASSUME BdsType, NEW p \in Bd, NEW u \in 0 .. N, UncompletedFrom(p, u),
         Kept(bdaRestart, p, u), NEW b \in Bd, FirstUncompleted(b)
  PROVE  b = p
<1>1. PICK k \in 0 .. N - 1 :
        /\ b = SeekAhead(bdaRestart, k) /\ ~cmplt[b]
        /\ \A j \in 0 .. k - 1 : cmplt[SeekAhead(bdaRestart, j)]
  BY DEF FirstUncompleted
<1>2. N \in Nat \ {0} /\ u \in Nat /\ bdaRestart \in Bd
  BY BdRingAssumption DEF Kept
<1> DEFINE a == Ahead(bdaRestart, p)
<1>3. a \in 0 .. N - 1 /\ SeekAhead(bdaRestart, a) = p
  BY <1>2, SeekOverAhead
<1>4. Ahead(p, b) < u /\ Ahead(p, b) \in 0 .. N - 1
  BY <1>1, <1>2, SeekOverAhead DEF UncompletedFrom
<1>5. ~cmplt[p]
  <2>1. Ahead(p, p) = 0
    BY <1>2 DEF Ahead, Bd
  <2> QED  BY <1>2, <1>4, <2>1 DEF UncompletedFrom
<1>6. k <= a
  BY <1>1, <1>2, <1>3, <1>5
<1>7. ~(k < a)
  <2>1. SUFFICES ASSUME k < a PROVE FALSE
    OBVIOUS
  <2>2. bdaRestart # p
    BY <1>2, <1>3, <2>1 DEF Ahead, Bd
  <2>3. Ahead(p, bdaRestart) >= u
    BY <2>2 DEF Kept
  <2>4. Ahead(p, b) = Ahead(p, bdaRestart) + k
    BY <1>1, <1>2, <2>1, <2>2 DEF Ahead, SeekAhead, Bd
  <2> QED  BY <1>1, <1>2, <1>4, <2>3, <2>4 DEF Ahead, Bd
<1>8. k = a
  BY <1>1, <1>3, <1>6, <1>7
<1> QED  BY <1>1, <1>3, <1>8

(* A start goes on with p, the first BD from the restart BD on that is not *)
(* completed; StartBdRingHwTail is left to do only if one is pending.      *)
LEMMA StartOrder ==
  ASSUME StateType, GroupLayout, OrderInv, Hazards = {},
         NEW more \in BOOLEAN, StartRing(more)
  PROVE  OrderInv'
<1>1. PICK d \in 0 .. N, u \in 0 .. N : OrderAt(d, u)
  BY DEF OrderInv
<1> DEFINE p == SeekAhead(hwHead, d)
<1>2. /\ N \in Nat \ {0} /\ hwCnt \in 0 .. N /\ d <= hwCnt
      /\ hwHead \in Bd /\ p \in Bd
      /\ 0 <= hwCnt - d /\ hwCnt - d <= u /\ u <= N - d
  BY <1>1, OrderTypes
<1>3. UNCHANGED <<hwHead, hwCnt, cmplt, bdaRestart, err, active, tdesc>>
  BY DEF StartRing, ring, heads, counts, bds
<1>4. Stretch(d, u)'
  BY <1>1, <1>3 DEF OrderAt, Stretch, UncompletedFrom
<1>5. ~err \/ CDescStands
  BY DEF StartRing
<1>6. ~err /\ halted => ~CDescStands /\ Kept(bdaRestart, p, u) /\ ~active
  BY <1>1 DEF OrderAt, EngineAt, RestartsAt, CDescStands
<1>7. CASE UpdateBdRingCDesc /\ StartBdRingHw(more) /\ err
  <2>1. CDescStands /\ UNCHANGED <<cdesc, hwNext, halted, runState>> /\ pc' = "ready"
    BY <1>5, <1>7 DEF UpdateBdRingCDesc, StartBdRingHw, Returned
  <2> QED  BY <1>1, <1>3, <1>4, <1>7, <2>1 DEF OrderInv, OrderAt, EngineAt, RestartsAt, Kept
<1>8. CASE UpdateBdRingCDesc /\ StartBdRingHw(more) /\ ~err
  <2>1. ~halted' /\ ~err'
    BY <1>3, <1>8 DEF StartBdRingHw
  <2>2. hwNext' = p
    <3>1. CASE halted
      <4>1. PICK b \in Bd : FirstUncompleted(b) /\ hwNext' = b
        BY <1>2, <1>6, <1>8, <3>1 DEF UpdateBdRingCDesc, Kept, NoBd, Bd
      <4> QED
        BY <1>1, <1>2, <1>6, <1>8, <3>1, <4>1, RestartIsPending
        DEF StateType, OrderAt, Stretch
    <3>2. CASE ~halted
      BY <1>1, <1>8, <3>2 DEF UpdateBdRingCDesc, CDescStands, OrderAt, EngineAt
    <3> QED  BY <3>1, <3>2
  <2>3. pc' = "kick" => d < hwCnt
    <3>1. SUFFICES ASSUME TailPending, d = hwCnt PROVE FALSE
      BY <1>2, <1>8 DEF StartBdRingHw, Returned
    <3>2. hwTail \in Bd /\ hwCnt > 0 /\ ~cmplt[hwTail]
      BY <3>1 DEF TailPending, StateType, RingType
    <3>3. p = SeekAhead(hwTail, 1)
      BY <3>1, <3>2 DEF GroupLayout
    <3>4. Ahead(p, hwTail) = N - 1
      BY <1>2, <3>2, <3>3 DEF Ahead, SeekAhead, Bd
    <3> QED  BY <1>1, <1>2, <3>1, <3>2, <3>4 DEF OrderAt, Stretch, UncompletedFrom
  <2>4. pc' # "reset"
    BY <1>8 DEF StartBdRingHw, Returned
  <2>5. active' => \E e \in d .. hwCnt - 1 : tdesc' = SeekAhead(hwHead, e)
    BY <1>1, <1>3 DEF OrderAt, EngineAt
  <2> QED
    BY <1>3, <1>4, <2>1, <2>2, <2>3, <2>4, <2>5 DEF OrderInv, OrderAt, EngineAt, RestartsAt
<1>9. CASE ~(UpdateBdRingCDesc /\ StartBdRingHw(more))
  <2>1. UNCHANGED <<cdesc, hwNext, halted, runState>> /\ pc' = "ready"
    BY <1>9 DEF StartRing, Returned
  <2> QED  BY <1>1, <1>3, <1>4, <2>1 DEF OrderInv, OrderAt, EngineAt, RestartsAt, Kept
<1> QED  BY <1>7, <1>8, <1>9

(* TDESC gets the last BD of the work group, which is still pending.       *)
LEMMA KickOrder ==
  ASSUME StateType, GroupLayout, OrderInv, StartBdRingHwTail
  PROVE  OrderInv'
<1>1. PICK d \in 0 .. N, u \in 0 .. N : OrderAt(d, u)
  BY DEF OrderInv
<1>2. /\ N \in Nat \ {0} /\ hwCnt \in 0 .. N /\ d < hwCnt /\ hwHead \in Bd
  BY <1>1, OrderTypes DEF StartBdRingHwTail, OrderAt, EngineAt
<1>3. UNCHANGED <<hwHead, hwCnt, cmplt, bdaRestart, runState, halted, err, cdesc, hwNext>>
  BY DEF StartBdRingHwTail, ring, heads, counts, bds
<1>4. pc' \in {"ready", "again"}
  BY DEF StartBdRingHwTail, Returned
<1>5. hwTail = SeekAhead(hwHead, hwCnt - 1)
  <2>1. SeekAhead(hwTail, 1) = SeekAhead(hwHead, hwCnt) /\ hwTail \in Bd
    BY <1>2 DEF GroupLayout, StateType, RingType
  <2> QED  BY <1>2, <2>1 DEF SeekAhead, Bd
<1>6. ASSUME active'
      PROVE  ~halted /\ \E e \in d .. hwCnt - 1 : tdesc' = SeekAhead(hwHead, e)
  <2>1. CASE UNCHANGED <<tdesc, active>>
    BY <1>1, <1>6, <2>1 DEF OrderAt, EngineAt
  <2>2. CASE ~halted /\ tdesc' = hwTail
    <3>1. hwCnt - 1 \in d .. hwCnt - 1
      BY <1>2
    <3> QED  BY <1>5, <2>2, <3>1
  <2> QED  BY <2>1, <2>2 DEF StartBdRingHwTail, WriteTDesc
<1> QED
  BY <1>1, <1>3, <1>4, <1>6
  DEF OrderInv, OrderAt, Stretch, UncompletedFrom, EngineAt, RestartsAt, Kept

(* The BD that a reset saves is p or a completed one.                      *)
LEMMA SnapShotOrder ==
  ASSUME StateType, GroupLayout, OrderInv, Hazards = {}, HasMm2S, ResetSnapShot
  PROVE  OrderInv'
<1>1. PICK d \in 0 .. N, u \in 0 .. N : OrderAt(d, u)
  BY DEF OrderInv
<1> DEFINE p == SeekAhead(hwHead, d)
<1>2. /\ UNCHANGED <<hwHead, hwCnt, cmplt, runState>>
      /\ UNCHANGED <<halted, err, active, cdesc, tdesc, hwNext>>
  BY DEF ResetSnapShot, ring, heads, counts, bds, engine
<1>3. bdaRestart' = cdesc /\ pc' = "reset"
  BY DEF ResetSnapShot
<1>4. cdesc \in Bd /\ (cdesc = hwNext \/ cmplt[cdesc])
  BY DEF ResetSnapShot, StateType, EngineType
<1>5. Kept(cdesc, p, u)
  <2>1. CASE err
    BY <1>1, <2>1 DEF OrderAt, RestartsAt
  <2>2. CASE ~err
    <3>1. ~halted
      BY <1>1, <1>4, <2>2 DEF OrderAt, RestartsAt, NoBd, Bd
    <3>2. hwNext = p
      BY <1>1, <3>1 DEF OrderAt, EngineAt
    <3>3. ASSUME cmplt[cdesc] PROVE Ahead(p, cdesc) >= u
      <4>1. ~(Ahead(p, cdesc) < u)
        BY <1>1, <1>4, <3>3 DEF OrderAt, Stretch, UncompletedFrom
      <4>2. Ahead(p, cdesc) \in Int /\ u \in Int
        BY <1>1, <1>4, OrderTypes, SeekOverAhead
      <4> QED  BY <4>1, <4>2
    <3> QED  BY <1>4, <3>2, <3>3 DEF Kept
  <2> QED  BY <2>1, <2>2
<1> QED
  BY <1>1, <1>2, <1>3, <1>5
  DEF OrderInv, OrderAt, Stretch, UncompletedFrom, EngineAt, RestartsAt, Kept

LEMMA ResetWriteOrder ==
  ASSUME OrderInv, ResetWrite
  PROVE  OrderInv'
BY DEF ResetWrite, ring, heads, counts, bds,
       OrderInv, OrderAt, Stretch, UncompletedFrom, EngineAt, RestartsAt, Kept

(* The engine completes p: the stretch is one shorter and begins behind    *)
(* it.                                                                     *)
LEMMA HwCompleteOrder ==
  ASSUME StateType, GroupLayout, OrderInv, Hazards = {}, NEW last \in BOOLEAN,
         HwComplete(last)
  PROVE  OrderInv'
<1>1. PICK d \in 0 .. N, u \in 0 .. N : OrderAt(d, u)
  BY DEF OrderInv
<1> DEFINE p == SeekAhead(hwHead, d)
           q == SeekAhead(hwHead, d + 1)
<1>2. /\ N \in Nat \ {0} /\ hwCnt \in 0 .. N
      /\ hwHead \in Bd /\ p \in Bd
      /\ hwCnt - d <= u /\ u <= N - d
  BY <1>1, OrderTypes
<1>3. hwNext = p /\ ~cmplt[p] /\ ~halted
  BY <1>1 DEF HwComplete, OrderAt, EngineAt
<1>4. PICK e \in d .. hwCnt - 1 : tdesc = SeekAhead(hwHead, e)
  BY <1>1 DEF HwComplete, OrderAt, EngineAt
<1>5. d < hwCnt /\ d + 1 \in 0 .. N /\ u - 1 \in 0 .. N /\ u > 0
  BY <1>2, <1>4
<1>6. q = SeekAhead(p, 1) /\ q \in Bd
  BY <1>2, <1>5, SeekAheadComposes, SeekAheadInRing
<1>7. /\ UNCHANGED <<hwHead, hwCnt, runState, bdaRestart, pc, halted, err, tdesc>>
      /\ cmplt' = [cmplt EXCEPT ![p] = TRUE]
      /\ active' = (p # tdesc)
      /\ hwNext' = q
  BY <1>2, <1>3, <1>6, NextIsSeek DEF HwComplete, ring, heads, counts, soft
<1>8. ASSUME NEW c \in Bd
      PROVE  Ahead(q, c) = IF c = p THEN N - 1 ELSE Ahead(p, c) - 1
  BY <1>2, <1>6 DEF Ahead, SeekAhead, Bd
<1>9. Stretch(d + 1, u - 1)'
  <2>1. ASSUME NEW c \in Bd PROVE ~cmplt'[c] <=> Ahead(q, c) < u - 1
    <3>1. Ahead(p, c) \in Int
      BY <1>2, SeekOverAhead
    <3>2. ~cmplt[c] <=> Ahead(p, c) < u
      BY <1>1 DEF OrderAt, Stretch, UncompletedFrom
    <3>3. ~cmplt'[c] <=> c # p /\ ~cmplt[c]
      BY <1>7 DEF StateType, BdsType
    <3> QED  BY <1>2, <1>5, <1>8, <3>1, <3>2, <3>3
  <2>2. d + 1 <= hwCnt /\ hwCnt - (d + 1) <= u - 1 /\ u - 1 <= N - (d + 1)
    BY <1>2, <1>5
  <2> QED  BY <1>7, <2>1, <2>2 DEF Stretch, UncompletedFrom
<1>10. EngineAt(d + 1)'
  <2>1. ASSUME active' PROVE \E f \in d + 1 .. hwCnt - 1 : tdesc = SeekAhead(hwHead, f)
    <3>1. e # d
      BY <1>4, <1>7, <2>1
    <3>2. e \in d + 1 .. hwCnt - 1
      BY <1>2, <3>1
    <3> QED  BY <1>4, <3>2
  <2>2. ASSUME pc = "kick" PROVE d + 1 < hwCnt
    <3>1. hwNext # hwTail
      BY <2>2 DEF HwComplete
    <3>2. hwTail = SeekAhead(hwHead, hwCnt - 1)
      <4>1. SeekAhead(hwTail, 1) = SeekAhead(hwHead, hwCnt) /\ hwTail \in Bd
        BY <1>2, <1>5 DEF GroupLayout, StateType, RingType
      <4> QED  BY <1>2, <1>5, <4>1 DEF SeekAhead, Bd
    <3>3. d # hwCnt - 1
      BY <1>3, <3>1, <3>2
    <3> QED  BY <1>2, <1>5, <3>3
  <2> QED  BY <1>3, <1>7, <2>1, <2>2 DEF EngineAt
<1>11. RestartsAt(q, u - 1)'
  <2>1. ASSUME Kept(bdaRestart, p, u) PROVE Kept(bdaRestart, q, u - 1)
    <3>1. CASE bdaRestart = p
      <4>1. Ahead(q, p) >= u - 1
        BY <1>2, <1>5, <1>8
      <4> QED  BY <1>2, <3>1, <4>1 DEF Kept
    <3>2. CASE bdaRestart # p
      <4>1. bdaRestart \in Bd /\ Ahead(p, bdaRestart) >= u
        BY <2>1, <3>2 DEF Kept
      <4>2. Ahead(p, bdaRestart) \in Int
        BY <1>2, <4>1, SeekOverAhead
      <4> QED  BY <1>2, <1>8, <3>2, <4>1, <4>2 DEF Kept
    <3> QED  BY <3>1, <3>2
  <2> QED  BY <1>1, <1>3, <1>7, <2>1 DEF OrderAt, RestartsAt, Kept
<1> QED  BY <1>5, <1>7, <1>9, <1>10, <1>11 DEF OrderInv, OrderAt

(* On an error CDESC is p.                                                 *)
LEMMA HwErrorOrder ==
  ASSUME StateType, GroupLayout, OrderInv, HwError
  PROVE  OrderInv'
<1>1. PICK d \in 0 .. N, u \in 0 .. N : OrderAt(d, u)
  BY DEF OrderInv
<1>2. /\ UNCHANGED <<hwHead, hwCnt, cmplt, runState, bdaRestart, pc, tdesc, hwNext>>
      /\ halted' /\ err' /\ ~active' /\ cdesc' = SeekAhead(hwHead, d)
  BY <1>1 DEF HwError, ring, heads, counts, bds, soft, OrderAt, EngineAt
<1> QED
  BY <1>1, <1>2
  DEF OrderInv, OrderAt, Stretch, UncompletedFrom, EngineAt, RestartsAt, Kept

LEMMA StepKeepsOrder ==
  ASSUME StateType, GroupLayout, OrderInv, [Next]_vars, Hazards = {}, HasMm2S
  PROVE  OrderInv'
<1>1. CASE BdRingCreate
  BY <1>1, CreateOrder
<1>2. CASE \E templateEof \in BOOLEAN : BdRingClone(templateEof)
  BY <1>2, CloneOrder
<1>3. CASE \/ \E n \in 1 .. N : BdRingAlloc(n)
           \/ \E n \in 1 .. N, b \in Bd : BdRingUnAlloc(n, b) \/ BdRingFree(n, b)
           \/ Pause \/ UNCHANGED vars
  <2>1. /\ UNCHANGED <<hwHead, hwCnt, cmplt, bdaRestart, pc>> /\ UNCHANGED engine
        /\ runState' = runState \/ runState' = "HALTED"
    BY <1>3 DEF BdRingAlloc, BdRingUnAlloc, BdRingFree, Pause, vars, ring, heads, counts,
                bds, soft
  <2> QED  BY <2>1, QuietOrder
<1>4. CASE \E n \in 1 .. N, b \in Bd, sof \in BOOLEAN, eofs, empty \in SUBSET Bd :
             BdRingToHw(n, b, sof, eofs, empty)
  BY <1>4, ToHwOrder
<1>5. CASE \E n \in 1 .. N, b \in Bd, k \in 0 .. N : BdRingToHwRejected(n, b, k)
  BY <1>5, RejectedOrder
<1>6. CASE \E limit \in 1 .. N, k, r \in 0 .. N : BdRingFromHw(limit, k, r)
  BY <1>6, FromHwOrder
<1>7. CASE BdRingStart \/ Resume \/ ResumeAgain
  <2>1. PICK more \in BOOLEAN : StartRing(more)
    BY <1>7 DEF BdRingStart, Resume, ResumeAgain, StateType, EngineType
  <2> QED  BY <2>1, StartOrder
<1>8. CASE StartBdRingHwTail
  BY <1>8, KickOrder
<1>9. CASE ResetSnapShot
  BY <1>9, SnapShotOrder
<1>10. CASE ResetWrite
  BY <1>10, ResetWriteOrder
<1>11. CASE \E last \in BOOLEAN : HwComplete(last)
  BY <1>11, HwCompleteOrder
<1>12. CASE HwError
  BY <1>12, HwErrorOrder
<1> QED
  BY <1>1, <1>2, <1>3, <1>4, <1>5, <1>6, <1>7, <1>8, <1>9, <1>10, <1>11, <1>12 DEF Next

(* OrderInv is inductive, with the types and the layout of the groups.     *)
LEMMA OrderInvariant ==
  ASSUME Hazards = {}, HasMm2S
  PROVE  Spec => [](StateType /\ OrderInv)
<1> DEFINE IInv == StateType /\ GroupLayout /\ OrderInv
<1>1. Init => IInv
  BY InitStateType, InitLayout, InitOrder
<1>2. IInv /\ [Next]_vars => IInv'
  BY StepKeepsLayout, StepKeepsOrder
<1>3. IInv => StateType /\ OrderInv
  OBVIOUS
<1> HIDE DEF IInv
<1> QED  BY <1>1, <1>2, <1>3, PTL DEF Spec

(* On an engine whose reset saves the current BD, and with the windows     *)
(* shut: BDs complete in the order in which they were handed over, and a   *)
(* running channel goes on with the oldest pending one, across any pauses, *)
(* errors, rejected calls, resets and restarts.  README.md shows for each  *)
(* window, and for an engine without the save, how the order is lost.      *)
THEOREM BdRingInOrder ==
  ASSUME Hazards = {}, HasMm2S
  PROVE  Spec => []InOrder
<1>1. StateType /\ OrderInv => InOrder
  BY OrderImplies
<1> QED  BY <1>1, OrderInvariant, PTL

(* Under the same conditions the engine works on pending BDs of the work   *)
(* group only, up to one of them, never on a BD that the application holds.*)
THEOREM BdRingEngineKeepsToWork ==
  ASSUME Hazards = {}, HasMm2S
  PROVE  Spec => []EngineKeepsToWork
<1>1. StateType /\ OrderInv => EngineKeepsToWork
  BY OrderImplies
<1> QED  BY <1>1, OrderInvariant, PTL
=============================================================================
