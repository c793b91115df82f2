------------------------------- MODULE BdRing -------------------------------
(***************************************************************************)
(* The buffer descriptor (BD) ring of the AXI DMA driver and the channel   *)
(* of the engine that walks it: XAxiDma_BdRing* in xaxidma_bdring.c, with  *)
(* XAxiDma_Reset, XAxiDma_Pause and XAxiDma_Resume of xaxidma.c as far as  *)
(* they touch one ring.  The ring is in its normal (not cyclic) mode.      *)
(*                                                                         *)
(* A BD is its index in the ring.  The ring splits in four groups of       *)
(* adjacent BDs, free, pre-work, work and post-work, each given by a head  *)
(* and a count.  The caller passes any counts and pointers: the functions  *)
(* themselves reject the calls that are out of sequence, and such a call,  *)
(* which changes nothing, is not a step.  As the driver requires, calls    *)
(* exclude each other; the engine runs at any moment, also within a call.  *)
(***************************************************************************)
EXTENDS Integers, FiniteSets

CONSTANTS
  N,         (* AllCnt: the number of BDs in the ring                      *)
  HasMm2S,   (* the engine has an MM2S channel (XAxiDma.HasMm2S)           *)
  Hazards    (* the windows below that the environment leaves open         *)

(***************************************************************************)
(* lap        : the BD to restart from after a reset is handed to the      *)
(*              engine again before the channel is started                 *)
(* resetTwice : XAxiDma_Reset of a channel not started since its last one  *)
(* clone      : XAxiDma_BdRingClone although the BD to restart from is not *)
(*              the next one to be submitted                               *)
(* dirtyStart : a ring that was paused is started, without a reset, after  *)
(*              the engine has stopped on an error                         *)
(* kickRace   : the engine completes HwTail between the look at its status *)
(*              and the write of TDESC in XAxiDma_StartBdRingHw            *)
(***************************************************************************)
Windows == {"lap", "resetTwice", "clone", "dirtyStart", "kickRace"}

ASSUME BdRingAssumption ==
  /\ N \in Nat \ {0}
  /\ HasMm2S \in BOOLEAN
  /\ Hazards \subseteq Windows

VARIABLES
  isRx,            (* IsRxChannel: the ring of the S2MM channel            *)
  freeHead, preHead, hwHead, hwTail, postHead,
  freeCnt, preCnt, hwCnt, postCnt,
  bdaRestart,      (* the BD to restart from                               *)
  runState,        (* RunState                                             *)
  cmplt,           (* the COMPLETE bit of each BD's status word            *)
  eof,             (* TXEOF (control word) or RXEOF (status word) of a BD  *)
  pc,              (* how far the running call is                          *)
  again,           (* XAxiDma_Resume starts the ring a second time         *)
  halted,          (* SR.Halted of the channel                             *)
  err,             (* the channel stopped on an error                      *)
  active,          (* the channel is processing BDs, up to tdesc           *)
  cdesc, tdesc,    (* the registers CDESC and TDESC                        *)
  hwNext           (* the BD the engine fetches next                       *)

heads == <<freeHead, preHead, hwHead, hwTail, postHead>>
counts == <<freeCnt, preCnt, hwCnt, postCnt>>
ring == <<heads, counts>>
bds == <<cmplt, eof>>
soft == <<bdaRestart, runState, pc, again>>
engine == <<halted, err, active, cdesc, tdesc, hwNext>>
vars == <<isRx, ring, bds, soft, engine>>

Bd == 0 .. N - 1
NoBd == -1              \* a null pointer; the value of CDESC after a reset

(* XAXIDMA_RING_SEEKAHEAD and XAXIDMA_RING_SEEKBACK, in units of           *)
(* Separation.  A definition that differs from the one after it by a bug,  *)
(* as the first of SeekBack, is a mutant: it tests the properties.         *)
SeekAhead(b, n) == IF b + n > N - 1 THEN b + n - N ELSE b + n
SeekBackShortRing(b, n) == IF b - n < 0 THEN b - n + N - 1 ELSE b - n
SeekBack(b, n) == IF b - n < 0 THEN b - n + N ELSE b - n

(* XAxiDma_BdRingNext *)
BdRingNext(b) == IF b >= N - 1 THEN 0 ELSE b + 1
-----------------------------------------------------------------------------
(* XAxiDma_BdRingCreate on an engine that has been reset. *)
Init ==
  /\ isRx \in BOOLEAN
  /\ freeHead = 0 /\ preHead = 0 /\ hwHead = 0 /\ hwTail = 0 /\ postHead = 0
  /\ freeCnt = N /\ preCnt = 0 /\ hwCnt = 0 /\ postCnt = 0
  /\ bdaRestart = 0 /\ runState = "HALTED"
  /\ cmplt = [b \in Bd |-> FALSE] /\ eof = [b \in Bd |-> FALSE]
  /\ pc = "ready" /\ again = FALSE
  /\ halted = TRUE /\ err = FALSE /\ active = FALSE
  /\ cdesc = NoBd /\ tdesc = NoBd /\ hwNext = NoBd

(* The ring is created anew, which the driver allows after a reset only. *)
BdRingCreate ==
  /\ pc = "ready" /\ halted /\ ~err
  /\ freeHead' = 0 /\ preHead' = 0 /\ hwHead' = 0 /\ hwTail' = 0 /\ postHead' = 0
  /\ freeCnt' = N /\ preCnt' = 0 /\ hwCnt' = 0 /\ postCnt' = 0
  /\ bdaRestart' = 0 /\ runState' = "HALTED"
  /\ cmplt' = [b \in Bd |-> FALSE] /\ eof' = [b \in Bd |-> FALSE]
  /\ UNCHANGED <<isRx, pc, again, engine>>

(* The BD that a start after the next reset looks at first. *)
RestartBd == IF halted /\ ~err THEN bdaRestart ELSE cdesc

(* The template, with its COMPLETE bit cleared, is copied over every BD. *)
BdRingClone(templateEof) ==
  /\ pc = "ready"
  /\ runState # "NOT_HALTED"
  /\ freeCnt = N
  /\ "clone" \in Hazards \/ RestartBd = preHead
  /\ cmplt' = [b \in Bd |-> FALSE] /\ eof' = [b \in Bd |-> templateEof]
  /\ UNCHANGED <<isRx, ring, soft, engine>>

BdRingAlloc(n) ==
  /\ pc = "ready"
  /\ n > 0 /\ freeCnt >= n
  /\ freeHead' = SeekAhead(freeHead, n)
  /\ freeCnt' = freeCnt - n
  /\ preCnt' = preCnt + n
  /\ UNCHANGED <<preHead, hwHead, hwTail, postHead, hwCnt, postCnt>>
  /\ UNCHANGED <<isRx, bds, soft, engine>>

BdRingUnAlloc(n, b) ==
  /\ pc = "ready"
  /\ n > 0 /\ preCnt >= n
  /\ SeekAhead(b, n) = freeHead
  /\ freeHead' = SeekBack(freeHead, n)
  /\ freeCnt' = freeCnt + n
  /\ preCnt' = preCnt - n
  /\ UNCHANGED <<preHead, hwHead, hwTail, postHead, hwCnt, postCnt>>
  /\ UNCHANGED <<isRx, bds, soft, engine>>
-----------------------------------------------------------------------------
(* A write of TDESC: a channel that is not halted runs on until it has     *)
(* completed the BD in TDESC.                                              *)
WriteTDesc(b) ==
  IF halted THEN UNCHANGED <<tdesc, active>>
            ELSE tdesc' = b /\ active' = TRUE

(* The control words of the n BDs from b on: whether the first has TXSOF,  *)
(* the BDs of the ring that have TXEOF, those whose length is zero.        *)
Accepted(n, b, sof, eofs, empty) ==
  /\ isRx \/ sof
  /\ isRx \/ SeekAhead(b, n - 1) \in eofs
  /\ \A j \in 0 .. n - 1 : SeekAhead(b, j) \notin empty

(* The n BDs from PreHead on do not take the BD to restart from with them, *)
(* unless it becomes the oldest pending one.                               *)
RestartKept(n) ==
  \A j \in 0 .. n - 1 :
    SeekAhead(preHead, j) = RestartBd =>
      j = 0 /\ \A i \in 0 .. hwCnt - 1 : cmplt[SeekAhead(hwHead, i)]

BdRingToHw(n, b, sof, eofs, empty) ==
  /\ pc = "ready"
  /\ n > 0 /\ preCnt >= n /\ preHead = b
  /\ Accepted(n, b, sof, eofs, empty)
  /\ "lap" \in Hazards \/ ~halted \/ RestartKept(n)
  /\ cmplt' = [c \in Bd |-> cmplt[c] /\ \A j \in 0 .. n - 1 : SeekAhead(b, j) # c]
  /\ eof' = [c \in Bd |-> IF ~isRx /\ \E j \in 0 .. n - 1 : SeekAhead(b, j) = c
                          THEN c \in eofs ELSE eof[c]]
  /\ preHead' = SeekAhead(preHead, n)
  /\ preCnt' = preCnt - n
  /\ hwTail' = SeekAhead(b, n - 1)
  /\ hwCnt' = hwCnt + n
  /\ IF runState = "NOT_HALTED" THEN WriteTDesc(hwTail')
                                ELSE UNCHANGED <<tdesc, active>>
  /\ UNCHANGED <<freeHead, hwHead, postHead, freeCnt, postCnt, soft>>
  /\ UNCHANGED <<isRx, halted, err, cdesc, hwNext>>

(* A set that is rejected at its BD k (a length of zero, or no TXEOF in    *)
(* the last) keeps the COMPLETE bits of its first k BDs cleared.           *)
BdRingToHwRejected(n, b, k) ==
  /\ pc = "ready"
  /\ n > 0 /\ preCnt >= n /\ preHead = b
  /\ k < n
  /\ "lap" \in Hazards \/ ~halted \/ RestartKept(k)
  /\ cmplt' = [c \in Bd |-> cmplt[c] /\ \A j \in 0 .. k - 1 : SeekAhead(b, j) # c]
  /\ UNCHANGED <<isRx, ring, eof, soft, engine>>

(* The scan of the work group stops after k BDs.  *)
ScanIgnoresStatus(limit, k) ==
  k <= limit /\ k <= hwCnt /\ (k = limit \/ k = hwCnt)

ScanStops(limit, k) ==
  /\ k <= limit /\ k <= hwCnt
  /\ \A j \in 0 .. k - 1 : cmplt[SeekAhead(hwHead, j)]
  /\ k = limit \/ k = hwCnt \/ ~cmplt[SeekAhead(hwHead, k)]

(* Of the k BDs of the scan the first r are whole packets. *)
PartialPackets(k, r) == r = k

WholePackets(k, r) ==
  /\ r <= k
  /\ r > 0 => eof[SeekAhead(hwHead, r - 1)]
  /\ \A j \in r .. k - 1 : ~eof[SeekAhead(hwHead, j)]

BdRingFromHw(limit, k, r) ==
  /\ pc = "ready"
  /\ ScanStops(limit, k) /\ WholePackets(k, r)
  /\ r > 0
  /\ hwHead' = SeekAhead(hwHead, r)
  /\ hwCnt' = hwCnt - r
  /\ postCnt' = postCnt + r
  /\ UNCHANGED <<freeHead, preHead, hwTail, postHead, freeCnt, preCnt>>
  /\ UNCHANGED <<isRx, bds, soft, engine>>

BdRingFree(n, b) ==
  /\ pc = "ready"
  /\ n > 0 /\ postCnt >= n /\ postHead = b
  /\ freeCnt' = freeCnt + n
  /\ postCnt' = postCnt - n
  /\ postHead' = SeekAhead(postHead, n)
  /\ UNCHANGED <<freeHead, preHead, hwHead, hwTail, preCnt, hwCnt>>
  /\ UNCHANGED <<isRx, bds, soft, engine>>
-----------------------------------------------------------------------------
(* XAxiDma_UpdateBdRingCDesc leaves CDESC alone while the ring or the      *)
(* channel runs; otherwise CDESC gets the first BD, from the restart BD    *)
(* on, that is not completed.                                              *)
CDescStands == runState = "NOT_HALTED" \/ ~halted

RestartUnchecked(b) == b = bdaRestart

FirstUncompleted(b) ==
  \E k \in 0 .. N - 1 :
    /\ b = SeekAhead(bdaRestart, k)
    /\ ~cmplt[b]
    /\ \A j \in 0 .. k - 1 : cmplt[SeekAhead(bdaRestart, j)]

UpdateBdRingCDesc ==
  \/ /\ CDescStands
     /\ UNCHANGED <<cdesc, hwNext>>
  \/ /\ ~CDescStands
     /\ IF bdaRestart = NoBd THEN cdesc' = NoBd
                             ELSE \E b \in Bd : FirstUncompleted(b) /\ cdesc' = b
     /\ hwNext' = cdesc'

Returned(more) == pc' = (IF more THEN "again" ELSE "ready") /\ again' = FALSE

(* The BDs that XAxiDma_StartBdRingHw must kick off: the last one handed   *)
(* over is not completed.                                                  *)
TailUnchecked == hwCnt > 0
TailCompleted == hwCnt > 0 /\ cmplt[hwTail]
TailPending == hwCnt > 0 /\ ~cmplt[hwTail]

(* XAxiDma_StartBdRingHw up to the look at HwTail.  The channel does not   *)
(* come up after an error, and when it is slow it still reads as halted:   *)
(* both return XST_DMA_ERROR.                                              *)
StartBdRingHw(more) ==
  \/ /\ err
     /\ UNCHANGED <<halted, runState>>
     /\ Returned(FALSE)
  \/ /\ halted /\ ~err
     /\ halted' = FALSE
     /\ UNCHANGED runState
     /\ Returned(FALSE)
  \/ /\ ~err
     /\ halted' = FALSE
     /\ runState' = "NOT_HALTED"
     /\ IF TailPending
        THEN pc' = "kick" /\ again' = more
        ELSE Returned(more)

StartRing(more) ==
  /\ "dirtyStart" \in Hazards \/ ~err \/ CDescStands
  /\ \/ UpdateBdRingCDesc /\ StartBdRingHw(more)
     \/ /\ ~CDescStands /\ bdaRestart # NoBd
        /\ \A b \in Bd : cmplt[b]            \* "Cannot find valid cdesc"
        /\ Returned(FALSE)
        /\ UNCHANGED <<cdesc, hwNext, halted, runState>>
  /\ UNCHANGED <<isRx, ring, bds, bdaRestart, err, active, tdesc>>

BdRingStart == pc = "ready" /\ StartRing(FALSE)

(* XAxiDma_Resume starts the ring, by way of XAxiDma_Start, if the channel *)
(* is halted, and then starts it once more.                                *)
Resume == pc = "ready" /\ StartRing(halted)

ResumeAgain == pc = "again" /\ StartRing(FALSE)

StartBdRingHwTail ==
  /\ pc = "kick"
  /\ WriteTDesc(hwTail)
  /\ Returned(again)
  /\ UNCHANGED <<isRx, ring, bds, bdaRestart, runState, halted, err, cdesc, hwNext>>

(* XAxiDma_Pause leaves the channel of an engine with scatter-gather on. *)
Pause ==
  /\ pc = "ready"
  /\ runState' = "HALTED"
  /\ UNCHANGED <<isRx, ring, bds, bdaRestart, pc, again, engine>>

(* XAxiDma_Reset: the current BD is saved, if the engine has an MM2S       *)
(* channel, and the reset bit is written after that.                       *)
ResetSnapShot ==
  /\ pc = "ready"
  /\ "resetTwice" \in Hazards \/ cdesc # NoBd
  /\ "lap" \in Hazards \/ cdesc = hwNext \/ (cdesc # NoBd /\ cmplt[cdesc])
  /\ bdaRestart' = IF HasMm2S THEN cdesc ELSE bdaRestart
  /\ pc' = "reset"
  /\ UNCHANGED <<isRx, ring, bds, runState, again, engine>>

ResetWrite ==
  /\ pc = "reset"
  /\ pc' = "ready"
  /\ runState' = "HALTED"
  /\ halted' = TRUE /\ err' = FALSE /\ active' = FALSE
  /\ cdesc' = NoBd /\ tdesc' = NoBd /\ hwNext' = NoBd
  /\ UNCHANGED <<isRx, ring, bds, bdaRestart, again>>

(* XAxiDma_BdRingCheck, without its walk along the links between the BDs,  *)
(* which only XAxiDma_BdRingCreate writes.  It keeps an address in a u32:  *)
(* that of a BD in high, 4 GB or more, comes out below the ring.           *)
HeadsInRing(high) == {freeHead, preHead, hwHead, hwTail, postHead} \subseteq Bd \ high

CountersAddUp == hwCnt + preCnt + freeCnt + postCnt = N

BdRingCheck(high) ==
  IF runState = "NOT_HALTED" THEN "IS_STARTED"
  ELSE IF HeadsInRing(high) /\ CountersAddUp THEN "SUCCESS" ELSE "SG_LIST_ERROR"
-----------------------------------------------------------------------------
(* The engine completes the BD it has fetched and stops after the one in   *)
(* TDESC.  A receive channel decides where a packet ends.                  *)
HwComplete(last) ==
  /\ ~halted /\ active
  /\ hwNext # NoBd /\ ~cmplt[hwNext]
  /\ pc = "kick" /\ hwNext = hwTail => "kickRace" \in Hazards
  /\ cmplt' = [cmplt EXCEPT ![hwNext] = TRUE]
  /\ eof' = IF isRx THEN [eof EXCEPT ![hwNext] = last] ELSE eof
  /\ cdesc' = hwNext
  /\ hwNext' = BdRingNext(hwNext)
  /\ active' = (hwNext # tdesc)
  /\ UNCHANGED <<isRx, ring, soft, halted, err, tdesc>>

(* The engine halts on an error, always on a BD already completed. *)
HwError ==
  /\ ~halted /\ active
  /\ halted' = TRUE /\ err' = TRUE /\ active' = FALSE
  /\ cdesc' = hwNext
  /\ UNCHANGED <<isRx, ring, bds, soft, tdesc, hwNext>>
-----------------------------------------------------------------------------
Next ==
  \/ BdRingCreate
  \/ \E templateEof \in BOOLEAN : BdRingClone(templateEof)
  \/ \E n \in 1 .. N : BdRingAlloc(n)
  \/ \E n \in 1 .. N, b \in Bd : BdRingUnAlloc(n, b)
  \/ \E n \in 1 .. N, b \in Bd, sof \in BOOLEAN, eofs, empty \in SUBSET Bd :
        BdRingToHw(n, b, sof, eofs, empty)
  \/ \E n \in 1 .. N, b \in Bd, k \in 0 .. N : BdRingToHwRejected(n, b, k)
  \/ \E limit \in 1 .. N, k, r \in 0 .. N : BdRingFromHw(limit, k, r)
  \/ \E n \in 1 .. N, b \in Bd : BdRingFree(n, b)
  \/ BdRingStart
  \/ Resume
  \/ ResumeAgain
  \/ StartBdRingHwTail
  \/ Pause
  \/ ResetSnapShot
  \/ ResetWrite
  \/ \E last \in BOOLEAN : HwComplete(last)
  \/ HwError

Spec == Init /\ [][Next]_vars

(* The engine keeps processing (strong fairness, since with the kickRace   *)
(* window shut a call may hold it up for an instant) and a call that has   *)
(* begun returns; nobody is bound to call the driver.                      *)
FairSpec ==
  /\ Spec
  /\ SF_vars(\E last \in BOOLEAN : HwComplete(last))
  /\ WF_vars(StartBdRingHwTail)
  /\ WF_vars(ResumeAgain)
  /\ WF_vars(ResetWrite)
-----------------------------------------------------------------------------
RingType ==
  /\ freeHead \in Bd /\ preHead \in Bd /\ hwHead \in Bd
  /\ hwTail \in Bd /\ postHead \in Bd
  /\ freeCnt \in 0 .. N /\ preCnt \in 0 .. N
  /\ hwCnt \in 0 .. N /\ postCnt \in 0 .. N

BdsType == cmplt \in [Bd -> BOOLEAN] /\ eof \in [Bd -> BOOLEAN]

SoftType ==
  /\ bdaRestart \in Bd \cup {NoBd}
  /\ runState \in {"HALTED", "NOT_HALTED"}
  /\ pc \in {"ready", "again", "kick", "reset"}
  /\ again \in BOOLEAN

EngineType ==
  /\ halted \in BOOLEAN /\ err \in BOOLEAN /\ active \in BOOLEAN
  /\ cdesc \in Bd \cup {NoBd}
  /\ tdesc \in Bd \cup {NoBd}
  /\ hwNext \in Bd \cup {NoBd}

StateType == RingType /\ BdsType /\ SoftType /\ EngineType

TypeOK == isRx \in BOOLEAN /\ StateType

(* XAxiDma_BdRingCheck's counters, and what it does not look at: whatever  *)
(* the calls and their arguments, the four groups follow one another round *)
(* the ring without a gap or an overlap, and HwTail ends the work group.   *)
GroupLayout ==
  /\ freeCnt + preCnt + hwCnt + postCnt = N
  /\ hwHead = SeekAhead(postHead, postCnt)
  /\ preHead = SeekAhead(hwHead, hwCnt)
  /\ freeHead = SeekAhead(preHead, preCnt)
  /\ hwCnt > 0 => preHead = SeekAhead(hwTail, 1)

(* The engine has completed the first d BDs of the work group, no others.  *)
Completed(d) ==
  /\ d <= hwCnt
  /\ \A j \in 0 .. hwCnt - 1 : cmplt[SeekAhead(hwHead, j)] <=> j < d

(* The BDs of the work group complete in the order in which they were      *)
(* handed over, and a channel that runs goes on with the oldest pending    *)
(* one: also after a pause, an error or a reset none is passed over.       *)
InOrder ==
  \E d \in 0 .. N :
    /\ Completed(d)
    /\ ~halted => hwNext = SeekAhead(hwHead, d)

(* The engine works on pending BDs of the work group only, never on one    *)
(* that the application holds: the BD it fetches next and the one that     *)
(* ends its run are both there, in this order.                             *)
EngineKeepsToWork ==
  active => \E d, e \in 0 .. hwCnt - 1 :
              /\ d <= e
              /\ hwNext = SeekAhead(hwHead, d) /\ tdesc = SeekAhead(hwHead, e)
              /\ \A j \in d .. e : ~cmplt[SeekAhead(hwHead, j)]

(* XAxiDma_BdRingFromHw hands out completed BDs and whole packets: of a    *)
(* packet that the engine has completed in part, no BD is in the           *)
(* post-work group.                                                        *)
PostWorkIsWhole ==
  postCnt > 0 => /\ eof[SeekAhead(postHead, postCnt - 1)]
                 /\ \A j \in 0 .. postCnt - 1 : cmplt[SeekAhead(postHead, j)]

(* Every BD that waits in the work group of a running ring is completed in *)
(* the end, unless the ring is paused or reset or the engine stops on an   *)
(* error.                                                                  *)
Pending(b) == /\ ~cmplt[b]
              /\ \E j \in 0 .. hwCnt - 1 : SeekAhead(hwHead, j) = b

PendingCompletes ==
  \A b \in Bd : Pending(b) /\ runState = "NOT_HALTED"
                 ~> ~Pending(b) \/ runState = "HALTED" \/ err

(* The ring implements the pipeline: the groups, read off the heads and    *)
(* the counts, are its queues.                                             *)
Group(head, cnt) == [i \in 1 .. cnt |-> SeekAhead(head, i - 1)]

Pipeline == INSTANCE BdPipeline WITH
  free <- Group(freeHead, freeCnt),
  preWork <- Group(preHead, preCnt),
  work <- Group(hwHead, hwCnt),
  done <- Cardinality({j \in 0 .. hwCnt - 1 : cmplt[SeekAhead(hwHead, j)]}),
  postWork <- Group(postHead, postCnt)

(* No call, with whatever arguments, and no step of the engine loses,      *)
(* duplicates or overtakes a BD.                                           *)
RefinesPipeline == Pipeline!Spec
=============================================================================
