----------------------------- MODULE BoardTests -----------------------------
(* The tests with which a bare-metal program looks at its board: one of    *)
(* the memory tests, or a client of the DMA engine, its example first of   *)
(* all. One program runs; the state of the other rests.                    *)
EXTENDS MemTest, SimpleDma

VARIABLE test
boardVars == <<memVars, dmaVars, test>>

MemRests == fault = [kind |-> "none"]
DmaRests == /\ client = "any" /\ board = CHOOSE b \in Boards : ~b.hasSg
            /\ flight = Both(0) /\ rxBuf = 0

BoardInit ==
  /\ MemInit /\ DmaInit
  /\ \/ test = "memory" /\ DmaRests
     \/ test = "dma" /\ MemRests

InMemory(step) == test = "memory" /\ step /\ UNCHANGED <<dmaVars, test>>
InDma(step) == test = "dma" /\ step /\ UNCHANGED <<memVars, test>>

BoardNext == InMemory(MemNext) \/ InDma(DmaNext)

BoardSpec ==
  /\ BoardInit /\ [][BoardNext]_boardVars
  /\ WF_boardVars(InDma(Example)) /\ WF_boardVars(InDma(Engine))
=============================================================================
