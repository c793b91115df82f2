---------------------------- MODULE MCBoardTests ----------------------------
(* Bytes of two bits: words of 2, 4 and 8 bits; blocks shorter and longer  *)
(* than a word has bits, than its values and than the counter of bytes.    *)
(* Engines with two channels that fail in one way, and with anything less. *)
EXTENDS BoardTests

TheDefaults == [bytes \in {1, 2, 4} |-> CASE bytes = 1 -> 2 [] bytes = 2 -> 13 [] bytes = 4 -> 222]

Built(has, hasSg, dre, resets, errs, drops, fresh) ==
  [has |-> has, hasSg |-> hasSg, dre |-> dre, resets |-> resets, errs |-> errs, drops |-> drops, fresh |-> fresh]
TheBoards ==
  {Built(Dir, FALSE, FALSE, TRUE, errs, drops, fresh) : errs, fresh \in BOOLEAN, drops \in 0 .. Tries}
  \cup {Built(has, hasSg, TRUE, resets, FALSE, 0, TRUE) : has \in SUBSET Dir \ {{}}, hasSg, resets \in BOOLEAN}
=============================================================================
