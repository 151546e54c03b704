----------------------------- MODULE Selection ------------------------------
(***************************************************************************)
(* The loops that sort the packets of a burst, or the features of an arc:  *)
(* one pass over an array, in which what is wanted is put behind what was  *)
(* wanted before.                                                          *)
(***************************************************************************)
EXTENDS Integers, Sequences

\* What the loop has kept of s when it is over: the elements that are in S.
Selected(s, S) ==
  LET kept[k \in 0 .. Len(s)] ==
        IF k = 0 THEN <<>>
        ELSE IF s[k] \in S THEN Append(kept[k - 1], s[k]) ELSE kept[k - 1]
  IN  kept[Len(s)]

=============================================================================
