------------------------------- MODULE Keeping -------------------------------
(***************************************************************************)
(* The members of a sequence that a loop does not skip, in their order: what *)
(* SelectSeq returns for a test that is membership in a set, written as a     *)
(* function of how far the loop has come, so that it can be reasoned about.  *)
(***************************************************************************)
EXTENDS Naturals, Sequences

(* What is kept of the first i members of s.                                *)
Kept(s, S) ==
    LET kept[i \in 0 .. Len(s)] ==
            IF i = 0 THEN <<>>
            ELSE IF s[i] \in S THEN Append(kept[i - 1], s[i])
            ELSE kept[i - 1]
    IN  kept

Keep(s, S) == Kept(s, S)[Len(s)]

=============================================================================
