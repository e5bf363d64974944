---------------------------- MODULE Subsequences ----------------------------
(***************************************************************************)
(* What is left of a sequence when some of its elements are taken out:     *)
(* the queues of the dispatcher and of the run loop lose the tasks of an   *)
(* object with the object, and a vector what std::remove_if finds.         *)
(* SelectSeq of the standard module says the same with a predicate for the *)
(* indices; the definition here is one the provers can reason about.       *)
(***************************************************************************)
EXTENDS Naturals, Sequences

\* The elements of s at the indices kept, in their order.
Kept(s, kept) ==
    LET upto[i \in 0..Len(s)] ==
            IF i = 0 THEN <<>>
            ELSE IF i \in kept THEN Append(upto[i - 1], s[i])
            ELSE upto[i - 1]
    IN  upto[Len(s)]
=============================================================================
