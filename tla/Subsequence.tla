---------------------------- MODULE Subsequence ----------------------------
(***************************************************************************)
(* What std::remove_if followed by erase leaves of a std::list: the        *)
(* elements that are kept, in their old order.  It is SelectSeq with the   *)
(* test given as a set, so that theorems can quantify over the test (see   *)
(* RouterProofs).                                                          *)
(***************************************************************************)
EXTENDS Naturals, Sequences

Kept(s, K) ==
    LET upTo[i \in 0 .. Len(s)] ==
            IF i = 0 THEN << >>
            ELSE IF s[i] \in K THEN Append(upTo[i - 1], s[i])
                               ELSE upTo[i - 1]
    IN  upTo[Len(s)]

\* The set of the elements of a sequence.
ElementsOf(s) == {s[i] : i \in DOMAIN s}

\* How many elements of s are in K.
CountOf(s, K) == Len(Kept(s, K))
=============================================================================
