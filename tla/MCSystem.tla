------------------------------- MODULE MCSystem -------------------------------
(* TLC instances of the whole system. *)
EXTENDS HvacSystem, TLC

\* Two files, of two units and of one.
MCSize == [p \in Paths |-> IF p = CHOOSE q \in Paths : TRUE THEN 2 ELSE 1]

\* A read that can come up short; a pread inside the longer file and at the
\* end of the shorter one.
MCReadArgs == {<<2, -1>>, <<2, 1>>}

\* To the start; back, possibly before the start; past the end.
MCSeekArgs == {<<0, "SEEK_SET">>, <<-2, "SEEK_CUR">>, <<1, "SEEK_END">>}

\* One call of each kind, which leave positions alone: for runs about
\* descriptors, not about contents.
MCOneRead == {<<2, 1>>}

MCOneSeek == {<<0, "SEEK_SET">>}

NoArgs == {}

\* Clients and their descriptors are interchangeable.  Files are not: they
\* have lengths.  For runs that check safety only (invariants, and PosixFiles,
\* which has no fairness and treats all clients alike).
Symmetry == Permutations(Clients) \cup Permutations(LocalFds)
=============================================================================
