-------------------------- MODULE MCCommitReceipts --------------------------
EXTENDS CommitReceipts, TLC

CONSTANTS h1, h2, i1, i2, c1, c2, l1, l2, s1, s2, s3

\* Two invocations that overlap: both reflogs show the two commits, one of which
\* only moves span metadata, and their transcripts have different locators.
MCObserved == i1 :> {c1, c2} @@ i2 :> {c1, c2}
MCLocator == i1 :> l1 @@ i2 :> l2
MCSlot == i1 :> s1 @@ i2 :> s2 @@ c1 :> s3 @@ c2 :> s3

\* The hooks may be exchanged, and so may the invocations, each with its
\* locator and its stripe.
Exchanges == {p @@ q : p \in Permutations(Hook),
                       q \in {i1 :> i1, i1 :> i2 @@ i2 :> i1 @@ l1 :> l2 @@ l2 :> l1
                                                @@ s1 :> s2 @@ s2 :> s1}}

=============================================================================
