---------------------------- MODULE MCFrameCodec ----------------------------
EXTENDS FrameCodec

MCScrambler == [j \in 0 .. SIZE - 1 |-> (3 * j + 1) % FIELD]
MCFrames == {[b \in 1 .. COUNT |-> [i \in 1 .. MESSAGE |-> (b + 2 * i) % FIELD]]}

MCHits == << [at |-> {2 * i : i \in 0 .. 3}, by |-> {1, 2, 5}, most |-> 4],
             [at |-> 0 .. SIZE - 1, by |-> {3}, most |-> 2] >>
=============================================================================
