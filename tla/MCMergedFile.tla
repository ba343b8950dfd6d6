------------------------------ MODULE MCMergedFile -----------------------------
EXTENDS MergedFile

CONSTANTS d1, d2

\* The home directory of d1 sorts before the plain texts, that of d2 after them.
MCByteOrder ==
    [t \in {Token, Home(d1), Home(d2), Plain("a"), Plain("b")} |->
        CASE t = Token -> 0 [] t = Home(d1) -> 1 [] t = Plain("a") -> 2
          [] t = Plain("b") -> 3 [] t = Home(d2) -> 4]

Entry(id, time, text) == [object |-> TRUE, id |-> id, time |-> time, text |-> text]
Junk(text) == [object |-> FALSE, id |-> 0, time |-> Missing, text |-> text]

\* History: two lines of one instant, an earlier one with a path, one without
\* a timestamp.  Index: two entries of one thread at one instant, written
\* differently; an entry of another thread with a path; a line that is no entry.
MCAppended ==
    [p \in Paths |->
        IF p = History
        THEN {Entry(0, Stamp(2, 2), Plain("a")), Entry(0, Stamp(2, 2), Plain("b")),
              Entry(0, Stamp(1, 1), Mine), Entry(0, Missing, Plain("a"))}
        ELSE {Entry(1, Stamp(2, 2), Plain("a")), Entry(1, Stamp(2, 3), Plain("b")),
              Entry(1, Stamp(3, 4), Mine), Entry(2, Stamp(1, 1), Mine), Junk(Plain("b"))}]

\* A prompt that holds ${HOME} as it stands, and one that does not.
LiteralToken ==
    [p \in Paths |->
        IF p = History THEN {Entry(0, Stamp(1, 1), Token), Entry(0, Stamp(2, 2), Plain("a"))}
        ELSE {}]

\* Two prompts of one instant, one with a path: every device sorts its own bytes.
TiedLines ==
    [p \in Paths |->
        IF p = History THEN {Entry(0, Stamp(2, 2), Plain("a")), Entry(0, Stamp(2, 2), Mine)} ELSE {}]
================================================================================
