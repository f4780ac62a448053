--------------------------- MODULE MCEntryTraversal ---------------------------
(* Every walk over three keys, with plain texts; and one or two entries, the    *)
(* first with every kind of text in every kind of encoding.                   *)
EXTENDS EntryTraversal

Plain == [raw |-> <<120>>, size |-> "short", stripped |-> <<120>>, scsu |-> None]

Alike == [key |-> <<97>>, index |-> 0]
Looks == {Alike, [key |-> <<97>>, index |-> 1], [key |-> <<98>>, index |-> 0]}

MCPosition == {"p1", "p2", "p3"}

Counts == -1 .. 4

Words(bytes, n) == UNION {[1 .. k -> bytes] : k \in 0 .. n}

Simple(raw) == [raw |-> raw, size |-> "short", stripped |-> raw, scsu |-> None]

\* Texts with the encoding they are in.
Sources ==
    \* at the edges of every form of UTF-8
    ({Simple(w) : w \in Words({65, 128, 143, 159, 160, 191, 193, 194, 224, 237}, 3)} \X {"utf-8"})
    \cup ({Simple(<<a, b, c, d>>) : a \in {240, 244, 245}, b \in {128, 143, 144},
                                  c \in {128, 194}, d \in {65, 191}} \X {"utf-8"})
    \* markup, entities and quotes, closed and not
    \cup ({Simple(w) : w \in Words({32, 34, 38, 59, 60, 62, 120}, 4)} \X {""})
    \* what JSON escapes, NUL, and bytes above ASCII
    \cup ({Simple(w) : w \in Words({0, 1, 8, 10, 31, 34, 92, 255}, 2)} \X Encodings)
    \* byte order marks and surrogates
    \cup ({Simple(w) : w \in Words({0, 65, 216, 220, 254, 255}, 4)} \X {"utf-16"})
    \* lengths, and what the engine makes of a text
    \cup ({[raw |-> raw, size |-> size, stripped |-> stripped, scsu |-> scsu] :
               raw \in {<<255>>, <<195, 191>>}, size \in {"short", "swelling", "long"},
               stripped \in {<<>>, <<195>>}, scsu \in {None, Some(<<65>>), Some(<<0>>)}}
          \X Encodings)

AnyWalk ==
    \E first \in {"none", "p1"}, next \in [Position -> Position \cup {"end", "error"}],
       look \in [Position -> Looks], unreadable \in {{}, {"p2"}},
       dictionary \in BOOLEAN, count \in Counts :
        /\ look["p1"] = Alike
        /\ dictionary \/ count = 0
        /\ engine = [first |-> first, next |-> next, look |-> look, unreadable |-> unreadable,
                     dictionary |-> dictionary, count |-> count, encoding |-> "utf-8",
                     text |-> [p \in Position |-> Plain]]

AnyText ==
    \E source \in Sources :
        engine = [first |-> "p1", unreadable |-> {},
                  next |-> [p \in Position |-> IF p = "p1" /\ Len(source[1].raw) \in 1 .. 2
                                               THEN "p2" ELSE "end"],
                  look |-> [p \in Position |-> [Alike EXCEPT !.index = IF p = "p1" THEN 0 ELSE 1]],
                  dictionary |-> FALSE, count |-> 0,
                  encoding |-> source[2],
                  text |-> [p \in Position |-> IF p = "p1" THEN source[1] ELSE Plain]]

MCInit == (AnyWalk \/ AnyText) /\ Start

MCSpec == MCInit /\ [][Next]_vars /\ WF_vars(Next)
=============================================================================
