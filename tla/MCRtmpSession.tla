--------------------------- MODULE MCRtmpSession ----------------------------
EXTENDS RtmpSession

CONSTANTS c1, c2

\* Pairs of clients: publishers and players of each kind meet, and each kind
\* of refusal is among them.
MCKinds == {[x \in {c1, c2} |-> IF x = c1 THEN p[1] ELSE p[2]] :
            p \in {<<"fmle", "play">>, <<"flash", "fmle">>,
                   <<"haivision", "idle">>, <<"direct", "nameless">>,
                   <<"play", "nowhere">>}}

\* The handshakes of two connections have nothing in common: one varies.
MCSchemas == [x \in {c1, c2} |-> IF x = c1 THEN {0, 1, Simple, Encrypted} ELSE {Simple}]

MCOffsets == {<<0, 3>>, <<5, 1>>}
=============================================================================
