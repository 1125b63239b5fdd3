------------------------------- MODULE MCWire --------------------------------
(***************************************************************************)
(* Everything that is written to a connection or a file and read again:    *)
(* the chunk protocol with its messages in flight, and the codings of what *)
(* the messages and files hold.  They share no state: a behaviour is about *)
(* one part and leaves the other alone.                                    *)
(***************************************************************************)
EXTENDS ChunkProtocol, Codings

\* A one byte IDR unit, a longer one, an inter frame with the bytes of a
\* start code in it, an access unit delimiter.
MCUnits == {<<5>>, <<101, 7>>, <<1, 0, 5>>, <<9, 16>>}

MCFrame(medium, size, dts, pts, key) ==
    [medium |-> medium, size |-> size, dts |-> dts, pts |-> pts, key |-> key]

\* A key frame whose second packet lacks one byte, a frame too long for its
\* length to be declared, one packet of audio.
MCTsFrames == {MCFrame("video", 340, 1073741914, 1073742004, TRUE), MCFrame("video", 600, 180, 180, FALSE),
               MCFrame("audio", 20, 90, 90, FALSE)}

MCTsCodecs == {<<"AAC", "AVC">>, <<"MP3", "Disabled">>}

VARIABLE part

wireVars == <<part, vars, allCodingVars>>

WireInit ==
    /\ part \in {"protocol", "codings"}
    /\ Init /\ CodingInit
    /\ part = "codings" => ~peer.ext_in_c3

WireNext ==
    \/ part = "protocol" /\ Next /\ UNCHANGED <<part, allCodingVars>>
    \/ part = "codings" /\ CodingNext /\ UNCHANGED <<part, vars>>

WireSpec == WireInit /\ [][WireNext]_wireVars
=============================================================================
