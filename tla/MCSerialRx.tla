------------------------------ MODULE MCSerialRx ------------------------------
(* Requests of up to two bytes of the codes that matter, one that is too long to
   be received and one the console cannot encode. *)
EXTENDS SerialRx

\* START, STOP, HANDSHAKE, ESCAPE and ASCII ESC, the codes of two of them, a plain byte
Codes == {160, 165, 166, 170, 27, 176, 59, 1}

MCPayloads == {<<160, 165>>, <<170, 176>>, <<27>>, <<1, 59>>, <<1, 1, 160, 1>>, <<160, 160, 160, 160>>}

MCKeys == {1}

MCNoise == {160, 165, 1}

\* On every input of up to three bytes decoding undoes the stuffing.
ASSUME RoundTrip ==
    \A p \in UNION {[1..n -> Codes] : n \in 0..3} :
        DecodeSerialPkt(Body(p)) = p /\ Delimited(Body(p))

=============================================================================
