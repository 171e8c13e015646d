----------------------------- MODULE ByteStream -----------------------------
(***************************************************************************)
(* What a stream socket promises in one direction: bytes come out in the   *)
(* order in which they went in, none twice and none left out.              *)
(***************************************************************************)
EXTENDS Sequences, SequencesExt

VARIABLES sent,      \* the bytes that went in
          received   \* the bytes that came out

Init == sent = <<>> /\ received = <<>>

Grows(s, t) == IsPrefix(s, t)

Next == /\ Grows(sent, sent') /\ Grows(received, received')
        /\ IsPrefix(received', sent')

Spec == Init /\ [][Next]_<<sent, received>>
=============================================================================
