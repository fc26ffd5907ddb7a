----------------------------- MODULE MCFraming ------------------------------
(* Instances of Framing for TLC. *)
EXTENDS Framing, TLC

Msg(v, n, dl, off, data) ==
    [version |-> v, len |-> n, dlen |-> dl, offset |-> off, data |-> data]

\* Answers of an owserver: an acknowledgement, a value and its final zero,
\* one that fills the length allowed, "busy" with the persistence bit in the
\* offset, a wrong version, a payload longer than allowed, and a length without a meaning.
Replies == {
    Msg(0, 0, 3, 0, <<>>),
    Msg(0, 2, 1, 0, <<1, 0>>),
    Msg(0, 3, 3, 0, <<1, 0, 1>>),
    Msg(0, -1, 0, 32768, None),
    Msg(1, 0, 0, 0, <<>>),
    Msg(0, 5, 5, 0, <<1, 1, 1, 1, 1>>),
    Msg(0, -1, 1, 0, None)}
=============================================================================
