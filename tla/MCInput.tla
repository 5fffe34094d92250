------------------------------ MODULE MCInput ------------------------------
(* The bytes for TLC: one of each class that midseq.rs and from_utf8 tell    *)
(* apart.                                                                    *)
EXTENDS Input

\* BEL, CAN, ESC, SP, `0`, `P`, `X`, `[`, `]`, DEL; the lead bytes of two- and
\* three-byte characters (C3, ED), continuation bytes that ED takes (9C, also
\* the C1 string terminator) and does not take (A9).
Classes == {7, 24, 27, 32, 48, 80, 88, 91, 93, 127, 195, 237, 156, 169}

=============================================================================
