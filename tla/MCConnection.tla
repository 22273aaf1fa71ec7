---------------------------- MODULE MCConnection ----------------------------
(* Frames for the runs of Connection: every kind, and bulk strings that hold *)
(* what delimits frames.                                                     *)
EXTENDS Connection

Literals ==
    {Simple(<<"a">>), Error(<<>>), Integer(10), Null, Bulk(<<>>),
     Bulk(<<"CR", "LF">>), Bulk(<<"x80", "-", "1">>)}
MCFrames ==
    Literals \cup {Array(<<>>), Array(<<Bulk(<<"$">>), Integer(7)>>),
                   Array(<<Null, Simple(<<"+">>)>>)}
MCBytes == Marks \cup {"a", "x80"}

=============================================================================
