------------------------------ MODULE MCShell ------------------------------
(* The words of the runs of Shell.                                         *)
EXTENDS Shell

MCPlain == {<<"a", "n">>, <<"x">>, <<"c">>}
MCQuoted == {<<"a", "sp", "#">>, <<"dq", "bs", "dq">>, <<"sq", "bs", "n">>,
             <<"a", "nl", "|">>, <<>>}
MCOps == {<<"|">>, <<"|", "|">>, <<">">>, <<"&">>}

(* Of the kind of "some text\" with quote", task_eng.txt:89.               *)
MCExample == {<<"a", "dq", "sp", "a">>}
=============================================================================
