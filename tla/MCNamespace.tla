----------------------------- MODULE MCNamespace -----------------------------
(***************************************************************************)
(* Namespace with the bounds TLC checks it under: a directory "a" that may *)
(* hold "b", and "ab", whose name starts like the first; and beside the    *)
(* root "ftp" a directory whose name starts like the root's.               *)
(***************************************************************************)
EXTENDS Namespace

MCRoot == <<"srv", "ftp">>
MCNodes == {<<"srv", "ftp", "a">>, <<"srv", "ftp", "a", "b">>, <<"srv", "ftp", "ab">>,
            <<"srv", "ftps">>}
MCBegins == {<<"a", "ab">>, <<"ftp", "ftps">>}

MCArguments ==
  [absolute : {TRUE}, names : {<<"a">>, <<"a", "b">>, <<"..", "ftps">>}] \cup
  [absolute : {FALSE}, names : {<<"..">>, <<"b">>, <<"..", ".", "ab">>}]
=============================================================================
