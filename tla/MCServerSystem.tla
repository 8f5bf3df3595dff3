---------------------------- MODULE MCServerSystem ----------------------------
(***************************************************************************)
(* ServerSystem on a small tree, with a transfer that lists and one that   *)
(* stores: fewer processes than connections and transfers, and a queue of  *)
(* one.                                                                    *)
(***************************************************************************)
EXTENDS ServerSystem

MCRoot == <<"srv", "ftp">>
MCNodes == {<<"srv", "ftp", "a">>, <<"srv", "ftp", "a", "b">>}
MCBegins == {}

MCArguments ==
  [absolute : {TRUE}, names : {<<"a">>, <<"a", "b">>}] \cup
  [absolute : {FALSE}, names : {<<"..">>}]
=============================================================================
