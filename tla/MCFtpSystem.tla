----------------------------- MODULE MCFtpSystem -----------------------------
(***************************************************************************)
(* FtpSystem with the bounds TLC checks it under.  Of one file the client  *)
(* has the first half and the server all, of the other the reverse.        *)
(***************************************************************************)
EXTENDS FtpSystem

CONSTANTS f, g

MCRemote == [x \in {f, g} |-> IF x = f THEN 2 ELSE 1]
MCLocal == [x \in {f, g} |-> IF x = f THEN 1 ELSE 2]

MCCommands == [cmd : {"get", "reget", "ls", "PASV", "PORT"}, file : {f}] \cup
              [cmd : {"put", "reput"}, file : {g}]
MCGets == [cmd : {"get"}, file : {f, g}]
=============================================================================
