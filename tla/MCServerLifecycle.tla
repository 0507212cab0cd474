------------------------- MODULE MCServerLifecycle -------------------------
(***************************************************************************)
(* A small instance of ServerLifecycle for TLC: HTTPS and HTTP, a stream,  *)
(* a change of the settings and a shutdown request, any two of them.       *)
(***************************************************************************)
EXTENDS ServerLifecycle

CONSTANTS play, set, quit

BothServers == <<"https", "http">>
AllRequests == {play, set, quit}
Kinds == [r \in AllRequests |->
            IF r = play THEN "stream" ELSE IF r = set THEN "settings" ELSE "shutdown"]
=============================================================================
