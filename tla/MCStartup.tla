------------------------------ MODULE MCStartup ------------------------------
(* Three clients: their ids as they should be, two of them equal, and all those the server has no port for. *)
EXTENDS Startup

MCClients == 1 .. 3
MCCommandLines == {<<3, 1, 2>>, <<1, 1, 2>>, <<-1, 0, 4>>}
=============================================================================
