----------------------------- MODULE MCClients -----------------------------
(* An instance of Clients for TLC. *)
EXTENDS Clients

MCText == STRING
Complete == [emptyRequest(0) EXCEPT !.url = "http"]
MCRows == {Complete}

=============================================================================
