------------------------------ MODULE MCServer ------------------------------
(***************************************************************************)
(* Server with two clients.  One asks for / and repeats the Connection     *)
(* header, then asks for a missing file with a header longer than          *)
(* MAX_SIZE; the other sends a body, to a method that is not supported,    *)
(* and then asks for a file on the same connection.                        *)
(***************************************************************************)
EXTENDS Server

CONSTANTS c1, c2

Get(name, connection, head) ==
  [method |-> "GET", name |-> name, connection |-> connection,
   content_length |-> << >>, head |-> head, body |-> 0]
Post(name, body) ==
  [method |-> "POST", name |-> name, connection |-> << "Keep-Alive" >>,
   content_length |-> << body, 0 >>, head |-> 1, body |-> body]

TwoClients ==
  (c1 :> << Get("/", << "Keep-Alive", "close" >>, 2), Get("missing", << >>, 3) >>) @@
  (c2 :> << Post("form", 2), Get("page", << "close" >>, 1) >>)

Descriptors == 1..4
Web == {"index.html", "page"}
=============================================================================
