----------------------------- MODULE EchoServer -----------------------------
(***************************************************************************)
(* ds11: the server that sends every message back in reverse, one          *)
(* connection after the other.  A stream is cut into units: the name of a  *)
(* format, a newline, a character, or the int that says how many           *)
(* characters follow.                                                      *)
(***************************************************************************)
EXTENDS Naturals, Sequences, FiniteSetsExt

CONSTANTS
  Client, Format, Messages,   \* who connects, with what format, to send what
  ASCII, BIN, NEWLINE, NULL,  \* units of the stream; the others are characters
  INIT_BUF

VARIABLES
  pc, csock,                  \* main: where it is, and the connection
  mesg, buf_size, capacity,   \* the buffer: what was read into it, what main
                              \* believes of its size, and its allocation
  size, len,                  \* locals of read_to_nl and of handle_bin
  met, gone,                  \* the clients that were accepted, and that left
  unsent, wire,               \* the units each has yet to send; those not read yet
  replies,                    \* the messages that it got back
  dropped                     \* history: those of whom something was read too early

bufVars == << mesg, buf_size, capacity, size >>
clientVars == << met, gone, unsent >>
vars == << pc, csock, bufVars, len, clientVars, wire, replies, dropped >>

\* The client of ds11_client.c: the format and, without waiting, the first
\* message; then a message for each reply.
Encoded(c, m) == IF Format[c] = ASCII THEN m \o << NEWLINE >> ELSE << Len(m) >> \o m
Due(c, n) == IF n < Len(Messages[c]) THEN Encoded(c, Messages[c][n + 1]) ELSE << >>

Init ==
  /\ pc = "accept" /\ csock = NULL
  /\ mesg = << >> /\ buf_size = 0 /\ capacity = 0 /\ size = 0 /\ len = 0
  /\ met = {} /\ gone = {} /\ dropped = {}
  /\ unsent = [c \in Client |-> << Format[c], NEWLINE >> \o Due(c, 0)]
  /\ wire = [c \in Client |-> << >>] /\ replies = [c \in Client |-> << >>]
-----------------------------------------------------------------------------
Send(c) ==
  /\ c \in met \ gone /\ unsent[c] # << >>
  /\ wire' = [wire EXCEPT ![c] = Append(@, Head(unsent[c]))]
  /\ unsent' = [unsent EXCEPT ![c] = Tail(@)]
  /\ UNCHANGED << pc, csock, bufVars, len, met, gone, replies, dropped >>

Leave(c) ==
  /\ c \in met \ gone
  /\ gone' = gone \cup {c}
  /\ UNCHANGED << pc, csock, bufVars, len, met, unsent, wire, replies, dropped >>
-----------------------------------------------------------------------------
\* read_to_nl begins, with b in *bufsize.  What it leaves there in the end
\* is one less than it has allocated, and it takes one more off next time.
StartLine(b) ==
  /\ mesg' = << >> /\ buf_size' = b
  /\ size' = IF b > 1 THEN b - 1 ELSE INIT_BUF
  /\ capacity' = IF size' + 1 > b THEN size' + 1 ELSE capacity

accept(c) ==
  /\ pc = "accept" /\ c \notin met
  /\ met' = met \cup {c} /\ csock' = c
  /\ pc' = "format" /\ StartLine(buf_size)
  /\ UNCHANGED << len, gone, unsent, wire, replies, dropped >>

\* The client has left before the welcome is written, which fails.
welcome_fails(c) ==
  /\ pc = "accept" /\ c \notin met
  /\ met' = met \cup {c} /\ gone' = gone \cup {c} /\ csock' = c
  /\ UNCHANGED << pc, bufVars, len, unsent, wire, replies, dropped >>

Arrived == IF csock = NULL THEN << >> ELSE wire[csock]
AtEnd == Arrived = << >> /\ csock \in gone
Take(n) == /\ mesg' = mesg \o SubSeq(Arrived, 1, n)
           /\ wire' = [wire EXCEPT ![csock] = SubSeq(@, n + 1, Len(@))]

Newlines == {i \in DOMAIN mesg : mesg[i] = NEWLINE}
InLine == pc \in {"format", "ascii"} /\ Newlines = {}
Room == IF size = Len(mesg) THEN 2 * size ELSE size

ReadLine ==
  /\ InLine /\ Arrived # << >>
  /\ size' = Room /\ capacity' = (IF Room = size THEN capacity ELSE Room + 1)
  /\ Take(Min({Len(Arrived), Room - Len(mesg)}))
  /\ UNCHANGED << pc, csock, buf_size, len, clientVars, replies, dropped >>

\* What follows the line in the buffer is lost.
LineEnd == Min(Newlines)
Lose == dropped' = IF Len(mesg) > LineEnd THEN dropped \cup {csock} ELSE dropped

Serve(service) ==
  \/ service = ASCII /\ pc' = "ascii" /\ StartLine(size)
  \/ service = BIN /\ pc' = "length" /\ buf_size' = size /\ UNCHANGED << mesg, size, capacity >>

ChooseService ==
  /\ pc = "format" /\ ~InLine
  /\ Serve(mesg[1]) /\ Lose
  /\ UNCHANGED << csock, len, clientVars, wire, replies >>

\* At the end of the stream read_to_nl returns NULL - *buffer, cut to an
\* int.  When that is negative main leaves the connection; when not, a
\* format is read from what the buffer holds, or reverse_string runs off it.
LineCutOff ==
  /\ InLine /\ AtEnd
  /\ \/ pc' = "accept" /\ buf_size' = size /\ UNCHANGED << mesg, size, capacity >>
     \/ pc = "format" /\ \E service \in {ASCII, BIN} : Serve(service)
     \/ pc = "ascii" /\ pc' = "down" /\ UNCHANGED bufVars
  /\ UNCHANGED << csock, len, clientVars, wire, replies, dropped >>

\* write to a client that has left may raise SIGPIPE, which ends the server;
\* or it succeeds once more.
Write(m) ==
  IF csock \in gone THEN UNCHANGED << replies, unsent >>
  ELSE /\ replies' = [replies EXCEPT ![csock] = Append(@, m)]
       /\ unsent' = [unsent EXCEPT ![csock] = @ \o Due(csock, Len(replies[csock]) + 1)]
Sigpipe ==
  /\ pc \in {"format", "ascii", "text"} /\ csock \in gone
  /\ pc' = "down"
  /\ UNCHANGED << csock, bufVars, len, clientVars, wire, replies, dropped >>

\* write_all that fails without the signal: the handler returns its negative
\* result, and main leaves the connection.
HasLine == pc = "ascii" /\ ~InLine
HasText == pc = "text" /\ (Len(mesg) = len \/ AtEnd)
write_fails ==
  /\ csock \in gone
  /\ \/ HasLine /\ buf_size' = size
     \/ HasText /\ buf_size' = buf_size
  /\ pc' = "accept"
  /\ UNCHANGED << csock, mesg, capacity, size, len, clientVars, wire, replies, dropped >>

reverse_string(str) == [i \in 1..Len(str) |-> str[Len(str) + 1 - i]]

handle_ascii ==
  /\ HasLine
  /\ Write(reverse_string(SubSeq(mesg, 1, LineEnd - 1))) /\ Lose
  /\ pc' = pc /\ StartLine(size)
  /\ UNCHANGED << csock, len, met, gone, wire >>

\* read_all of the length.  A character in its place is a number that no
\* message reaches.
TooLong == 100
Number(unit) == IF unit \in Nat THEN unit ELSE TooLong

ReadLengthInPlace ==      \* mutant: the buffer is not enlarged
  /\ pc = "length" /\ Arrived # << >>
  /\ len' = Number(Head(Arrived)) /\ wire' = [wire EXCEPT ![csock] = Tail(@)]
  /\ pc' = "text" /\ mesg' = << >>
  /\ UNCHANGED << csock, buf_size, capacity, size, clientVars, replies, dropped >>

ReadLength ==
  /\ pc = "length" /\ Arrived # << >>
  /\ len' = Number(Head(Arrived)) /\ wire' = [wire EXCEPT ![csock] = Tail(@)]
  /\ IF buf_size < len' THEN buf_size' = len' /\ capacity' = len' ELSE UNCHANGED << buf_size, capacity >>
  /\ pc' = "text" /\ mesg' = << >>
  /\ UNCHANGED << csock, size, clientVars, replies, dropped >>

NoLength ==
  /\ pc = "length" /\ AtEnd
  /\ pc' = "accept"
  /\ UNCHANGED << csock, bufVars, len, clientVars, wire, replies, dropped >>

ReadText ==
  /\ pc = "text" /\ Len(mesg) < len /\ Arrived # << >>
  /\ Take(Min({Len(Arrived), len - Len(mesg)}))
  /\ UNCHANGED << pc, csock, buf_size, capacity, size, len, clientVars, replies, dropped >>

\* That the text was cut off is not looked at.
handle_bin ==
  /\ HasText
  /\ Write(reverse_string(mesg))
  /\ pc' = "length"
  /\ UNCHANGED << csock, bufVars, len, met, gone, wire, dropped >>

Next ==
  /\ pc # "down"
  /\ \/ \E c \in Client : accept(c) \/ welcome_fails(c) \/ Send(c) \/ Leave(c)
     \/ ReadLine \/ ChooseService \/ LineCutOff \/ Sigpipe \/ write_fails
     \/ handle_ascii \/ ReadLength \/ NoLength \/ ReadText \/ handle_bin
Spec == Init /\ [][Next]_vars
-----------------------------------------------------------------------------
(* However a stream is cut into reads, each message comes back as it was,  *)
(* reversed and in its turn, and no read is given more room than the       *)
(* buffer has, whatever sizes the connections before it have left behind;  *)
(* unless the first message arrived together with the format, when         *)
(* read_to_nl has taken it off the socket and main forgets it.             *)
EchoesExact ==
  /\ \A c \in Client \ dropped :
       /\ Len(replies[c]) <= Len(Messages[c])
       /\ \A n \in DOMAIN replies[c] : replies[c][n] = reverse_string(Messages[c][n])
  /\ pc \in {"format", "ascii"} => size + 1 <= capacity
  /\ pc = "text" => len <= capacity
=============================================================================
