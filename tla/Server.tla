------------------------------- MODULE Server -------------------------------
(***************************************************************************)
(* The web server of mp8: server.c with http_read of libhttp.c.  The main  *)
(* thread accepts connections and starts a thread for each; the handler of *)
(* SIGINT interrupts it between any two of its statements.  Threads share  *)
(* the table of descriptors, in which a closed number is given out again,  *)
(* to a connection or to a file.                                           *)
(***************************************************************************)
EXTENDS Naturals, Sequences, FiniteSets, FiniteSetsExt, SequencesExt

CONSTANTS
  Client,         \* the programs that connect, each of them once
  Requests,       \* the requests of each client, one after the other
  Files,          \* the names of the files under web/
  Fd, FREE, NULL, \* descriptor numbers; an unused number; no descriptor, no file
  INITIAL_BUFFER_SIZE, MAX_SIZE, MAX_BODY_LEN      \* in units of the stream

ASSUME SizesAssumption == /\ {INITIAL_BUFFER_SIZE, MAX_SIZE, MAX_BODY_LEN} \subseteq Nat \ {0}
                          /\ IsFiniteSet(Client) /\ IsFiniteSet(Fd)
                          /\ Fd \subseteq Nat /\ Cardinality(Fd) >= 2 * Cardinality(Client)
ASSUME NamesAssumption == /\ NULL \notin Fd /\ FREE \notin Client
                          /\ \A c \in Client : << "file", c >> \notin Client \cup {FREE}
ASSUME RequestsAssumption ==
  \A c \in Client : Requests[c] \in
    Seq([method : STRING, name : STRING, connection : Seq(STRING), content_length : Seq(Nat),
         head : Nat \ {0}, body : Nat])

VARIABLES
  main, k,        \* the main thread, and the index of the handler's loops
  backlog,        \* clients that wait in accept's queue
  accepted,       \* the arrays client_fd and threads: the client of each index
  count,          \* how many of them the handler knows
  fdOf,           \* who each descriptor number belongs to
  pc,             \* what the thread of each client does
  socket, file,   \* its descriptors
  bread, size,    \* http_read: bytes read, size of the buffer
  content,        \* the body of the response
  sent, gone,     \* of the client: units of its request sent, whether it left
  answers         \* the responses that reached the client

mainVars == << main, k, backlog, accepted, count >>
ioVars == << bread, size, content, file >>
clientVars == << sent, gone, answers >>
vars == << mainVars, fdOf, pc, socket, ioVars, clientVars >>

Init ==
  /\ main = "accept" /\ k = 0 /\ count = 0
  /\ backlog = << >> /\ accepted = << >>
  /\ fdOf = [d \in Fd |-> FREE]
  /\ pc = [c \in Client |-> "none"]
  /\ socket = [c \in Client |-> NULL] /\ file = [c \in Client |-> NULL]
  /\ bread = [c \in Client |-> 0] /\ size = [c \in Client |-> INITIAL_BUFFER_SIZE]
  /\ content = [c \in Client |-> NULL]
  /\ sent = [c \in Client |-> 0] /\ gone = [c \in Client |-> FALSE]
  /\ answers = [c \in Client |-> << >>]

Serving == main \in {"accept", "create", "count"}
LowestFree == Min({d \in Fd : fdOf[d] = FREE})
-----------------------------------------------------------------------------
\* The clients.  One that is idle between two requests has sent nothing.
NoRequest == [method |-> "GET", name |-> NULL, connection |-> << >>,
              content_length |-> << >>, head |-> 1, body |-> 0]
Request(c) == IF Len(answers[c]) < Len(Requests[c]) THEN Requests[c][Len(answers[c]) + 1]
                                                    ELSE NoRequest
Connected(c) == c \in ToSet(backlog) \cup ToSet(accepted)

Connect(c) ==
  /\ ~ Connected(c)
  /\ backlog' = Append(backlog, c)
  /\ UNCHANGED << main, k, accepted, count, fdOf, pc, socket, ioVars, clientVars >>

Send(c) ==
  /\ Connected(c) /\ ~ gone[c]
  /\ Len(answers[c]) < Len(Requests[c])
  /\ answers[c] # << >> => Last(answers[c]).connection = "Keep-Alive"
  /\ sent[c] < Request(c).head + Request(c).body
  /\ sent' = [sent EXCEPT ![c] = @ + 1]
  /\ UNCHANGED << mainVars, fdOf, pc, socket, ioVars, gone, answers >>

Leave(c) ==
  /\ Connected(c) /\ ~ gone[c]
  /\ gone' = [gone EXCEPT ![c] = TRUE]
  /\ UNCHANGED << mainVars, fdOf, pc, socket, ioVars, sent, answers >>
-----------------------------------------------------------------------------
\* The main thread, and the handler that runs on it.
Accept ==
  /\ main = "accept" /\ backlog # << >>
  /\ main' = "create"
  /\ backlog' = Tail(backlog)
  /\ accepted' = Append(accepted, Head(backlog))
  /\ fdOf' = [fdOf EXCEPT ![LowestFree] = Head(backlog)]
  /\ socket' = [socket EXCEPT ![Head(backlog)] = LowestFree]
  /\ UNCHANGED << k, count, pc, ioVars, clientVars >>

CreateThread ==
  /\ main = "create"
  /\ main' = "count"
  /\ pc' = [pc EXCEPT ![Last(accepted)] = "read"]
  /\ UNCHANGED << k, backlog, accepted, count, fdOf, socket, ioVars, clientVars >>

Count ==
  /\ main = "count"
  /\ main' = "accept" /\ count' = count + 1
  /\ UNCHANGED << k, backlog, accepted, fdOf, pc, socket, ioVars, clientVars >>

Sigint ==
  /\ Serving
  /\ main' = "close" /\ k' = 1
  /\ UNCHANGED << backlog, accepted, count, fdOf, pc, socket, ioVars, clientVars >>

\* The handler closes the number, whoever it belongs to by now.
CloseNext ==
  /\ main = "close"
  /\ \/ /\ k <= count
        /\ fdOf' = [fdOf EXCEPT ![socket[accepted[k]]] = FREE]
        /\ k' = k + 1 /\ main' = main
     \/ /\ k > count
        /\ k' = 1 /\ main' = "join"
        /\ UNCHANGED fdOf
  /\ UNCHANGED << backlog, accepted, count, pc, socket, ioVars, clientVars >>

JoinNext ==
  /\ main = "join"
  /\ \/ k <= count /\ pc[accepted[k]] = "done" /\ k' = k + 1 /\ main' = main
     \/ k > count /\ k' = k /\ main' = "down"
  /\ UNCHANGED << backlog, accepted, count, fdOf, pc, socket, ioVars, clientVars >>

MainThread == Accept \/ CreateThread \/ Count \/ CloseNext \/ JoinNext
-----------------------------------------------------------------------------
\* http_read.  A repeated header keeps its first value (dictionary_add).
http_get_header(values) == IF values = << >> THEN NULL ELSE Head(values)

\* Where http_read goes on after a read left it with b bytes; `more' is
\* FALSE when the read returned 0 or -1.  It ends in "open" or in "done".
AfterRead(c, b, more) ==
  LET r == Request(c)
      len == http_get_header(r.content_length)
  IN  CASE b < r.head -> IF more /\ size[c] <= MAX_SIZE THEN "read" ELSE "done"
        [] b >= r.head /\ len = NULL -> "open"
        [] OTHER -> IF more /\ b - r.head < len /\ size[c] <= MAX_BODY_LEN THEN "read"
                    ELSE IF b < len THEN "done" ELSE "open"

Goto(c, place) == pc' = [pc EXCEPT ![c] = place]
Owns(c) == fdOf[socket[c]] = c

StartReadInPlace(c) ==      \* mutant: a full buffer is not enlarged
  /\ pc[c] = "read"
  /\ Goto(c, IF Owns(c) /\ bread[c] < size[c] THEN "reading" ELSE AfterRead(c, bread[c], FALSE))
  /\ UNCHANGED << mainVars, fdOf, socket, ioVars, clientVars >>

StartReadAgain(c) ==      \* mutant: http_read tries again when read fails
  /\ pc[c] = "read"
  /\ size' = [size EXCEPT ![c] = IF bread[c] = @ THEN 2 * @ ELSE @]
  /\ Goto(c, IF Owns(c) THEN "reading" ELSE "read")
  /\ UNCHANGED << mainVars, fdOf, socket, bread, content, file, clientVars >>

\* read is called; on a number that is no longer the connection it fails.
StartRead(c) ==
  /\ pc[c] = "read"
  /\ size' = [size EXCEPT ![c] = IF bread[c] = @ THEN 2 * @ ELSE @]
  /\ Goto(c, IF Owns(c) THEN "reading" ELSE AfterRead(c, bread[c], FALSE))
  /\ UNCHANGED << mainVars, fdOf, socket, bread, content, file, clientVars >>

\* read returns what has arrived.  It waits for that even when the
\* descriptor is closed meanwhile.
FinishRead(c) ==
  /\ pc[c] = "reading" /\ sent[c] > bread[c]
  /\ bread' = [bread EXCEPT ![c] = Min({sent[c], size[c]})]
  /\ Goto(c, AfterRead(c, bread'[c], TRUE))
  /\ UNCHANGED << mainVars, fdOf, socket, size, content, file, clientVars >>

EndOfStream(c) ==
  /\ pc[c] = "reading" /\ sent[c] = bread[c] /\ gone[c]
  /\ Goto(c, AfterRead(c, bread[c], FALSE))
  /\ UNCHANGED << mainVars, fdOf, socket, ioVars, clientVars >>
-----------------------------------------------------------------------------
\* work, after http_read.
process_http_header_request(r) ==
  CASE r.method # "GET" \/ r.name = ".." -> NULL
    [] r.name = "/" -> "index.html"
    [] OTHER -> r.name

Status(r) == LET name == process_http_header_request(r)
             IN  IF name = NULL THEN 501 ELSE IF name \in Files THEN 200 ELSE 404
Connection(r) == IF http_get_header(r.connection) = "Keep-Alive" THEN "Keep-Alive" ELSE "close"

OpenFile(c) ==
  /\ pc[c] = "open"
  /\ \/ /\ Status(Request(c)) = 200
        /\ fdOf' = [fdOf EXCEPT ![LowestFree] = << "file", c >>]
        /\ file' = [file EXCEPT ![c] = LowestFree]
        /\ Goto(c, "fread")
        /\ UNCHANGED content
     \/ /\ Status(Request(c)) # 200
        /\ content' = [content EXCEPT ![c] = "error page"]
        /\ Goto(c, "send")
        /\ UNCHANGED << fdOf, file >>
  /\ UNCHANGED << mainVars, socket, bread, size, clientVars >>

\* When the number was closed meanwhile the buffer stays as malloc left it.
ReadFile(c) ==
  /\ pc[c] = "fread"
  /\ content' = [content EXCEPT ![c] = IF fdOf[file[c]] = << "file", c >>
                                       THEN process_http_header_request(Request(c))
                                       ELSE "garbage"]
  /\ Goto(c, "send")
  /\ UNCHANGED << mainVars, fdOf, socket, bread, size, file, clientVars >>

\* send to a connection whose client has left may raise SIGPIPE, which
\* nothing catches: it ends the process.
Sigpipe(c) ==
  /\ pc[c] \in {"send", "content"} /\ Owns(c) /\ gone[c]
  /\ main' = "down"
  /\ UNCHANGED << k, backlog, accepted, count, fdOf, pc, socket, ioVars, clientVars >>

SendHeader(c) ==
  /\ pc[c] = "send"
  /\ Goto(c, "content")
  /\ UNCHANGED << mainVars, fdOf, socket, ioVars, clientVars >>

\* The response and what http_free does; f is the table of descriptors then.
Respond(c, f) ==
  /\ pc[c] = "content"
  /\ IF Owns(c)
     THEN answers' = [answers EXCEPT ![c] = Append(@,
            [status |-> Status(Request(c)), content |-> content[c], connection |-> Connection(Request(c))])]
     ELSE UNCHANGED answers
  /\ fdOf' = f
  /\ file' = [file EXCEPT ![c] = NULL] /\ content' = [content EXCEPT ![c] = NULL]
  /\ bread' = [bread EXCEPT ![c] = 0] /\ sent' = [sent EXCEPT ![c] = 0]
  /\ size' = [size EXCEPT ![c] = INITIAL_BUFFER_SIZE]
  /\ Goto(c, IF Connection(Request(c)) = "Keep-Alive" THEN "read" ELSE "close")
  /\ UNCHANGED << mainVars, socket, gone >>

Freed(d) == IF d = NULL THEN fdOf ELSE [fdOf EXCEPT ![d] = FREE]
SendContentKeepFile(c) == Respond(c, fdOf)      \* mutant: the file is not closed
SendContentClose(c) ==      \* mutant: the socket is closed here and once more below
  Respond(c, IF Connection(Request(c)) = "close" THEN [Freed(file[c]) EXCEPT ![socket[c]] = FREE]
                                                 ELSE Freed(file[c]))
SendContent(c) == Respond(c, Freed(file[c]))

CloseSocket(c) ==
  /\ pc[c] = "close"
  /\ fdOf' = [fdOf EXCEPT ![socket[c]] = FREE]
  /\ Goto(c, "done")
  /\ UNCHANGED << mainVars, socket, ioVars, clientVars >>

Worker(c) ==
  \/ StartRead(c) \/ FinishRead(c) \/ EndOfStream(c)
  \/ OpenFile(c) \/ ReadFile(c) \/ SendHeader(c) \/ SendContent(c) \/ CloseSocket(c)

Next ==
  /\ main # "down"
  /\ \/ MainThread \/ Sigint
     \/ \E c \in Client : Worker(c) \/ Sigpipe(c) \/ Connect(c) \/ Send(c) \/ Leave(c)

(* The threads are scheduled fairly; nothing makes a client send or leave, *)
(* and nothing sends SIGINT.                                               *)
Spec == Init /\ [][Next]_vars
        /\ WF_vars(main # "down" /\ MainThread)
        /\ \A c \in Client : WF_vars(main # "down" /\ Worker(c))
-----------------------------------------------------------------------------
(* A client gets the answers to its own requests, in their order and each  *)
(* with the whole content of its file, however the reads cut the stream    *)
(* and whatever numbers were closed and given out again meanwhile.         *)
AnswersInOrder ==
  Serving => \A c \in Client : \A i \in DOMAIN answers[c] :
    LET r == Requests[c][i]
    IN  answers[c][i] = [status |-> Status(r), connection |-> Connection(r),
                         content |-> IF Status(r) = 200 THEN process_http_header_request(r)
                                                        ELSE "error page"]

(* Until SIGINT no thread uses a number it has closed or that belongs to   *)
(* someone else: a thread owns its connection as long as it runs, has      *)
(* given it back when it left after an answer that says close, and owns    *)
(* its file from fopen to fclose.                                          *)
LeftAfterClose(c) == pc[c] = "done" /\ answers[c] # << >> /\ Last(answers[c]).connection = "close"
DescriptorsOwned ==
  Serving => \A c \in ToSet(accepted) :
    /\ pc[c] # "done" => Owns(c)
    /\ LeftAfterClose(c) => ~ Owns(c)
    /\ pc[c] \in {"fread", "send", "content"} /\ file[c] # NULL => fdOf[file[c]] = << "file", c >>
    /\ \A d \in Fd : fdOf[d] = << "file", c >> => d = file[c]

(* What webserver.html:243-244 asks for: "If the connection is closed, you *)
(* should close the socket and exit the thread"; also when the client has  *)
(* closed it and http_read fails.                                          *)
SocketClosed == Serving => \A c \in ToSet(accepted) : pc[c] = "done" => ~ Owns(c)

\* http_read promises to read a header of up to MAX_SIZE.
HasAsked(c) == /\ Serving /\ ~ gone[c]
               /\ Len(answers[c]) < Len(Requests[c])
               /\ Request(c).head <= MAX_SIZE
               /\ sent[c] = Request(c).head + Request(c).body

(* A client that has sent a whole request does not wait for ever: it gets  *)
(* the answer, and can then not have asked for the next one yet, unless it *)
(* leaves or the server goes down; whatever the other client does.         *)
EveryRequestAnswered == \A c \in Client : HasAsked(c) ~> ~ HasAsked(c)

(* After SIGINT the server exits once every client has left: each thread   *)
(* it joins then gets the end of its stream.                               *)
ShutdownEnds ==
  main \in {"close", "join"} /\ (\A c \in ToSet(accepted) : gone[c]) ~> main = "down"

(* What webserver.html:250 asks for: SIGINT ends the server, whatever the  *)
(* clients do.                                                             *)
ShutdownExits == main = "close" ~> main = "down"
=============================================================================
