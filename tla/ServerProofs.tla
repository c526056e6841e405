---------------------------- MODULE ServerProofs ----------------------------
(***************************************************************************)
(* The server until SIGINT, for any number of clients, any requests and    *)
(* any sizes: who owns which descriptor number, and which answers a client *)
(* gets.                                                                   *)
(***************************************************************************)
EXTENDS Server, FoldProofs, FiniteSetTheorems

Places == {"none", "read", "reading", "open", "fread", "send", "content", "close", "done"}
Answering == {"open", "fread", "send", "content"}
FileOf(c) == << "file", c >>
Holders == Client \cup {FileOf(c) : c \in Client}

ContentOf(r) == IF Status(r) = 200 THEN process_http_header_request(r) ELSE "error page"
Answer(r) == [status |-> Status(r), connection |-> Connection(r), content |-> ContentOf(r)]

ServerTypeOK ==
  /\ main \in {"accept", "create", "count", "close", "join", "down"}
  /\ backlog \in Seq(Client) /\ accepted \in Seq(Client)
  /\ fdOf \in [Fd -> Holders \cup {FREE}]
  /\ pc \in [Client -> Places]
  /\ socket \in [Client -> Fd \cup {NULL}] /\ file \in [Client -> Fd \cup {NULL}]
  /\ bread \in [Client -> Nat] /\ sent \in [Client -> Nat] /\ size \in [Client -> Nat]
  /\ content = [c \in Client |-> content[c]] /\ answers = [c \in Client |-> answers[c]]

\* A client connects once, and its thread starts after accept.
Connecting ==
  /\ IsInjective(backlog) /\ ToSet(backlog) \cap ToSet(accepted) = {}
  /\ main = "create" => accepted # << >>

\* The client has had an answer that ends the connection.
Ended(c) == answers[c] # << >> /\ Last(answers[c]).connection = "close"

ThreadSound(c) ==
  /\ pc[c] = "none" <=> c \notin ToSet(accepted) \/ (main = "create" /\ c = Last(accepted))
  /\ pc[c] = "none" => answers[c] = << >>
  /\ pc[c] = "close" => Ended(c)
  /\ pc[c] \in {"read", "reading"} \cup Answering => ~ Ended(c)
  /\ file[c] # NULL => pc[c] \in {"fread", "send", "content"}
  /\ pc[c] = "fread" => file[c] # NULL

DescriptorsSound(c) ==
  /\ c \in ToSet(accepted) => socket[c] \in Fd
  /\ c \in ToSet(accepted) /\ ~ (pc[c] = "done" /\ Ended(c)) => fdOf[socket[c]] = c
  /\ file[c] # NULL => fdOf[file[c]] = FileOf(c)
  /\ \A d \in Fd : fdOf[d] = c => /\ c \in ToSet(accepted) /\ d = socket[c]
                                  /\ ~ (pc[c] = "done" /\ Ended(c))
  /\ \A d \in Fd : fdOf[d] = FileOf(c) => d = file[c]

AnswersSound(c) ==
  /\ answers[c] \in Seq({Answer(r) : r \in ToSet(Requests[c])})
  /\ Len(answers[c]) <= Len(Requests[c])
  /\ \A i \in DOMAIN answers[c] : answers[c][i] = Answer(Requests[c][i])
  /\ bread[c] <= sent[c]
  /\ sent[c] > 0 \/ pc[c] \in Answering => Len(answers[c]) < Len(Requests[c])
  /\ pc[c] = "fread" => Status(Request(c)) = 200
  /\ pc[c] \in {"send", "content"} => content[c] = ContentOf(Request(c))

ServerInv ==
  /\ ServerTypeOK /\ Connecting
  /\ \A c \in Client : ThreadSound(c) /\ DescriptorsSound(c) /\ AnswersSound(c)

UntilSigint == Serving => ServerInv
-----------------------------------------------------------------------------
LEMMA Names ==
  /\ FREE \notin Holders /\ NULL \notin Fd
  /\ \A c, x \in Client : FileOf(c) # x /\ (FileOf(c) = FileOf(x) => c = x)
  /\ \A c \in Client : c \in Holders /\ FileOf(c) \in Holders
BY NamesAssumption DEF Holders, FileOf

LEMMA LeastOfSome ==
  ASSUME NEW S \in SUBSET Nat, S # {}
  PROVE  Min(S) \in S /\ \A y \in S : Min(S) <= y
<1>1. \E x \in S : \A y \in S : x =< y
  BY LeastOf
<1> QED BY <1>1, Zenon DEF Min

\* Every holder has one number at most, and there are two numbers for each client:
\* a client that lacks one of its own finds one free.
LEMMA OneIsFree ==
  ASSUME ServerTypeOK, \A c \in Client : DescriptorsSound(c),
         NEW h \in Holders, \A d \in Fd : fdOf[d] # h
  PROVE  LowestFree \in Fd /\ fdOf[LowestFree] = FREE
<1> DEFINE Files2 == {FileOf(c) : c \in Client}
           T == Holders \ {h}
           n == Cardinality(Client)
<1>1. IsFiniteSet(Client) /\ IsFiniteSet(Fd) /\ n \in Nat /\ Cardinality(Fd) \in Nat /\ Cardinality(Fd) >= 2 * n
  BY SizesAssumption, FS_CardinalityType
<1>2. IsFiniteSet(Files2) /\ Cardinality(Files2) = n
  <2> DEFINE f == [c \in Client |-> FileOf(c)]
  <2>1. f \in Bijection(Client, Files2)
    BY Names DEF Bijection, Injection, Surjection, IsInjective
  <2>2. ExistsBijection(Client, Files2)
    BY <2>1, Zenon DEF ExistsBijection
  <2> HIDE DEF Files2
  <2> QED BY <1>1, <2>2, FS_Bijection
<1>3. Client \cap Files2 = {} /\ Holders = Client \cup Files2
  BY Names DEF Holders
<1> HIDE DEF Files2
<1>4. IsFiniteSet(Holders) /\ Cardinality(Holders) = n + n
  <2>1. Cardinality(Client \cap Files2) = 0
    BY <1>3, FS_EmptySet
  <2>2. IsFiniteSet(Client \cup Files2) /\ Cardinality(Client \cup Files2) = n + n - 0
    BY <1>1, <1>2, <2>1, FS_Union
  <2> QED BY <1>1, <1>3, <2>2
<1>5. IsFiniteSet(T) /\ Cardinality(T) = n + n - 1 /\ Cardinality(T) < Cardinality(Fd)
  <2>1. IsFiniteSet(T) /\ Cardinality(T) = Cardinality(Holders) - 1
    BY <1>4, FS_RemoveElement
  <2> HIDE DEF T
  <2> QED BY <1>1, <1>4, <2>1
<1>6. \E d \in Fd : fdOf[d] = FREE
  <2> SUFFICES ASSUME \A d \in Fd : fdOf[d] # FREE  PROVE FALSE
    OBVIOUS
  <2>1. fdOf \in [Fd -> T]
    BY DEF ServerTypeOK
  <2> HIDE DEF T
  <2>2. PICK d, e \in Fd : d # e /\ fdOf[d] = fdOf[e]
    BY <1>1, <1>5, <2>1, FS_PigeonHole
  <2>t. fdOf[d] \in Holders
    BY <2>1 DEF T
  <2>3. PICK c \in Client : fdOf[d] = c \/ fdOf[d] = FileOf(c)
    BY <2>t DEF Holders
  <2> QED BY <2>2, <2>3 DEF DescriptorsSound
<1>7. LowestFree \in {d \in Fd : fdOf[d] = FREE}
  <2>1. {d \in Fd : fdOf[d] = FREE} \in SUBSET Nat
    BY SizesAssumption
  <2> QED BY <1>6, <2>1, LeastOfSome DEF LowestFree
<1> QED BY <1>7
-----------------------------------------------------------------------------
\* What a step leaves alone stays as it was.
LEMMA Unaffected ==
  ASSUME NEW x \in Client, ThreadSound(x), AnswersSound(x),
         UNCHANGED << pc[x], answers[x], file[x], sent[x], bread[x], content[x] >>,
         (pc[x] = "none" <=> x \notin ToSet(accepted) \/ (main = "create" /\ x = Last(accepted)))'
  PROVE  ThreadSound(x)' /\ AnswersSound(x)'
BY DEF ThreadSound, AnswersSound, Ended, Request

LEMMA KeepDescriptors ==
  ASSUME NEW x \in Client, ServerTypeOK, DescriptorsSound(x), NEW d \in Fd, NEW c \in Client, NEW h, x # c,
         fdOf' = [fdOf EXCEPT ![d] = h], h \in {FREE, c, FileOf(c)}, fdOf[d] \in {FREE, c, FileOf(c)},
         UNCHANGED << pc[x], answers[x], file[x], socket[x] >>, x \in ToSet(accepted') <=> x \in ToSet(accepted)
  PROVE  DescriptorsSound(x)'
<1>1. {h, fdOf[d]} \cap {x, FileOf(x)} = {}
  BY Names DEF Holders
<1>2. \A e \in Fd : e # d => fdOf'[e] = fdOf[e]
  BY DEF ServerTypeOK
<1>3. fdOf'[d] = h
  BY DEF ServerTypeOK
<1>4. file[x] \in Fd \cup {NULL}
  BY DEF ServerTypeOK
<1> QED BY <1>1, <1>2, <1>3, <1>4 DEF DescriptorsSound, Ended

LEMMA SameDescriptors ==
  ASSUME NEW x \in Client, DescriptorsSound(x), fdOf' = fdOf,
         UNCHANGED << pc[x], answers[x], file[x], socket[x] >>, x \in ToSet(accepted') <=> x \in ToSet(accepted)
  PROVE  DescriptorsSound(x)'
BY DEF DescriptorsSound, Ended
-----------------------------------------------------------------------------
\* How a step of the thread of c may change the table of descriptors.
Moves(c) ==
  \/ fdOf' = fdOf
  \/ \E d \in Fd : \E h \in {FREE, c, FileOf(c)} :
       fdOf' = [fdOf EXCEPT ![d] = h] /\ fdOf[d] \in {FREE, c, FileOf(c)}
SameFor(x) == UNCHANGED << pc[x], answers[x], file[x], socket[x], sent[x], bread[x], content[x] >>

LEMMA OnlyOne ==
  ASSUME ServerInv, ServerTypeOK', NEW c \in Client, UNCHANGED << main, accepted, backlog >>, Moves(c),
         \A x \in Client \ {c} : SameFor(x),
         ThreadSound(c)', DescriptorsSound(c)', AnswersSound(c)'
  PROVE  ServerInv'
<1>1. Connecting'
  BY DEF ServerInv, Connecting
<1>2. ASSUME NEW x \in Client, x # c  PROVE ThreadSound(x)' /\ DescriptorsSound(x)' /\ AnswersSound(x)'
  <2>1. ThreadSound(x) /\ AnswersSound(x) /\ DescriptorsSound(x) /\ ServerTypeOK
    BY DEF ServerInv
  <2>2. SameFor(x)
    BY <1>2
  <2>3. ThreadSound(x)' /\ AnswersSound(x)'
    <3>1. (pc[x] = "none" <=> x \notin ToSet(accepted) \/ (main = "create" /\ x = Last(accepted)))'
      BY <2>1, <2>2 DEF ThreadSound, SameFor
    <3> QED BY <2>1, <2>2, <3>1, Unaffected DEF SameFor
  <2>4. DescriptorsSound(x)'
    <3>1. CASE fdOf' = fdOf
      BY <2>1, <2>2, <3>1, SameDescriptors DEF SameFor
    <3>2. CASE fdOf' # fdOf
      <4>1. PICK d \in Fd, h \in {FREE, c, FileOf(c)} :
              fdOf' = [fdOf EXCEPT ![d] = h] /\ fdOf[d] \in {FREE, c, FileOf(c)}
        BY <3>2 DEF Moves
      <4>2. UNCHANGED << pc[x], answers[x], file[x], socket[x] >> /\ (x \in ToSet(accepted') <=> x \in ToSet(accepted))
        BY <2>2 DEF SameFor
      <4> QED BY <1>2, <2>1, <4>1, <4>2, KeepDescriptors
    <3> QED BY <3>1, <3>2
  <2> QED BY <2>3, <2>4
<1> QED BY <1>1, <1>2 DEF ServerInv

\* Where http_read goes on.
LEMMA AfterReadPlace ==
  ASSUME NEW c \in Client, NEW b \in Nat, NEW more \in BOOLEAN, Request(c).head \in Nat
  PROVE  /\ AfterRead(c, b, more) \in {"read", "open", "done"}
         /\ AfterRead(c, b, more) = "open" => b >= Request(c).head
<1> DEFINE r == Request(c)
           len == http_get_header(r.content_length)
           onward == IF more /\ b - r.head < len /\ size[c] <= MAX_BODY_LEN THEN "read"
                     ELSE IF b < len THEN "done" ELSE "open"
<1>1. CASE b < r.head
  <2>1. AfterRead(c, b, more) = IF more /\ size[c] <= MAX_SIZE THEN "read" ELSE "done"
    <3>1. ~ b >= r.head
      BY <1>1
    <3> QED BY <1>1, <3>1, Zenon DEF AfterRead
  <2> QED BY <2>1
<1>2. CASE b >= r.head
  <2>1. ~ b < r.head
    BY <1>2
  <2>2. CASE len = NULL
    <3>1. AfterRead(c, b, more) = "open"
      BY <1>2, <2>1, <2>2, Zenon DEF AfterRead
    <3> QED BY <1>2, <3>1
  <2>3. CASE len # NULL
    <3>1. AfterRead(c, b, more) = onward
      BY <1>2, <2>1, <2>3, Zenon DEF AfterRead
    <3>2. onward \in {"read", "open", "done"}
      BY Zenon
    <3> QED BY <1>2, <3>1, <3>2
  <2> QED BY <2>2, <2>3
<1> QED BY <1>1, <1>2

LEMMA HeadTyped ==
  ASSUME NEW c \in Client, AnswersSound(c)
  PROVE  Request(c).head \in Nat \ {0} /\ Len(answers[c]) \in Nat /\ Len(Requests[c]) \in Nat
<1>1. Len(answers[c]) \in Nat /\ Len(Requests[c]) \in Nat
  BY RequestsAssumption DEF AnswersSound
<1>2. CASE Len(answers[c]) < Len(Requests[c])
  <2>1. Len(answers[c]) + 1 \in DOMAIN Requests[c]
    BY <1>1, <1>2, RequestsAssumption
  <2> DEFINE R == [method : STRING, name : STRING, connection : Seq(STRING), content_length : Seq(Nat),
                   head : Nat \ {0}, body : Nat]
  <2>2. Requests[c] \in Seq(R)
    BY RequestsAssumption
  <2>3. \A q \in R : q.head \in Nat \ {0}
    OBVIOUS
  <2> HIDE DEF R
  <2>4. Requests[c][Len(answers[c]) + 1] \in R
    BY <2>1, <2>2
  <2> QED BY <1>1, <1>2, <2>3, <2>4 DEF Request
<1>3. CASE ~ Len(answers[c]) < Len(Requests[c])
  BY <1>1, <1>3 DEF Request, NoRequest
<1> QED BY <1>2, <1>3

LEMMA Reads ==
  ASSUME ServerInv, NEW c \in Client, NEW p \in {"read", "reading", "open", "done"}, NEW b \in Nat,
         pc[c] \in {"read", "reading"}, b <= sent[c], p = "open" => b >= Request(c).head,
         pc' = [pc EXCEPT ![c] = p], bread' = [bread EXCEPT ![c] = b],
         size' \in [Client -> Nat], UNCHANGED << mainVars, fdOf, socket, content, file, clientVars >>
  PROVE  ServerInv'
<1>1. ServerTypeOK /\ Connecting /\ ThreadSound(c) /\ DescriptorsSound(c) /\ AnswersSound(c)
  BY DEF ServerInv
<1>2. /\ UNCHANGED << main, accepted, backlog >> /\ Moves(c)
      /\ pc'[c] = p /\ bread'[c] = b
      /\ \A x \in Client \ {c} : SameFor(x)
  BY <1>1 DEF ServerTypeOK, SameFor, Moves, mainVars, clientVars
<1>3. ServerTypeOK'
  BY <1>1 DEF ServerTypeOK, Places, mainVars, clientVars
<1>4. ThreadSound(c)' /\ DescriptorsSound(c)'
  BY <1>1, <1>2 DEF ThreadSound, DescriptorsSound, Ended, Answering, mainVars, clientVars
<1>5. AnswersSound(c)'
  <2>1. p = "open" => Len(answers[c]) < Len(Requests[c])
    <3>1. Request(c).head \in Nat \ {0} /\ sent[c] \in Nat
      BY <1>1, HeadTyped DEF ServerTypeOK
    <3>2. p = "open" => sent[c] > 0
      BY <3>1
    <3> QED BY <1>1, <3>2 DEF AnswersSound
  <2> QED BY <1>1, <1>2, <2>1 DEF AnswersSound, Answering, mainVars, clientVars
<1> QED BY <1>2, <1>3, <1>4, <1>5, OnlyOne

LEMMA ReadSteps ==
  ASSUME ServerInv, NEW c \in Client, StartRead(c) \/ FinishRead(c) \/ EndOfStream(c)
  PROVE  ServerInv'
<1>1. ServerTypeOK /\ ThreadSound(c) /\ DescriptorsSound(c) /\ AnswersSound(c)
  BY DEF ServerInv
<1>h. Request(c).head \in Nat
  BY <1>1, HeadTyped
<1>b. bread[c] \in Nat /\ sent[c] \in Nat
  BY <1>1 DEF ServerTypeOK
<1>2. Request(c).head \in Nat /\ bread[c] \in Nat /\ sent[c] \in Nat /\ bread[c] <= sent[c]
  BY <1>1, <1>h, <1>b DEF AnswersSound
<1>3. bread = [bread EXCEPT ![c] = bread[c]]
  BY <1>1 DEF ServerTypeOK
<1>4. CASE StartRead(c)
  <2>1. c \in ToSet(accepted) /\ Owns(c)
    BY <1>1, <1>4 DEF StartRead, ThreadSound, DescriptorsSound, Owns
  <2>2. /\ pc[c] = "read" /\ pc' = [pc EXCEPT ![c] = "reading"] /\ bread' = bread
        /\ size' \in [Client -> Nat] /\ UNCHANGED << mainVars, fdOf, socket, content, file, clientVars >>
    BY <1>1, <1>4, <2>1 DEF StartRead, Goto, ServerTypeOK
  <2> QED BY <1>2, <1>3, <2>2, Reads
<1>5. CASE FinishRead(c)
  <2> DEFINE b == Min({sent[c], size[c]})
             p == AfterRead(c, bread'[c], TRUE)
  <2>s. size[c] \in Nat
    BY <1>1 DEF ServerTypeOK
  <2>1. b \in Nat /\ b <= sent[c]
    BY <1>2, <2>s, LeastOfSome
  <2>2. /\ pc[c] = "reading" /\ pc' = [pc EXCEPT ![c] = p] /\ bread' = [bread EXCEPT ![c] = b]
        /\ size' \in [Client -> Nat] /\ UNCHANGED << mainVars, fdOf, socket, content, file, clientVars >>
    BY <1>1, <1>5 DEF FinishRead, Goto, ServerTypeOK
  <2>3. bread'[c] = b
    BY <1>1, <2>2 DEF ServerTypeOK
  <2> HIDE DEF b
  <2>4. p \in {"read", "open", "done"} /\ (p = "open" => b >= Request(c).head)
    BY <1>2, <2>1, <2>3, AfterReadPlace
  <2> HIDE DEF p
  <2> QED BY <2>1, <2>2, <2>4, Reads
<1>6. CASE EndOfStream(c)
  <2> DEFINE p == AfterRead(c, bread[c], FALSE)
  <2>1. /\ pc[c] = "reading" /\ pc' = [pc EXCEPT ![c] = p] /\ bread' = bread
        /\ size' \in [Client -> Nat] /\ UNCHANGED << mainVars, fdOf, socket, content, file, clientVars >>
    BY <1>1, <1>6 DEF EndOfStream, Goto, ioVars, ServerTypeOK
  <2>2. p \in {"read", "open", "done"} /\ (p = "open" => bread[c] >= Request(c).head)
    BY <1>2, AfterReadPlace
  <2> HIDE DEF p
  <2> QED BY <1>2, <1>3, <2>1, <2>2, Reads
<1> QED BY <1>4, <1>5, <1>6
-----------------------------------------------------------------------------
LEMMA OpenFileStep ==
  ASSUME ServerInv, NEW c \in Client, OpenFile(c)
  PROVE  ServerInv'
<1>1. ServerTypeOK /\ Connecting /\ ThreadSound(c) /\ DescriptorsSound(c) /\ AnswersSound(c) /\ pc[c] = "open"
  BY DEF ServerInv, OpenFile
<1>2. UNCHANGED << mainVars, socket, bread, size, clientVars >>
  BY DEF OpenFile
<1>3. Len(answers[c]) < Len(Requests[c]) /\ ~ Ended(c) /\ file[c] = NULL /\ c \in ToSet(accepted)
  BY <1>1 DEF ThreadSound, AnswersSound, Answering
<1>4. CASE Status(Request(c)) = 200
  <2>1. \A d \in Fd : fdOf[d] # FileOf(c)
    BY <1>1, <1>3, Names DEF DescriptorsSound
  <2> DEFINE d == LowestFree
  <2>2. d \in Fd /\ fdOf[d] = FREE
    BY <1>1, <2>1, OneIsFree, Names DEF ServerInv
  <2>3. /\ fdOf' = [fdOf EXCEPT ![d] = FileOf(c)] /\ file' = [file EXCEPT ![c] = d]
        /\ pc' = [pc EXCEPT ![c] = "fread"] /\ content' = content
    BY <1>4 DEF OpenFile, Goto, FileOf
  <2> HIDE DEF d
  <2>4. ServerTypeOK'
    BY <1>1, <1>2, <2>2, <2>3, Names DEF ServerTypeOK, Places, mainVars, clientVars
  <2>5. /\ pc'[c] = "fread" /\ file'[c] = d /\ fdOf'[d] = FileOf(c) /\ d # NULL
        /\ \A e \in Fd : e # d => fdOf'[e] = fdOf[e]
        /\ \A x \in Client \ {c} : SameFor(x)
    BY <1>1, <1>2, <2>2, <2>3, Names DEF ServerTypeOK, SameFor, clientVars
  <2>6. Moves(c) /\ UNCHANGED << main, accepted, backlog >>
    BY <1>2, <2>2, <2>3 DEF Moves, mainVars
  <2>7. ThreadSound(c)' /\ AnswersSound(c)'
    BY <1>1, <1>2, <1>3, <1>4, <2>5 DEF ThreadSound, AnswersSound, Ended, Request, mainVars, clientVars
  <2>8. DescriptorsSound(c)'
    BY <1>1, <1>2, <1>3, <2>1, <2>2, <2>5, Names DEF DescriptorsSound, Ended, mainVars, clientVars
  <2> QED BY <2>4, <2>5, <2>6, <2>7, <2>8, OnlyOne
<1>5. CASE Status(Request(c)) # 200
  <2>1. /\ content' = [content EXCEPT ![c] = "error page"] /\ pc' = [pc EXCEPT ![c] = "send"]
        /\ UNCHANGED << fdOf, file >>
    BY <1>5 DEF OpenFile, Goto
  <2>2. ServerTypeOK'
    BY <1>1, <1>2, <2>1 DEF ServerTypeOK, Places, mainVars, clientVars
  <2>3. /\ pc'[c] = "send" /\ content'[c] = ContentOf(Request(c))
        /\ \A x \in Client \ {c} : SameFor(x)
    BY <1>1, <1>2, <1>5, <2>1 DEF ServerTypeOK, SameFor, clientVars, ContentOf
  <2>4. Moves(c) /\ UNCHANGED << main, accepted, backlog >>
    BY <1>2, <2>1 DEF Moves, mainVars
  <2>5. ThreadSound(c)' /\ DescriptorsSound(c)' /\ AnswersSound(c)'
    BY <1>1, <1>2, <1>3, <2>1, <2>3
       DEF ThreadSound, DescriptorsSound, AnswersSound, Ended, Request, mainVars, clientVars
  <2> QED BY <2>2, <2>3, <2>4, <2>5, OnlyOne
<1> QED BY <1>4, <1>5

LEMMA ReadFileStep ==
  ASSUME ServerInv, NEW c \in Client, ReadFile(c)
  PROVE  ServerInv'
<1>1. ServerTypeOK /\ Connecting /\ ThreadSound(c) /\ DescriptorsSound(c) /\ AnswersSound(c) /\ pc[c] = "fread"
  BY DEF ServerInv, ReadFile
<1>2. UNCHANGED << mainVars, fdOf, socket, bread, size, file, clientVars >> /\ pc' = [pc EXCEPT ![c] = "send"]
  BY DEF ReadFile, Goto
<1>3. file[c] # NULL /\ fdOf[file[c]] = << "file", c >> /\ Status(Request(c)) = 200
  BY <1>1 DEF ThreadSound, DescriptorsSound, AnswersSound, FileOf
<1>4. content' = [content EXCEPT ![c] = ContentOf(Request(c))]
  BY <1>3 DEF ReadFile, ContentOf
<1>5. ServerTypeOK'
  BY <1>1, <1>2, <1>4 DEF ServerTypeOK, Places, mainVars, clientVars
<1>6. /\ pc'[c] = "send" /\ content'[c] = ContentOf(Request(c))
      /\ \A x \in Client \ {c} : SameFor(x)
  BY <1>1, <1>2, <1>4 DEF ServerTypeOK, SameFor, clientVars
<1>7. Moves(c) /\ UNCHANGED << main, accepted, backlog >>
  BY <1>2 DEF Moves, mainVars
<1>8. ThreadSound(c)' /\ DescriptorsSound(c)' /\ AnswersSound(c)'
  BY <1>1, <1>2, <1>3, <1>6
     DEF ThreadSound, DescriptorsSound, AnswersSound, Ended, Request, Answering, mainVars, clientVars
<1> QED BY <1>5, <1>6, <1>7, <1>8, OnlyOne

LEMMA SendHeaderStep ==
  ASSUME ServerInv, NEW c \in Client, SendHeader(c)
  PROVE  ServerInv'
<1>1. ServerTypeOK /\ Connecting /\ ThreadSound(c) /\ DescriptorsSound(c) /\ AnswersSound(c) /\ pc[c] = "send"
  BY DEF ServerInv, SendHeader
<1>2. UNCHANGED << mainVars, fdOf, socket, ioVars, clientVars >> /\ pc' = [pc EXCEPT ![c] = "content"]
  BY DEF SendHeader, Goto
<1>3. ServerTypeOK'
  BY <1>1, <1>2 DEF ServerTypeOK, Places, mainVars, ioVars, clientVars
<1>4. pc'[c] = "content" /\ \A x \in Client \ {c} : SameFor(x)
  BY <1>1, <1>2 DEF ServerTypeOK, SameFor, ioVars, clientVars
<1>5. Moves(c) /\ UNCHANGED << main, accepted, backlog >>
  BY <1>2 DEF Moves, mainVars
<1>6. ThreadSound(c)' /\ DescriptorsSound(c)' /\ AnswersSound(c)'
  BY <1>1, <1>2, <1>4
     DEF ThreadSound, DescriptorsSound, AnswersSound, Ended, Request, Answering, mainVars, ioVars, clientVars
<1> QED BY <1>3, <1>4, <1>5, <1>6, OnlyOne

LEMMA CloseSocketStep ==
  ASSUME ServerInv, NEW c \in Client, CloseSocket(c)
  PROVE  ServerInv'
<1>1. ServerTypeOK /\ Connecting /\ ThreadSound(c) /\ DescriptorsSound(c) /\ AnswersSound(c) /\ pc[c] = "close"
  BY DEF ServerInv, CloseSocket
<1> DEFINE d == socket[c]
<1>2. /\ UNCHANGED << mainVars, socket, ioVars, clientVars >> /\ pc' = [pc EXCEPT ![c] = "done"]
      /\ fdOf' = [fdOf EXCEPT ![d] = FREE]
  BY DEF CloseSocket, Goto
<1>3. Ended(c) /\ c \in ToSet(accepted) /\ d \in Fd /\ fdOf[d] = c /\ file[c] = NULL
  BY <1>1 DEF ThreadSound, DescriptorsSound
<1>4. ServerTypeOK'
  BY <1>1, <1>2 DEF ServerTypeOK, Places, mainVars, ioVars, clientVars
<1>5. /\ pc'[c] = "done" /\ fdOf'[d] = FREE
      /\ \A e \in Fd : e # d => fdOf'[e] = fdOf[e]
      /\ \A x \in Client \ {c} : SameFor(x)
  BY <1>1, <1>2, <1>3 DEF ServerTypeOK, SameFor, ioVars, clientVars
<1>6. Moves(c) /\ UNCHANGED << main, accepted, backlog >>
  BY <1>2, <1>3 DEF Moves, mainVars
<1>7. ThreadSound(c)' /\ AnswersSound(c)'
  BY <1>1, <1>2, <1>3, <1>5
     DEF ThreadSound, AnswersSound, Ended, Request, Answering, mainVars, ioVars, clientVars
<1>8. DescriptorsSound(c)'
  BY <1>1, <1>2, <1>3, <1>5, Names DEF DescriptorsSound, Ended, mainVars, ioVars, clientVars
<1> QED BY <1>4, <1>5, <1>6, <1>7, <1>8, OnlyOne

\* The answer that is sent is the next one that the client waits for.
LEMMA Answered ==
  ASSUME ServerInv, NEW c \in Client, Len(answers[c]) < Len(Requests[c]),
         answers'[c] = Append(answers[c], Answer(Request(c)))
  PROVE  /\ answers'[c] \in Seq({Answer(r) : r \in ToSet(Requests[c])})
         /\ Len(answers'[c]) <= Len(Requests[c])
         /\ \A i \in DOMAIN answers'[c] : answers'[c][i] = Answer(Requests[c][i])
         /\ Ended(c)' <=> Connection(Request(c)) = "close"
<1> DEFINE S == {Answer(r) : r \in ToSet(Requests[c])}
           n == Len(answers[c])
           a == Answer(Request(c))
<1>1. /\ answers[c] \in Seq(S) /\ \A i \in DOMAIN answers[c] : answers[c][i] = Answer(Requests[c][i])
      /\ n \in Nat /\ Len(Requests[c]) \in Nat
  <2>1. AnswersSound(c)
    BY DEF ServerInv
  <2>2. n \in Nat /\ Len(Requests[c]) \in Nat
    BY <2>1, HeadTyped
  <2> HIDE DEF n
  <2> QED BY <2>1, <2>2, Zenon DEF AnswersSound
<1>2. Request(c) = Requests[c][n + 1] /\ n + 1 \in DOMAIN Requests[c]
  BY <1>1, RequestsAssumption DEF Request
<1>3. a \in S /\ a.connection = Connection(Request(c))
  BY <1>2 DEF ToSet, Answer
<1>4. answers'[c] = Append(answers[c], a) /\ a = Answer(Requests[c][n + 1])
  BY <1>2
<1> HIDE DEF S, n, a
<1>5. /\ answers'[c] \in Seq(S) /\ Len(answers'[c]) = n + 1 /\ answers'[c][n + 1] = a
      /\ \A i \in 1..n : answers'[c][i] = answers[c][i] /\ i \in DOMAIN answers[c]
      /\ DOMAIN answers'[c] = 1..(n + 1)
  BY <1>1, <1>3, <1>4 DEF n
<1>6. ASSUME NEW i \in DOMAIN answers'[c]  PROVE answers'[c][i] = Answer(Requests[c][i])
  <2>1. i = n + 1 \/ i \in 1..n
    BY <1>1, <1>5
  <2> QED BY <1>1, <1>4, <1>5, <2>1
<1>7. Ended(c)' <=> Connection(Request(c)) = "close"
  <2>1. answers'[c] # << >>
    <3>1. n + 1 # 0 /\ Len(<< >>) = 0
      BY <1>1
    <3> QED BY <1>5, <3>1
  <2>2. Last(answers'[c]) = a
    BY <1>5, Zenon DEF Last
  <2> QED BY <1>3, <2>1, <2>2 DEF Ended
<1>8. n + 1 <= Len(Requests[c])
  BY <1>1 DEF n
<1> QED BY <1>5, <1>6, <1>7, <1>8 DEF S

LEMMA SendContentStep ==
  ASSUME ServerInv, NEW c \in Client, SendContent(c)
  PROVE  ServerInv'
<1> DEFINE r == Request(c)
           p == IF Connection(r) = "Keep-Alive" THEN "read" ELSE "close"
<1>1. ServerTypeOK /\ Connecting /\ ThreadSound(c) /\ DescriptorsSound(c) /\ AnswersSound(c) /\ pc[c] = "content"
  BY DEF ServerInv, SendContent, Respond
<1>2. /\ c \in ToSet(accepted) /\ ~ Ended(c) /\ Len(answers[c]) < Len(Requests[c])
      /\ content[c] = ContentOf(r) /\ fdOf[socket[c]] = c
  BY <1>1 DEF ThreadSound, DescriptorsSound, AnswersSound, Answering
<1>3. /\ answers' = [answers EXCEPT ![c] = Append(@, Answer(r))]
      /\ pc' = [pc EXCEPT ![c] = p] /\ fdOf' = Freed(file[c])
      /\ file' = [file EXCEPT ![c] = NULL] /\ content' = [content EXCEPT ![c] = NULL]
      /\ bread' = [bread EXCEPT ![c] = 0] /\ sent' = [sent EXCEPT ![c] = 0]
      /\ size' = [size EXCEPT ![c] = INITIAL_BUFFER_SIZE]
      /\ UNCHANGED << mainVars, socket, gone >>
  BY <1>2 DEF SendContent, Respond, Goto, Owns, Answer
<1>4. p \in {"read", "close"} /\ (p = "close" <=> Connection(r) = "close")
  BY DEF Connection
<1>5. ServerTypeOK'
  BY <1>1, <1>3, <1>4, SizesAssumption DEF ServerTypeOK, Places, mainVars, Freed
<1> HIDE DEF p
<1>6. /\ pc'[c] = p /\ file'[c] = NULL /\ bread'[c] = 0 /\ sent'[c] = 0
      /\ answers'[c] = Append(answers[c], Answer(r))
      /\ \A x \in Client \ {c} : SameFor(x)
  BY <1>1, <1>3 DEF ServerTypeOK, SameFor
<1>7. /\ answers'[c] \in Seq({Answer(q) : q \in ToSet(Requests[c])})
      /\ Len(answers'[c]) <= Len(Requests[c])
      /\ \A i \in DOMAIN answers'[c] : answers'[c][i] = Answer(Requests[c][i])
      /\ Ended(c)' <=> p = "close"
  BY <1>2, <1>4, <1>6, Answered
<1>8. file[c] # NULL => file[c] \in Fd /\ fdOf[file[c]] = FileOf(c)
  BY <1>1 DEF ServerTypeOK, DescriptorsSound
<1>9. Moves(c) /\ UNCHANGED << main, accepted, backlog >>
  BY <1>3, <1>8 DEF Moves, mainVars, Freed
<1>10. ThreadSound(c)' /\ AnswersSound(c)'
  BY <1>1, <1>2, <1>4, <1>6, <1>7, <1>9 DEF ThreadSound, AnswersSound, Answering
<1>11. DescriptorsSound(c)'
  <2>1. c \in ToSet(accepted') /\ socket'[c] = socket[c] /\ p # "done"
    BY <1>2, <1>3, <1>4 DEF mainVars
  <2>2. \A d \in Fd : fdOf'[d] = c <=> fdOf[d] = c
    BY <1>1, <1>3, <1>8, Names DEF ServerTypeOK, Freed, Holders
  <2>3. \A d \in Fd : fdOf'[d] # FileOf(c)
    BY <1>1, <1>3, <1>8, Names DEF ServerTypeOK, Freed, DescriptorsSound, Holders
  <2>4. socket[c] \in Fd
    BY <1>1, <1>2 DEF DescriptorsSound
  <2> QED BY <1>1, <1>2, <1>6, <2>1, <2>2, <2>3, <2>4 DEF DescriptorsSound
<1> QED BY <1>5, <1>6, <1>9, <1>10, <1>11, OnlyOne
-----------------------------------------------------------------------------
LEMMA ClientSteps ==
  ASSUME ServerInv, NEW c \in Client, Connect(c) \/ Send(c) \/ Leave(c)
  PROVE  ServerInv'
<1>1. ServerTypeOK /\ Connecting /\ ThreadSound(c) /\ DescriptorsSound(c) /\ AnswersSound(c)
  BY DEF ServerInv
<1>2. CASE Connect(c)
  <2>1. /\ UNCHANGED << main, accepted, fdOf, pc, socket, ioVars, clientVars >>
        /\ backlog' = Append(backlog, c) /\ c \notin ToSet(backlog) \cup ToSet(accepted)
    BY <1>2 DEF Connect, Connected
  <2>2. Connecting'
    <3>1. ToSet(backlog') = ToSet(backlog) \cup {c} /\ IsInjective(backlog')
      <4>1. backlog \in Seq(Client) /\ c \notin ToSet(backlog) /\ IsInjective(backlog)
        BY <1>1, <2>1 DEF ServerTypeOK, Connecting
      <4> QED BY <2>1, <4>1, AppendElements
    <3> QED BY <1>1, <2>1, <3>1 DEF Connecting
  <2>3. ServerTypeOK'
    BY <1>1, <2>1 DEF ServerTypeOK, ioVars, clientVars
  <2>4. ASSUME NEW x \in Client  PROVE ThreadSound(x)' /\ DescriptorsSound(x)' /\ AnswersSound(x)'
    BY <2>1 DEF ServerInv, ThreadSound, DescriptorsSound, AnswersSound, Ended, Request, ioVars, clientVars
  <2> QED BY <2>2, <2>3, <2>4 DEF ServerInv
<1>3. CASE Send(c)
  <2>1. /\ UNCHANGED << mainVars, fdOf, pc, socket, ioVars, gone, answers >>
        /\ sent' = [sent EXCEPT ![c] = @ + 1] /\ Len(answers[c]) < Len(Requests[c])
    BY <1>3 DEF Send
  <2>2. ServerTypeOK'
    BY <1>1, <2>1 DEF ServerTypeOK, mainVars, ioVars
  <2>3. /\ sent'[c] = sent[c] + 1 /\ sent[c] \in Nat /\ bread[c] \in Nat
        /\ \A x \in Client \ {c} : SameFor(x)
    BY <1>1, <2>1 DEF ServerTypeOK, SameFor, ioVars
  <2>4. Moves(c) /\ UNCHANGED << main, accepted, backlog >>
    BY <2>1 DEF Moves, mainVars
  <2>5. ThreadSound(c)' /\ DescriptorsSound(c)'
    BY <1>1, <2>1 DEF ThreadSound, DescriptorsSound, Ended, mainVars, ioVars
  <2>6. AnswersSound(c)'
    <3>1. bread[c] <= sent[c] + 1
      BY <1>1, <2>3 DEF AnswersSound
    <3> QED BY <1>1, <2>1, <2>3, <3>1 DEF AnswersSound, Request, ioVars
  <2> QED BY <2>2, <2>3, <2>4, <2>5, <2>6, OnlyOne
<1>4. CASE Leave(c)
  <2>1. UNCHANGED << mainVars, fdOf, pc, socket, ioVars, sent, answers >>
    BY <1>4 DEF Leave
  <2>2. ServerTypeOK' /\ Connecting'
    BY <1>1, <2>1 DEF ServerTypeOK, Connecting, mainVars, ioVars
  <2>3. Moves(c) /\ \A x \in Client : SameFor(x)
    BY <2>1 DEF Moves, SameFor, ioVars
  <2>4. ThreadSound(c)' /\ DescriptorsSound(c)' /\ AnswersSound(c)'
    BY <1>1, <2>1 DEF ThreadSound, DescriptorsSound, AnswersSound, Ended, Request, mainVars, ioVars
  <2> QED BY <2>1, <2>2, <2>3, <2>4, OnlyOne DEF mainVars
<1> QED BY <1>2, <1>3, <1>4

LEMMA AcceptStep ==
  ASSUME ServerInv, Accept
  PROVE  ServerInv'
<1> SUFFICES ASSUME NEW c, c = Head(backlog), NEW d, d = LowestFree  PROVE ServerInv'
  OBVIOUS
<1>1. ServerTypeOK /\ Connecting
  BY DEF ServerInv
<1>2. /\ backlog # << >> /\ main' = "create" /\ backlog' = Tail(backlog) /\ accepted' = Append(accepted, c)
      /\ fdOf' = [fdOf EXCEPT ![d] = c] /\ socket' = [socket EXCEPT ![c] = d]
      /\ UNCHANGED << k, count, pc, ioVars, clientVars >>
  BY DEF Accept
<1>3. /\ backlog \in Seq(Client) /\ accepted \in Seq(Client) /\ IsInjective(backlog)
      /\ c \in Client /\ c = backlog[1] /\ c \in ToSet(backlog)
      /\ ToSet(backlog') = ToSet(backlog) \ {c} /\ IsInjective(backlog')
  <2>1. backlog \in Seq(Client) /\ accepted \in Seq(Client) /\ IsInjective(backlog)
    BY <1>1 DEF ServerTypeOK, Connecting
  <2>2. c = backlog[1] /\ 1 \in DOMAIN backlog /\ c \in Client
    BY <1>2, <2>1
  <2>3. ToSet(backlog') = ToSet(backlog) \ {c} /\ IsInjective(backlog')
    BY <1>2, <2>1, <2>2, TailElements
  <2> QED BY <2>1, <2>2, <2>3 DEF ToSet
<1>4. c \notin ToSet(accepted) /\ ToSet(accepted') = ToSet(accepted) \cup {c} /\ Last(accepted') = c /\ accepted' # << >>
  <2>1. c \notin ToSet(accepted)
    BY <1>1, <1>3 DEF Connecting
  <2>2. /\ ToSet(accepted') = ToSet(accepted) \cup {c}
        /\ accepted'[Len(accepted) + 1] = c /\ Len(accepted') = Len(accepted) + 1 /\ Len(accepted) \in Nat
    BY <1>2, <1>3, AppendElements
  <2>3. Last(accepted') = c
    BY <2>2, Zenon DEF Last
  <2>4. accepted' # << >>
    BY <2>2
  <2> QED BY <2>1, <2>2, <2>3, <2>4
<1>5. d \in Fd /\ fdOf[d] = FREE
  <2>1. \A e \in Fd : fdOf[e] # c
    BY <1>3, <1>4 DEF ServerInv, DescriptorsSound
  <2>2. c \in Holders
    BY <1>3, Names
  <2> QED BY <1>1, <2>1, <2>2, OneIsFree DEF ServerInv
<1>6. ServerTypeOK'
  BY <1>1, <1>2, <1>3, <1>5, Names DEF ServerTypeOK, ioVars, clientVars
<1>7. Connecting'
  BY <1>1, <1>3, <1>4 DEF Connecting
<1>8. ASSUME NEW x \in Client  PROVE ThreadSound(x)' /\ DescriptorsSound(x)' /\ AnswersSound(x)'
  <2>1. ThreadSound(x) /\ DescriptorsSound(x) /\ AnswersSound(x)
    BY DEF ServerInv
  <2>2. main # "create"
    BY DEF Accept
  <2>3. UNCHANGED << pc[x], answers[x], file[x], sent[x], bread[x], content[x] >>
    BY <1>2 DEF ioVars, clientVars
  <2>4. (pc[x] = "none" <=> x \notin ToSet(accepted) \/ (main = "create" /\ x = Last(accepted)))'
    BY <1>2, <1>4, <2>1, <2>2 DEF ThreadSound
  <2>5. ThreadSound(x)' /\ AnswersSound(x)'
    BY <2>1, <2>3, <2>4, Unaffected
  <2>6. CASE x # c
    <3>1. x \in ToSet(accepted') <=> x \in ToSet(accepted)
      BY <1>4, <2>6
    <3>2. UNCHANGED << pc[x], answers[x], file[x], socket[x] >>
      BY <1>1, <1>2, <1>3, <2>3, <2>6 DEF ServerTypeOK
    <3>3. DescriptorsSound(x)'
      BY <1>1, <1>2, <1>3, <1>5, <2>1, <2>6, <3>1, <3>2, KeepDescriptors
    <3> QED BY <2>5, <3>3
  <2>7. CASE x = c
    <3>1. pc[c] = "none" /\ file[c] = NULL
      BY <1>4, <2>1, <2>7 DEF ThreadSound
    <3>2. fdOf'[d] = c /\ socket'[c] = d /\ \A e \in Fd : e # d => fdOf'[e] = fdOf[e]
      BY <1>1, <1>2, <1>3, <1>5 DEF ServerTypeOK
    <3>3. \A e \in Fd : fdOf[e] # c /\ fdOf[e] # FileOf(c)
      BY <1>1, <1>4, <2>1, <2>7, <3>1, Names DEF DescriptorsSound
    <3>4. pc'[c] = "none" /\ file'[c] = NULL
      BY <1>2, <3>1 DEF ioVars
    <3>5. DescriptorsSound(c)'
      BY <1>3, <1>4, <1>5, <3>2, <3>3, <3>4, Names DEF DescriptorsSound
    <3> QED BY <2>5, <2>7, <3>5
  <2> QED BY <2>6, <2>7
<1> QED BY <1>6, <1>7, <1>8 DEF ServerInv

LEMMA StartingSteps ==
  ASSUME ServerInv, CreateThread \/ Count
  PROVE  ServerInv'
<1>1. ServerTypeOK /\ Connecting
  BY DEF ServerInv
<1>2. CASE CreateThread
  <2> SUFFICES ASSUME NEW c, c = Last(accepted)  PROVE ServerInv'
    OBVIOUS
  <2>1. /\ main = "create" /\ main' = "count" /\ pc' = [pc EXCEPT ![c] = "read"]
        /\ UNCHANGED << backlog, accepted, fdOf, socket, ioVars, clientVars >>
    BY <1>2 DEF CreateThread
  <2>2. c \in Client /\ c \in ToSet(accepted)
    <3>1. Len(accepted) \in DOMAIN accepted /\ accepted \in Seq(Client)
      BY <1>1, <2>1 DEF ServerTypeOK, Connecting
    <3> QED BY <3>1 DEF Last, ToSet
  <2>3. ServerTypeOK' /\ Connecting'
    BY <1>1, <2>1 DEF ServerTypeOK, Connecting, Places, ioVars, clientVars
  <2>4. ASSUME NEW x \in Client  PROVE ThreadSound(x)' /\ DescriptorsSound(x)' /\ AnswersSound(x)'
    <3>1. ThreadSound(x) /\ DescriptorsSound(x) /\ AnswersSound(x)
      BY DEF ServerInv
    <3>2. CASE x # c
      <4>1. pc'[x] = pc[x]
        BY <1>1, <2>1, <3>2 DEF ServerTypeOK
      <4> QED BY <2>1, <3>1, <3>2, <4>1
              DEF ThreadSound, DescriptorsSound, AnswersSound, Ended, Request, ioVars, clientVars
    <3>3. CASE x = c
      <4>1. pc'[c] = "read" /\ pc[c] = "none"
        BY <1>1, <2>1, <2>2, <3>1, <3>3 DEF ServerTypeOK, ThreadSound
      <4>2. answers[c] = << >> /\ file[c] = NULL
        BY <3>1, <3>3, <4>1 DEF ThreadSound
      <4> QED BY <2>1, <2>2, <3>1, <3>3, <4>1, <4>2
              DEF ThreadSound, DescriptorsSound, AnswersSound, Ended, Request, Answering, ioVars, clientVars
    <3> QED BY <3>2, <3>3
  <2> QED BY <2>3, <2>4 DEF ServerInv
<1>3. CASE Count
  <2>1. /\ main = "count" /\ main' = "accept"
        /\ UNCHANGED << backlog, accepted, fdOf, pc, socket, ioVars, clientVars >>
    BY <1>3 DEF Count
  <2>2. ServerTypeOK' /\ Connecting'
    BY <1>1, <2>1 DEF ServerTypeOK, Connecting, ioVars, clientVars
  <2>3. ASSUME NEW x \in Client  PROVE ThreadSound(x)' /\ DescriptorsSound(x)' /\ AnswersSound(x)'
    <3>1. ThreadSound(x) /\ DescriptorsSound(x) /\ AnswersSound(x)
      BY DEF ServerInv
    <3> QED BY <2>1, <3>1 DEF ThreadSound, DescriptorsSound, AnswersSound, Ended, Request, ioVars, clientVars
  <2> QED BY <2>2, <2>3 DEF ServerInv
<1> QED BY <1>2, <1>3
-----------------------------------------------------------------------------
LEMMA ServerInit == ASSUME Init PROVE ServerInv
<1>1. ServerTypeOK /\ Connecting
  BY SizesAssumption DEF Init, ServerTypeOK, Connecting, Places, IsInjective, ToSet
<1>2. ASSUME NEW c \in Client  PROVE ThreadSound(c) /\ DescriptorsSound(c) /\ AnswersSound(c)
  <2>1. /\ accepted = << >> /\ ToSet(accepted) = {} /\ main = "accept" /\ pc[c] = "none" /\ file[c] = NULL
        /\ answers[c] = << >> /\ bread[c] = 0 /\ sent[c] = 0 /\ \A d \in Fd : fdOf[d] = FREE
    BY <1>2 DEF Init, ToSet
  <2>2. Len(Requests[c]) \in Nat
    BY RequestsAssumption
  <2>3. AnswersSound(c)
    BY <2>1, <2>2 DEF AnswersSound, Answering
  <2> QED BY <2>1, <2>3, Names DEF ThreadSound, DescriptorsSound, Answering
<1> QED BY <1>1, <1>2 DEF ServerInv

LEMMA ServerStep ==
  ASSUME UntilSigint, [Next]_vars
  PROVE  UntilSigint'
<1> SUFFICES ASSUME Serving'  PROVE ServerInv'
  BY DEF UntilSigint
<1>1. CASE UNCHANGED vars
  <2>1. ServerInv /\ UNCHANGED << mainVars, fdOf, pc, socket, ioVars, clientVars >>
    BY <1>1 DEF UntilSigint, Serving, vars, mainVars
  <2>2. ServerTypeOK' /\ Connecting'
    BY <2>1 DEF ServerInv, ServerTypeOK, Connecting, mainVars, ioVars, clientVars
  <2>3. ASSUME NEW x \in Client  PROVE ThreadSound(x)' /\ DescriptorsSound(x)' /\ AnswersSound(x)'
    <3>1. ThreadSound(x) /\ DescriptorsSound(x) /\ AnswersSound(x)
      BY <2>1 DEF ServerInv
    <3> QED BY <2>1, <3>1 DEF ThreadSound, DescriptorsSound, AnswersSound, Ended, Request, mainVars, ioVars, clientVars
  <2> QED BY <2>2, <2>3 DEF ServerInv
<1>2. CASE Accept \/ CreateThread \/ Count
  <2>1. ServerInv
    BY <1>2 DEF UntilSigint, Serving, Accept, CreateThread, Count
  <2> QED BY <1>2, <2>1, AcceptStep, StartingSteps
<1>3. CASE Sigint \/ CloseNext \/ JoinNext
  BY <1>3 DEF Sigint, CloseNext, JoinNext, Serving
<1>4. ASSUME NEW c \in Client, Worker(c) \/ Sigpipe(c) \/ Connect(c) \/ Send(c) \/ Leave(c)
      PROVE  ServerInv'
  <2>1. ~ Sigpipe(c)
    BY DEF Sigpipe, Serving
  <2>2. main' = main
    BY <1>4, <2>1 DEF Worker, StartRead, FinishRead, EndOfStream, OpenFile, ReadFile, SendHeader, SendContent,
                      Respond, CloseSocket, Connect, Send, Leave, mainVars
  <2>3. ServerInv
    BY <2>2 DEF UntilSigint, Serving
  <2> QED BY <1>4, <2>1, <2>3, ReadSteps, OpenFileStep, ReadFileStep, SendHeaderStep, SendContentStep,
             CloseSocketStep, ClientSteps DEF Worker
<1> QED BY <1>1, <1>2, <1>3, <1>4 DEF Next, MainThread

(* Until SIGINT the table of descriptors, the places of the threads and    *)
(* the streams fit together, for any number of clients.                    *)
THEOREM ServerInvariant == Spec => []UntilSigint
<1>1. Init => UntilSigint
  BY ServerInit DEF UntilSigint
<1> QED BY <1>1, ServerStep, PTL DEF Spec

(* No thread of server.c uses a number that it has closed or that was      *)
(* given to somebody else, and none is left open after an answer that says *)
(* close, until SIGINT.                                                    *)
THEOREM EachOwnsItsDescriptors == Spec => []DescriptorsOwned
<1>1. UntilSigint => DescriptorsOwned
  <2> SUFFICES ASSUME ServerInv, NEW c \in ToSet(accepted)
               PROVE  /\ pc[c] # "done" => Owns(c)
                      /\ LeftAfterClose(c) => ~ Owns(c)
                      /\ pc[c] \in {"fread", "send", "content"} /\ file[c] # NULL => fdOf[file[c]] = << "file", c >>
                      /\ \A d \in Fd : fdOf[d] = << "file", c >> => d = file[c]
    BY DEF UntilSigint, DescriptorsOwned
  <2>1. c \in Client
    BY DEF ServerInv, ServerTypeOK, ToSet
  <2> QED BY <2>1 DEF ServerInv, DescriptorsSound, Owns, Ended, LeftAfterClose, FileOf
<1> QED BY <1>1, ServerInvariant, PTL

(* Every client gets the answers to its own requests, in their order and   *)
(* complete, until SIGINT: whatever the reads cut, whoever else connects.  *)
THEOREM ClientsGetTheirAnswers == Spec => []AnswersInOrder
<1>1. UntilSigint => AnswersInOrder
  <2> SUFFICES ASSUME ServerInv, NEW c \in Client, NEW i \in DOMAIN answers[c]
               PROVE  answers[c][i] = Answer(Requests[c][i])
    BY Zenon DEF UntilSigint, AnswersInOrder, Answer, ContentOf
  <2>1. AnswersSound(c)
    BY DEF ServerInv
  <2> QED BY <2>1, Zenon DEF AnswersSound
<1> QED BY <1>1, ServerInvariant, PTL
=============================================================================
