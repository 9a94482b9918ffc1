------------------------------ MODULE HttpServer ------------------------------
(***************************************************************************)
(* One ServerThread of src/py-http-server/http-server.py: it collects a    *)
(* request, answers it with a file or with a 404 page, and closes.  The    *)
(* threads share nothing but web_folder, so one of them is enough.  What   *)
(* the client makes of the answer is defined by HTTP, see Decoded.         *)
(***************************************************************************)
EXTENDS Naturals, Sequences

CONSTANTS
    ChunkSize,   \* chunk_size
    MaxBody,     \* bound on the size of a file
    PageSize,    \* size of the 404 page
    ZipSize      \* ZipSize[n]: size of n bytes after gzip_compress

HttpAssumption ==
    /\ ChunkSize \in Nat \ {0} /\ MaxBody \in Nat /\ PageSize \in Nat
    /\ ZipSize \in [0 .. MaxBody + PageSize -> Nat]

VARIABLES
    want,     \* the request the client sends, and the size of the file, if any
    request,  \* parts of the request received
    last,     \* parts that the last recv returned
    pc,       \* "recv", "parse", "chunk", "end", "notfound", "closed" or "died"
    at,       \* i: bytes of the body sent in chunks
    wire,     \* what has been sent
    client    \* "there", "done" (sends no more) or "gone"

vars == <<want, request, last, pc, at, wire, client>>

\* The parts that matter of a request: the request line in two, the header
\* line Accept-Encoding, and the empty line "\r\n\r\n" in two.
Request == <<"path", "version", "encoding", "cr", "lf">>
None == MaxBody + 1

Got(part) == part \in {request[k] : k \in DOMAIN request}
EnableGzip == want.gzip /\ Got("encoding")
EnableChunked == want.http11 /\ Got("version")

Compressed(n) == IF EnableGzip THEN ZipSize[n] ELSE n
BodySize == Compressed(want.file)

\* Pieces of an answer: a header, a chunk, bytes of a body.
Header(status, length, chunked) ==
    [kind |-> "header", status |-> status, length |-> length, chunked |-> chunked]
Chunk(from, n) == [kind |-> "chunk", from |-> from, size |-> n]
Bytes(n) == [kind |-> "body", from |-> 0, size |-> n]

Init ==
    /\ want \in [path : BOOLEAN, http11 : BOOLEAN, gzip : BOOLEAN, file : 0 .. None]
    /\ request = <<>> /\ last = 0
    /\ pc = "recv" /\ at = 0 /\ wire = <<>>
    /\ client = "there"

-----------------------------------------------------------------------------
(* The request.                                                            *)

\* recv returns any part of what was sent; the request is complete when this
\* part ends with the empty line, all of it.
Recv ==
    /\ pc = "recv"
    /\ \E n \in 1 .. Len(Request) - Len(request) :
        /\ last' = n
        /\ request' = SubSeq(Request, 1, Len(request) + n)
        /\ pc' = IF request' = Request /\ n >= 2 THEN "parse" ELSE "recv"
    /\ UNCHANGED <<want, at, wire, client>>

\* recv returns nothing: the request is what has been received.
RecvEnd ==
    /\ pc = "recv" /\ client # "there"
    /\ pc' = "parse"
    /\ UNCHANGED <<want, request, last, at, wire, client>>

-----------------------------------------------------------------------------
(* The answer.  A send to a client that is gone raises an exception.       *)

SendAll(pieces, next) ==
    \/ client # "gone" /\ wire' = wire \o pieces /\ pc' = next
    \/ client = "gone" /\ wire' = wire /\ pc' = "notfound"

\* No path to get: close.  Otherwise open and read the file; a failure is an
\* exception.
Parse ==
    /\ pc = "parse"
    /\ \/ ~(want.path /\ Got("path")) /\ pc' = "closed" /\ UNCHANGED wire
       \/ /\ want.path /\ Got("path")
          /\ \/ want.file = None /\ pc' = "notfound" /\ UNCHANGED wire
             \/ /\ want.file # None
                /\ IF EnableChunked
                   THEN SendAll(<<Header(200, 0, TRUE)>>, "chunk")
                   ELSE SendAll(<<Header(200, want.file, FALSE), Bytes(BodySize)>>, "closed")
    /\ UNCHANGED <<want, request, last, at, client>>

\* Mutant: a chunk is sent only when a whole one is left.
SendWholeChunk ==
    /\ pc = "chunk"
    /\ IF at + ChunkSize <= BodySize
       THEN /\ SendAll(<<Chunk(at, ChunkSize)>>, "chunk")
            /\ at' = at + ChunkSize
       ELSE pc' = "end" /\ UNCHANGED <<wire, at>>
    /\ UNCHANGED <<want, request, last, client>>

\* One chunk, with its size before it.
SendChunk ==
    /\ pc = "chunk"
    /\ IF at < BodySize
       THEN LET n == IF at + ChunkSize <= BodySize THEN ChunkSize ELSE BodySize - at IN
            /\ SendAll(<<Chunk(at, n)>>, "chunk")
            /\ at' = at + ChunkSize
       ELSE pc' = "end" /\ UNCHANGED <<wire, at>>
    /\ UNCHANGED <<want, request, last, client>>

SendLastChunk ==
    /\ pc = "end"
    /\ SendAll(<<Chunk(BodySize, 0)>>, "closed")
    /\ UNCHANGED <<want, request, last, at, client>>

\* The exception handler.  Its own sendall may raise: then the thread ends and
\* its close is not reached.
NotFound ==
    /\ pc = "notfound"
    /\ \/ /\ client # "gone"
          /\ wire' = wire \o <<Header(404, Compressed(PageSize), FALSE), Bytes(Compressed(PageSize))>>
          /\ pc' = "closed"
       \/ client = "gone" /\ pc' = "died" /\ UNCHANGED wire
    /\ UNCHANGED <<want, request, last, at, client>>

Thread == Recv \/ RecvEnd \/ Parse \/ SendChunk \/ SendLastChunk \/ NotFound

\* The client stops sending, perhaps in the middle of its request, or leaves.
ClientStops ==
    /\ \/ client = "there" /\ client' = "done"
       \/ client # "gone" /\ client' = "gone"
    /\ UNCHANGED <<want, request, last, pc, at, wire>>

Next == Thread \/ ClientStops
Spec == Init /\ [][Next]_vars

-----------------------------------------------------------------------------
(* Properties.                                                             *)

\* Chunks that follow one another from the first byte on.
Contiguous(body) ==
    \A k \in 1 .. Len(body) :
        body[k].from = IF k = 1 THEN 0 ELSE body[k - 1].from + body[k - 1].size

\* What a client of HTTP takes for the size of the body of a finished answer:
\* one number, or none when the answer is not well formed.
Decoded(answer) ==
    LET body == Tail(answer)
        n == Len(body)
    IN  IF answer = <<>> \/ Head(answer).kind # "header" THEN {}
        ELSE IF Head(answer).chunked
        THEN IF n > 0 /\ body[n].size = 0 /\ (\A k \in 1 .. n - 1 : body[k].size > 0) /\ Contiguous(body)
             THEN {body[n].from} ELSE {}
        ELSE IF n = 1 /\ body[1].size = Head(answer).length
             THEN {body[1].size} ELSE {}

TypeOK ==
    /\ request \in {SubSeq(Request, 1, k) : k \in 0 .. Len(Request)}
    /\ last \in 0 .. Len(request)
    /\ pc \in {"recv", "parse", "chunk", "end", "notfound", "closed", "died"}
    /\ at < BodySize + ChunkSize \/ at = 0
    /\ client \in {"there", "done", "gone"}

\* A thread waits for more of a request that has come in full only when its
\* empty line came in two pieces.
WaitsOnlyForSplitEnd == pc = "recv" /\ request = Request => last = 1

\* A client that stays gets the whole file, compressed or not, in an answer
\* whose framing says so, whatever the size of the file and of the chunks; and
\* the page when there is no file.  With gzip and without chunks
\* http-server.py:114 takes the length before compression: the header then has
\* the size of the file, and what follows it is all the same the whole
\* compressed body.
\* The handler of http-server.py:140 covers the sends as well, and yet its 404
\* page never follows a 200: the sends fail only when the client is gone.
AnswerIsFile ==
    /\ TypeOK /\ WaitsOnlyForSplitEnd
    /\ \A k \in 2 .. Len(wire) : wire[k].kind # "header"
    /\ pc = "closed" /\ want.path /\ Got("path") /\ client # "gone" =>
           IF want.file = None
           THEN Head(wire).status = 404 /\ Decoded(wire) = {Compressed(PageSize)}
           ELSE /\ Head(wire).status = 200
                /\ IF EnableChunked \/ BodySize = want.file
                   THEN Decoded(wire) = {BodySize}
                   ELSE Head(wire).length = want.file /\ Tail(wire) = <<Bytes(BodySize)>>
=============================================================================
