------------------------------ MODULE EchoSession ------------------------------
(***************************************************************************)
(* ForkServer with tcpcli.c at the other end: str_cli sends its input line *)
(* by line and waits for each line to come back before it takes the next.  *)
(* A byte is its place in the text on stdin, which has no NUL.  write and  *)
(* read of the client are the Send and Receive of EchoNet, the one byte by *)
(* byte, the other with as many bytes as there are.                        *)
(***************************************************************************)
EXTENDS ForkServer

CONSTANTS Texts    \* what stdin may be: its length, and which bytes are newlines

ASSUME EchoSessionAssumption ==
    Texts \subseteq [len : Nat, newlines : SUBSET Nat]

MAXLINE == BufSize    \* sendline and recvline are as large as the server's buf

VARIABLES
    cli,       \* the peers that run tcpcli; the others are those of EchoNet
    text,      \* their stdin
    step,      \* step[p]: "fgets", "write" or "read"
    pos,       \* pos[p]: bytes of stdin that fgets has taken
    printed    \* printed[p]: bytes fputs has printed

session == <<step, pos, printed>>
choice == <<cli, text>>

Nothing == [len |-> 0, newlines |-> {}]

SessionInit ==
    /\ Init
    /\ \/ cli = {} /\ text = Nothing
       \/ cli = Peers \ Rude /\ text \in Texts \union {Nothing}
    /\ step = [p \in Peers |-> "fgets"]
    /\ pos = [p \in Peers |-> 0]
    /\ printed = [p \in Peers |-> 0]

-----------------------------------------------------------------------------
(* The client.                                                             *)

\* Where a line that begins behind pos may end: at its newline, at the end of
\* the text, or when sendline holds no more.
LineEnds(p) ==
    {e \in pos[p] + 1 .. Low(text.len, pos[p] + MAXLINE - 1) :
        /\ e \in text.newlines \/ e = Low(text.len, pos[p] + MAXLINE - 1)
        /\ \A k \in pos[p] + 1 .. e - 1 : k \notin text.newlines}

Running(p) == st[p] # "none" /\ end[p] = "up"

Quit(p) ==
    /\ end' = [end EXCEPT ![p] = "gone"]
    /\ UNCHANGED <<backlog, st, rst, inq, outq, sent, got>>

Fgets(p) ==
    /\ Running(p) /\ step[p] = "fgets"
    /\ \/ /\ \E e \in LineEnds(p) : pos' = [pos EXCEPT ![p] = e]
          /\ step' = [step EXCEPT ![p] = "write"]
          /\ UNCHANGED net
       \/ /\ pos[p] = text.len
          /\ Quit(p)
          /\ UNCHANGED <<step, pos>>
    /\ UNCHANGED printed

\* writen
WriteLine(p) ==
    /\ Running(p) /\ step[p] = "write"
    /\ Send(p)
    /\ step' = [step EXCEPT ![p] = IF sent'[p] = pos[p] THEN "read" ELSE "write"]
    /\ UNCHANGED <<pos, printed>>

\* The server has closed: the bytes are lost, or SIGPIPE ends the client.
WriteLost(p) ==
    /\ Running(p) /\ step[p] = "write" /\ st[p] = "closed"
    /\ \/ step' = [step EXCEPT ![p] = "read"] /\ UNCHANGED net
       \/ Quit(p) /\ UNCHANGED step
    /\ UNCHANGED <<pos, printed>>

\* Bytes in recvline, which has room for them and a NUL.
Filled(p) == got[p] - printed[p]

Take(p, k) ==
    /\ outq' = [outq EXCEPT ![p] = SubSeq(@, k + 1, Len(@))]
    /\ got' = [got EXCEPT ![p] = @ + k]
    /\ UNCHANGED <<backlog, st, end, rst, inq, sent>>

\* Mutant: what one read has returned is the line.
ReadOnce(p) ==
    /\ Running(p) /\ step[p] = "read"
    /\ \E k \in 1 .. Low(Len(outq[p]), MAXLINE - 1 - Filled(p)) :
        /\ Take(p, k)
        /\ printed' = [printed EXCEPT ![p] = got'[p]]
        /\ step' = [step EXCEPT ![p] = "fgets"]
    /\ UNCHANGED pos

\* readline: another read, unless the last byte of this one is a newline or
\* recvline is full.
ReadLine(p) ==
    /\ Running(p) /\ step[p] = "read"
    /\ \E k \in 1 .. Low(Len(outq[p]), MAXLINE - 1 - Filled(p)) :
        /\ Take(p, k)
        /\ IF outq[p][k] \in text.newlines \/ Filled(p) + k = MAXLINE - 1
           THEN /\ printed' = [printed EXCEPT ![p] = got'[p]]
                /\ step' = [step EXCEPT ![p] = "fgets"]
           ELSE UNCHANGED <<printed, step>>
    /\ UNCHANGED pos

\* End of file, or an error: part of a line is printed before the next turn.
ReadEnd(p) ==
    /\ Running(p) /\ step[p] = "read" /\ st[p] = "closed" /\ outq[p] = <<>>
    /\ IF Filled(p) > 0
       THEN /\ printed' = [printed EXCEPT ![p] = got[p]]
            /\ step' = [step EXCEPT ![p] = "fgets"]
            /\ UNCHANGED net
       ELSE Quit(p) /\ UNCHANGED <<step, printed>>
    /\ UNCHANGED pos

StrCli(p) == Fgets(p) \/ WriteLine(p) \/ WriteLost(p) \/ ReadLine(p) \/ ReadEnd(p)

\* main: connect; when the connection is over tcpcli may be started again.  It
\* leaves nothing unread on a connection the server has open, so that none is
\* reset.
Main(p) ==
    \/ Connect(p) /\ UNCHANGED session
    \/ /\ end[p] = "gone" /\ Forget(p)
       /\ step' = [step EXCEPT ![p] = "fgets"]
       /\ pos' = [pos EXCEPT ![p] = 0]
       /\ printed' = [printed EXCEPT ![p] = 0]

SessionNext ==
    /\ \/ Server /\ UNCHANGED session
       \/ \E p \in Peers \ cli : PeerStep(p) /\ UNCHANGED <<server, session>>
       \/ \E p \in cli : (Main(p) \/ StrCli(p)) /\ UNCHANGED server
    /\ UNCHANGED choice

allVars == <<vars, session, choice>>
SessionSpec == SessionInit /\ [][SessionNext]_allVars

\* Every process is scheduled, and a signal is delivered before its receiver
\* goes on; what is sent to a peer that is not rude is read.  A rude one may
\* leave its echo unread for ever.
SessionFairSpec ==
    /\ SessionSpec
    /\ WF_allVars(Parent /\ UNCHANGED <<session, choice>>)
    /\ WF_allVars(Handler /\ UNCHANGED <<session, choice>>)
    /\ \A i \in Pids : WF_allVars(Child(i) /\ UNCHANGED <<session, choice>>)
    /\ \A p \in Peers \ Rude :
        /\ WF_allVars(p \in cli /\ StrCli(p) /\ UNCHANGED <<server, choice>>)
        /\ WF_allVars(p \notin cli /\ Receive(p) /\ UNCHANGED <<server, session, choice>>)

-----------------------------------------------------------------------------
(* Properties.                                                             *)

SessionTypeOK ==
    /\ cli \subseteq Peers /\ text \in Texts \union {Nothing}
    /\ step \in [Peers -> {"fgets", "write", "read"}]
    /\ \A p \in cli : printed[p] <= got[p] /\ sent[p] <= pos[p] /\ pos[p] <= text.len

\* readline looks for a newline only at the end of what a read returned.  That
\* is enough because the client is never ahead: when it takes a line, every
\* byte of the last one has come back and is printed.  It waits for an answer
\* that cannot come only when the text does not end in a newline.
LinesReturn ==
    /\ SessionTypeOK
    /\ \A p \in cli :
        /\ Filled(p) < MAXLINE
        /\ Running(p) /\ st[p] # "closed" /\ step[p] = "fgets" =>
               printed[p] = pos[p] /\ sent[p] = pos[p] /\ inq[p] = <<>> /\ outq[p] = <<>>
        /\ Running(p) /\ step[p] = "read" /\ got[p] = pos[p] =>
               pos[p] = text.len /\ text.len \notin text.newlines

\* What a client is still owed: the end of a text that ends in a newline, or
\* the bytes that others have sent.
Owed(p) ==
    IF p \in cli THEN end[p] # "gone" /\ (text.len = 0 \/ text.len \in text.newlines)
    ELSE sent[p] > got[p]

\* A client that does not read blocks its own child only: once a child serves
\* it, any other gets back what it has sent, and tcpcli comes to its end.
ClientsServed ==
    \A p \in Peers \ Rude : (\E i \in Pids : Live(i) /\ peer[i] = p) /\ Owed(p) ~> ~Owed(p)
=============================================================================
