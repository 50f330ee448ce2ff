----------------------------- MODULE TcpServer ------------------------------
(***************************************************************************)
(* sem-09-network/tcp_server.c: accepts a client, echoes to it until its   *)
(* end, and only then accepts the next.                                    *)
(*                                                                         *)
(* All calls block.  What printf shows past the bytes read, which it takes *)
(* for a string although no NUL follows them, is left out.                 *)
(***************************************************************************)
EXTENDS TcpSockets

CONSTANT BufSize  \* sizeof(buffer) in handle_client, 4096

VARIABLES pc,       \* accept, read, write, part (of a write taken), exit
          aborted,  \* the server ended by an assertion
          cur,      \* the client that is served
          rest      \* the bytes write has yet to take

serverVars == <<pc, aborted, cur, rest>>
vars == <<tcpVars, serverVars>>

TypeOK ==
    /\ TcpTypeOK
    /\ pc \in {"accept", "read", "write", "part", "exit"}
    /\ aborted \in BOOLEAN
    /\ cur \in Conns
    /\ rest \in Seq(Nat) /\ Len(rest) <= BufSize
    /\ rest # <<>> <=> pc \in {"write", "part"}

Init ==
    /\ TcpInit
    /\ pc = "accept"
    /\ aborted = FALSE
    /\ cur \in Conns
    /\ rest = <<>>

-----------------------------------------------------------------------------
(* run                                                                     *)

Accept(c) ==
    /\ pc = "accept"
    /\ c \in Backlog
    /\ conn' = [conn EXCEPT ![c] = "open"]
    /\ pc' = "read" /\ cur' = c
    /\ UNCHANGED <<sent, fin, rst, rcvq, sndq, got, aborted, rest>>

Exit(byAssertion) ==
    /\ SockExit
    /\ pc' = "exit"
    /\ aborted' = byAssertion
    /\ rest' = <<>>
    /\ UNCHANGED cur

\* accept fails, for a connection that was reset while it waited or for want
\* of memory, and err ends the server.
AcceptError ==
    pc = "accept" /\ Exit(FALSE)

\* handle_client has returned, whatever its status.
CloseClient ==
    /\ SockClose(cur)
    /\ pc' = "accept" /\ rest' = <<>>
    /\ UNCHANGED <<aborted, cur>>

-----------------------------------------------------------------------------
(* handle_client                                                           *)

Read(n) ==
    /\ pc = "read"
    /\ n \in 1 .. BufSize /\ n <= Len(rcvq[cur])
    /\ SockRead(cur, n)
    /\ pc' = "write" /\ rest' = SubSeq(rcvq[cur], 1, n)
    /\ UNCHANGED <<aborted, cur>>

\* The end of the stream, or ECONNRESET.
ReadEnd ==
    /\ pc = "read"
    /\ rcvq[cur] = <<>> /\ (fin[cur] \/ rst[cur])
    /\ CloseClient

\* Faulty variant: what the send buffer has no room for is given up.
WriteOnce(n) ==
    /\ pc \in {"write", "part"} /\ ~rst[cur]
    /\ n \in 1 .. Len(rest) /\ Len(sndq[cur]) + n <= SndCap
    /\ SockWrite(cur, SubSeq(rest, 1, n))
    /\ rest' = <<>>
    /\ pc' = "read"
    /\ UNCHANGED <<aborted, cur>>

\* The blocking write moves bytes as the client makes room for them.
Write(n) ==
    /\ pc \in {"write", "part"} /\ ~rst[cur]
    /\ n \in 1 .. Len(rest) /\ Len(sndq[cur]) + n <= SndCap
    /\ SockWrite(cur, SubSeq(rest, 1, n))
    /\ rest' = SubSeq(rest, n + 1, Len(rest))
    /\ pc' = IF n = Len(rest) THEN "read" ELSE "part"
    /\ UNCHANGED <<aborted, cur>>

\* The connection is reset before the write took a byte: ECONNRESET, or the
\* SIGPIPE that nobody handles if the client had finished before.
WriteError ==
    /\ pc = "write" /\ rst[cur]
    /\ CloseClient \/ (fin[cur] /\ Exit(FALSE))

\* It is reset when a part was taken: the write falls short.
WriteShort ==
    /\ pc = "part" /\ rst[cur]
    /\ Exit(TRUE)

-----------------------------------------------------------------------------
Server ==
    \/ AcceptError \/ ReadEnd \/ WriteError \/ WriteShort
    \/ \E c \in Conns : Accept(c)
    \/ \E n \in 1 .. BufSize : Read(n) \/ Write(n)

=============================================================================
