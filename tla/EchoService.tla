---------------------------- MODULE EchoService ----------------------------
(***************************************************************************)
(* What the echo servers of sem-09-network and sem-10-network-2 promise    *)
(* their clients, with no socket, buffer or event in sight.                *)
(*                                                                         *)
(* A client's i-th byte is the number i.  The service puts out a growing   *)
(* prefix of what the client has sent, the client gets a growing prefix of *)
(* what was put out, and the service closes a connection only when the     *)
(* client has finished and all it sent was put out.  Either side may break *)
(* connections, which loses at most what is under way.                     *)
(***************************************************************************)
EXTENDS Naturals, Sequences

CONSTANTS Conns,   \* the connections
          MaxSent  \* bound: bytes a client sends

VARIABLES phase,  \* idle, open, finished (by the client), closed, broken
          sent,   \* how many bytes the client has sent
          out,    \* the bytes put out for the client
          got     \* the bytes the client has

vars == <<phase, sent, out, got>>

Stream(n) == [i \in 1 .. n |-> i]

Init ==
    /\ phase = [c \in Conns |-> "idle"]
    /\ sent = [c \in Conns |-> 0]
    /\ out = [c \in Conns |-> <<>>]
    /\ got = [c \in Conns |-> <<>>]

Begin(c) ==
    /\ phase[c] = "idle"
    /\ phase' = [phase EXCEPT ![c] = "open"]
    /\ UNCHANGED <<sent, out, got>>

Send(c) ==
    /\ phase[c] = "open" /\ sent[c] < MaxSent
    /\ sent' = [sent EXCEPT ![c] = @ + 1]
    /\ UNCHANGED <<phase, out, got>>

Finish(c) ==
    /\ phase[c] = "open"
    /\ phase' = [phase EXCEPT ![c] = "finished"]
    /\ UNCHANGED <<sent, out, got>>

Echo(c, n) ==
    /\ phase[c] \in {"open", "finished"}
    /\ n > Len(out[c]) /\ n <= sent[c]
    /\ out' = [out EXCEPT ![c] = Stream(n)]
    /\ UNCHANGED <<phase, sent, got>>

Deliver(c) ==
    /\ Len(got[c]) < Len(out[c])
    /\ got' = [got EXCEPT ![c] = SubSeq(out[c], 1, Len(@) + 1)]
    /\ UNCHANGED <<phase, sent, out>>

Close(c) ==
    /\ phase[c] = "finished" /\ out[c] = Stream(sent[c])
    /\ phase' = [phase EXCEPT ![c] = "closed"]
    /\ UNCHANGED <<sent, out, got>>

\* One connection, or with the server's end all of them; what was put out
\* and is not yet delivered may be lost.
Break(S, lossy) ==
    /\ \A c \in S : phase[c] \in {"open", "finished"}
    /\ phase' = [c \in Conns |-> IF c \in S THEN "broken" ELSE phase[c]]
    /\ out' = [c \in Conns |-> IF c \in S /\ lossy THEN got[c] ELSE out[c]]
    /\ UNCHANGED <<sent, got>>

Next ==
    \/ \E c \in Conns :
          \/ Begin(c) \/ Send(c) \/ Finish(c) \/ Deliver(c) \/ Close(c)
          \/ \E n \in 1 .. MaxSent : Echo(c, n)
    \/ \E S \in SUBSET Conns : \E lossy \in BOOLEAN : Break(S, lossy)

Spec == Init /\ [][Next]_vars

\* What a client may rely on at any time: it has the beginning of what was put
\* out, that is the beginning of what it sent, and all of it after a close.
Promised ==
    \A c \in Conns :
        /\ \E n \in 0 .. sent[c] : \E m \in 0 .. n :
              out[c] = Stream(n) /\ got[c] = Stream(m)
        /\ phase[c] = "closed" => out[c] = Stream(sent[c])

\* Everything a client in S sends comes back, unless its connection breaks.
Echoed(S) ==
    \A c \in S : \A k \in 1 .. MaxSent :
        sent[c] >= k ~> Len(got[c]) >= k \/ phase[c] = "broken"

=============================================================================
