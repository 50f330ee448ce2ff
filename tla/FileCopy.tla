------------------------------ MODULE FileCopy ------------------------------
(***************************************************************************)
(* sem-02-files: cp-1.c, cp-2.c and cp-3.c, which copy a file.  cp-1 and   *)
(* cp-2 open the destination whatever it is; cp-3 looks at it first.       *)
(*                                                                         *)
(* A name leads to an inode, several names may lead to one, and another    *)
(* process may change what a name leads to between any two steps.  It does *)
(* not write to the source.  Permissions are left out.                     *)
(***************************************************************************)
EXTENDS Naturals, Sequences

CONSTANTS Length,    \* bytes of the source
          BufSize,   \* the size of buf, 1024
          Meddling   \* how often another process interferes

ASSUME FileCopyAssumption ==
    /\ Length \in Nat
    /\ BufSize \in Nat \ {0}
    /\ Meddling \in Nat

VARIABLES program,  \* the file that runs
          pc,       \* open, prepare, create, read, write, done, failed
          names,    \* what the destination's names lead to
          content,  \* the bytes of each inode
          path,     \* the name that will be opened as the destination
          excl,     \* whether it will be with O_EXCL and not with O_TRUNC
          dest,     \* the inode of destfd, or "none"
          in,       \* the offset of sourcefd
          buf,      \* what is read and not yet written
          meddled   \* how often another process has interfered

vars == <<program, pc, names, content, path, excl, dest, in, buf, meddled>>
prepared == <<path, excl>>

Programs == {"cp-1", "cp-2", "cp-3"}
Names == {"dst", "dst/src"}  \* argv[2], and within it basename(argv[1])
Inodes == {"source", "old", "new", "theirs"}
Original == [k \in 1 .. Length |-> k]

\* What dst may be: nothing, a file, the source itself or a directory, in
\* which src may be nothing, a file or the source itself.
Places ==
    {n \in [Names -> {"absent", "source", "old", "directory"}] :
        /\ n["dst/src"] # "directory"
        /\ n["dst"] # "directory" => n["dst/src"] = "absent"}

Init ==
    /\ program \in Programs
    /\ pc = "open"
    /\ names \in Places
    /\ content = [[i \in Inodes |-> <<0>>] EXCEPT !["source"] = Original,
                                                 !["new"] = <<>>]
    /\ path = "dst"
    /\ excl = FALSE
    /\ dest = "none"
    /\ in = 0
    /\ buf = <<>>
    /\ meddled = 0

-----------------------------------------------------------------------------
(* The other process                                                       *)

\* It removes dst, or puts a file of its own, a link to the source or an
\* empty directory there.
Meddle ==
    /\ meddled < Meddling
    /\ meddled' = meddled + 1
    /\ \E what \in {"absent", "theirs", "source", "directory"} :
          names' = [n \in Names |-> IF n = "dst" THEN what ELSE "absent"]
    /\ UNCHANGED <<program, pc, content, prepared, dest, in, buf>>

-----------------------------------------------------------------------------
(* Opening the files                                                       *)

OpenSource ==
    /\ pc = "open"
    /\ pc' = IF program = "cp-3" THEN "prepare" ELSE "create"
    /\ UNCHANGED <<program, names, content, prepared, dest, in, buf, meddled>>

\* stat, in prepare_dest
PrepareDest ==
    /\ pc = "prepare"
    /\ pc' = "create"
    /\ path' = IF names["dst"] = "directory" THEN "dst/src" ELSE "dst"
    /\ excl' = (names["dst"] = "absent")
    /\ UNCHANGED <<program, names, content, dest, in, buf, meddled>>

\* open with O_CREAT finds nothing.
Create ==
    /\ pc = "create"
    /\ names[path] = "absent"
    /\ path = "dst/src" => names["dst"] = "directory"
    /\ pc' = "read"
    /\ dest' = "new"
    /\ names' = [names EXCEPT ![path] = "new"]
    /\ UNCHANGED <<program, content, prepared, in, buf, meddled>>

\* Faulty variant: O_TRUNC where O_EXCL is.
TruncateAnyway ==
    /\ pc = "create"
    /\ names[path] \in Inodes
    /\ pc' = "read"
    /\ dest' = names[path]
    /\ content' = [content EXCEPT ![names[path]] = <<>>]
    /\ UNCHANGED <<program, names, prepared, in, buf, meddled>>

\* open with O_TRUNC finds a file.
Truncate == TruncateAnyway /\ ~excl

-----------------------------------------------------------------------------
(* copy and write_all                                                      *)

Read ==
    /\ pc = "read"
    /\ in < Len(content["source"])
    /\ \E n \in 1 .. BufSize :
          /\ in + n <= Len(content["source"])
          /\ buf' = SubSeq(content["source"], in + 1, in + n)
          /\ in' = in + n
    /\ pc' = "write"
    /\ UNCHANGED <<program, names, content, prepared, dest, meddled>>

\* read gives 0.
Finish ==
    /\ pc = "read"
    /\ in >= Len(content["source"])
    /\ pc' = "done"
    /\ UNCHANGED <<program, names, content, prepared, dest, in, buf, meddled>>

\* Faulty variant: what write does not take at once is forgotten.
WriteOnce ==
    /\ pc = "write"
    /\ \E n \in 1 .. Len(buf) :
          content' = [content EXCEPT ![dest] = @ \o SubSeq(buf, 1, n)]
    /\ buf' = <<>>
    /\ pc' = "read"
    /\ UNCHANGED <<program, names, prepared, dest, in, meddled>>

\* write takes n bytes: the offset of destfd is the end of the file, which was
\* empty when it was opened.
Write ==
    /\ pc = "write"
    /\ \E n \in 1 .. Len(buf) :
          /\ content' = [content EXCEPT ![dest] = @ \o SubSeq(buf, 1, n)]
          /\ buf' = SubSeq(buf, n + 1, Len(buf))
          /\ pc' = IF n = Len(buf) THEN "read" ELSE "write"
    /\ UNCHANGED <<program, names, prepared, dest, in, meddled>>

\* Any of the calls fails: exit(1).  The open of a directory, of a name that
\* exists with O_EXCL and of one whose directory is gone cannot but fail.
Fail ==
    /\ pc \notin {"done", "failed"}
    /\ pc' = "failed"
    /\ UNCHANGED <<program, names, content, prepared, dest, in, buf, meddled>>

-----------------------------------------------------------------------------
Copy == Read \/ Write \/ Finish \/ Fail

Cp1 == program = "cp-1" /\ (OpenSource \/ Create \/ Truncate \/ Copy)
Cp2 == program = "cp-2" /\ (OpenSource \/ Create \/ Truncate \/ Copy)
Cp3 ==
    /\ program = "cp-3"
    /\ OpenSource \/ PrepareDest \/ Create \/ Truncate \/ Copy

Next == Cp1 \/ Cp2 \/ Cp3 \/ Meddle

Spec == Init /\ [][Next]_vars

-----------------------------------------------------------------------------
(* Properties                                                              *)

TypeOK ==
    /\ program \in Programs
    /\ pc \in {"open", "prepare", "create", "read", "write", "done", "failed"}
    /\ names \in [Names -> Inodes \cup {"absent", "directory"}]
    /\ content \in [Inodes -> Seq(Nat)]
    /\ path \in Names
    /\ excl \in BOOLEAN
    /\ dest \in Inodes \cup {"none"}
    /\ in \in Nat
    /\ buf \in Seq(Nat)
    /\ meddled \in Nat

\* What the destination has and what is still to be written is what was read
\* of the source, through every short read and write; success means that all
\* of it is there, and the source as it was.  A copy of a file to itself
\* empties it, since O_TRUNC comes before the first read.
Copied ==
    CASE dest = "none" -> content["source"] = Original
      [] dest = "source" -> content["source"] = <<>>
      [] OTHER -> /\ content["source"] = Original
                  /\ content[dest] \o buf = SubSeq(Original, 1, in)
                  /\ pc = "done" => content[dest] = Original

\* cp-3.c: where stat has found nothing, only a file of the program's own is
\* written to, although another process may have put one there since.
NewFileOnly == excl /\ dest # "none" => dest = "new"

=============================================================================
