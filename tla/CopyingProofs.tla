--------------------------- MODULE CopyingProofs ---------------------------
(***************************************************************************)
(* The programs that copy put out what they read, in order, for an input   *)
(* of any length and any buffer: the copies of files under any             *)
(* interference with the names, of which cp-3 writes to no file that came  *)
(* after its look at them, and the filters of the terminal with a SIGINT   *)
(* at any time.                                                            *)
(***************************************************************************)
EXTENDS MCCopying, SequenceTheorems, TLAPS

\* The bytes of a buffer between two of its indices.
LEMMA Slice ==
    ASSUME NEW s, NEW a \in Nat, NEW b \in Nat, a <= b,
           \A i \in a + 1 .. b : s[i] \in Nat
    PROVE  /\ SubSeq(s, a + 1, b) \in Seq(Nat)
           /\ Len(SubSeq(s, a + 1, b)) = b - a
           /\ \A i \in 1 .. b - a : SubSeq(s, a + 1, b)[i] = s[a + i]
<1>1. a + 1 \in Int /\ b \in Int
  OBVIOUS
<1>2. /\ SubSeq(s, a + 1, b) \in Seq(Nat)
      /\ Len(SubSeq(s, a + 1, b)) =
           IF a + 1 <= b THEN b - (a + 1) + 1 ELSE 0
      /\ \A i \in 1 .. b - (a + 1) + 1 :
           SubSeq(s, a + 1, b)[i] = s[a + 1 + i - 1]
  BY <1>1, SubSeqProperties
<1>3. QED
  BY <1>2

\* Concatenation stays within the sequences of numbers, and lengths add up.
LEMMA ConcatLen ==
    ASSUME NEW s \in Seq(Nat), NEW t \in Seq(Nat)
    PROVE  /\ s \o t \in Seq(Nat)
           /\ Len(s \o t) = Len(s) + Len(t)
  BY ConcatProperties

\* Appending a byte.
LEMMA AppendByte ==
    ASSUME NEW s \in Seq(Nat), NEW x \in Nat
    PROVE  /\ Append(s, x) \in Seq(Nat)
           /\ Len(Append(s, x)) = Len(s) + 1
  BY AppendProperties

\* The numbering of a stream's bytes.
LEMMA NextNumber ==
    ASSUME NEW n \in Nat
    PROVE  /\ [i \in 1 .. n |-> i] \in Seq(Nat)
           /\ Len([i \in 1 .. n |-> i]) = n
           /\ [i \in 1 .. n + 1 |-> i] = Append([i \in 1 .. n |-> i], n + 1)
<1>1. \A m \in Nat : /\ [i \in 1 .. m |-> i] \in Seq(Nat)
                     /\ Len([i \in 1 .. m |-> i]) = m
  OBVIOUS
<1>2. Append([i \in 1 .. n |-> i], n + 1) \in Seq(Nat)
      /\ Len(Append([i \in 1 .. n |-> i], n + 1)) = n + 1
  BY <1>1, AppendByte
<1>3. \A j \in 1 .. n + 1 :
        [i \in 1 .. n + 1 |-> i][j] = Append([i \in 1 .. n |-> i], n + 1)[j]
  BY <1>1, AppendProperties
<1>4. QED
  BY <1>1, <1>2, <1>3, SeqEqual

\* A queue cut in two.
LEMMA CutQueue ==
    ASSUME NEW s \in Seq(Nat), NEW n \in 1 .. Len(s)
    PROVE  /\ SubSeq(s, 1, n) \in Seq(Nat)
           /\ SubSeq(s, n + 1, Len(s)) \in Seq(Nat)
           /\ SubSeq(s, 1, n) \o SubSeq(s, n + 1, Len(s)) = s
<1>1. \A i \in 1 .. Len(s) : s[i] \in Nat
  BY ElementOfSeq
<1>2. n \in Nat /\ Len(s) \in Nat /\ n <= Len(s) /\ 1 <= n
  BY LenProperties
<1>3. SubSeq(s, 0 + 1, n) \in Seq(Nat) /\ SubSeq(s, n + 1, Len(s)) \in Seq(Nat)
  BY <1>1, <1>2, Slice
<1>4. QED
  BY <1>2, <1>3, ConcatAdjacentSubSeq, SubSeqFull

\* The bytes of two queues in one.
LEMMA ConcatAt ==
    ASSUME NEW s \in Seq(Nat), NEW t \in Seq(Nat),
           NEW k \in 1 .. Len(s) + Len(t)
    PROVE  (s \o t)[k] = IF k <= Len(s) THEN s[k] ELSE t[k - Len(s)]
  BY ConcatProperties

\* Nothing before or after a queue.
LEMMA ConcatNone == \A s \in Seq(Nat) : s \o <<>> = s /\ <<>> \o s = s
<1> DEFINE S == Nat
<1>1. \A s \in Seq(S) : s \o <<>> = s /\ <<>> \o s = s
  <2> HIDE DEF S
  <2>1. QED
    BY ConcatEmptySeq
<1>2. QED
  BY <1>1

\* Over bytes, and for any cut of the stream.
LEMMA RegroupAny ==
    ASSUME NEW S, NEW s \in Seq(S), NEW p \in Seq(S), NEW q \in Seq(S)
    PROVE  (s \o p) \o q = s \o (p \o q)
  BY ConcatAssociative, SMT

\* Concatenation is associative.
LEMMA Regroup == \A s, p, q \in Seq(Nat) : (s \o p) \o q = s \o (p \o q)
<1> DEFINE S == Nat
<1>1. \A s, p, q \in Seq(S) : (s \o p) \o q = s \o (p \o q)
  <2> HIDE DEF S
  <2>1. QED
    BY RegroupAny
<1>2. QED
  BY <1>1

\* What has been read has been written or is in buf, and the file that is
\* created is empty until then.
Accounted ==
    /\ dest = "none" => /\ content["source"] = Original
                        /\ content["new"] = <<>>
                        /\ in = 0 /\ buf = <<>>
    /\ dest = "source" => content["source"] = <<>> /\ in = 0 /\ buf = <<>>
    /\ dest \notin {"none", "source"} =>
          /\ content["source"] = Original
          /\ in \in 0 .. Length
          /\ content[dest] \o buf = SubSeq(Original, 1, in)
          /\ pc = "done" => content[dest] = Original

\* Where the program is, and what it has opened.
Placed ==
    /\ pc \in {"open", "prepare", "create"} => dest = "none"
    /\ pc \in {"read", "write", "done"} => dest # "none"
    /\ pc = "read" => buf = <<>>

CopyInv == TypeOK /\ Accounted /\ Placed

\* The source is as long as it is meant to be.
LEMMA OriginalIs ==
    /\ Original \in Seq(Nat) /\ Len(Original) = Length
    /\ Length \in Nat /\ BufSize \in Nat
<1>1. Length \in Nat /\ BufSize \in Nat
  BY FileCopyAssumption
<1> QED
  BY <1>1, NextNumber DEF Original

\* The bytes read so far.
LEMMA ReadSoFar ==
    ASSUME NEW n \in 0 .. Length
    PROVE  SubSeq(Original, 1, n) \in Seq(Nat)
<1>1. \A i \in 1 .. Length : Original[i] \in Nat
  BY OriginalIs DEF Original
<1>2. /\ n \in Nat /\ 0 \in Nat /\ 0 <= n
      /\ \A i \in 0 + 1 .. n : i \in 1 .. Length
  BY OriginalIs
<1>3. \A i \in 0 + 1 .. n : Original[i] \in Nat
  BY <1>1, <1>2
<1>4. SubSeq(Original, 0 + 1, n) \in Seq(Nat)
  BY <1>2, <1>3, Slice
<1> QED
  BY <1>4

\* A read that goes on where the last one ended extends the prefix.
LEMMA ReadOn ==
    ASSUME NEW a \in Nat, NEW b \in 0 .. Length, b >= a
    PROVE  SubSeq(Original, 1, a) \o SubSeq(Original, a + 1, b) =
             SubSeq(Original, 1, b)
<1>1. /\ 1 \in 1 .. Len(Original) + 1 /\ a \in 1 - 1 .. Len(Original)
      /\ b \in a .. Len(Original)
  BY OriginalIs
<1> QED
  BY <1>1, OriginalIs, ConcatAdjacentSubSeq

\* No byte is read or written at the beginning.
LEMMA CopyInit == Init => CopyInv
<1> SUFFICES ASSUME Init PROVE CopyInv
  OBVIOUS
<1>1. names \in [Names -> Inodes \cup {"absent", "directory"}]
  BY DEF Init, Places, Inodes
<1>2. /\ content \in [Inodes -> Seq(Nat)]
      /\ content["source"] = Original /\ content["new"] = <<>>
  <2>1. <<>> \in Seq(Nat) /\ <<0>> \in Seq(Nat)
    OBVIOUS
  <2> QED
    BY <2>1, OriginalIs DEF Init, Inodes
<1>3. /\ program \in Programs /\ pc = "open" /\ path \in Names
      /\ excl \in BOOLEAN /\ dest = "none" /\ in = 0 /\ buf = <<>>
      /\ meddled = 0
  BY DEF Init, Names
<1>4. buf \in Seq(Nat) /\ in \in Nat /\ meddled \in Nat
  BY <1>3
<1> QED
  BY <1>1, <1>2, <1>3, <1>4 DEF CopyInv, TypeOK, Accounted, Placed

\* What happens to names and descriptors moves no byte.
LEMMA OpenStep ==
    ASSUME CopyInv, \/ OpenSource \/ PrepareDest \/ Meddle \/ Fail
    PROVE  CopyInv'
<1> USE DEF CopyInv, TypeOK, Accounted, Placed, prepared
<1>1. CASE OpenSource
  BY <1>1 DEF OpenSource
<1>2. CASE PrepareDest
  BY <1>2 DEF PrepareDest, Names
<1>3. CASE Meddle
  <2>1. names' \in [Names -> Inodes \cup {"absent", "directory"}]
    BY <1>3 DEF Meddle, Inodes
  <2>2. meddled' \in Nat
    BY <1>3 DEF Meddle
  <2> QED
    BY <1>3, <2>1, <2>2 DEF Meddle
<1>4. CASE Fail
  BY <1>4 DEF Fail
<1> QED
  BY <1>1, <1>2, <1>3, <1>4

\* An empty file and an empty buffer hold the first 0 bytes.
LEMMA NothingRead ==
    /\ <<>> \o <<>> = SubSeq(Original, 1, 0)
    /\ 0 \in 0 .. Length
  BY OriginalIs

\* A destination that is created is empty, as is what was read so far.
LEMMA CreateStep ==
    ASSUME CopyInv, Create
    PROVE  CopyInv'
<1>1. /\ dest = "none" /\ dest' = "new" /\ pc' = "read"
      /\ in' = 0 /\ buf' = <<>> /\ content' = content
      /\ content["source"] = Original /\ content["new"] = <<>>
  BY DEF Create, CopyInv, Accounted, Placed
<1>2. TypeOK'
  BY <1>1 DEF Create, CopyInv, TypeOK, Inodes, prepared
<1>3. Accounted' /\ Placed'
  BY <1>1, NothingRead DEF Accounted, Placed
<1> QED
  BY <1>2, <1>3 DEF CopyInv

\* A destination that is emptied, or the source if they are one file.
LEMMA TruncateStep ==
    ASSUME CopyInv, Truncate
    PROVE  CopyInv'
<1>1. /\ dest = "none" /\ dest' \in Inodes /\ pc' = "read"
      /\ in' = 0 /\ buf' = <<>>
      /\ content' = [content EXCEPT ![dest'] = <<>>]
      /\ content["source"] = Original
  BY DEF Truncate, TruncateAnyway, CopyInv, Accounted, Placed
<1>2. /\ content \in [Inodes -> Seq(Nat)] /\ <<>> \in Seq(Nat)
      /\ "source" \in Inodes
  BY DEF CopyInv, TypeOK, Inodes
<1>3. /\ content' \in [Inodes -> Seq(Nat)]
      /\ content'[dest'] = <<>>
      /\ dest' # "source" => content'["source"] = Original
  BY <1>1, <1>2
<1>4. TypeOK'
  BY <1>1, <1>3 DEF Truncate, TruncateAnyway, CopyInv, TypeOK, prepared
<1>5. Accounted' /\ Placed'
  BY <1>1, <1>3, NothingRead DEF Accounted, Placed, Inodes
<1> QED
  BY <1>4, <1>5 DEF CopyInv

\* A read takes the next bytes, and only when all before are written.
LEMMA ReadStep ==
    ASSUME CopyInv, Read
    PROVE  CopyInv'
<1>1. /\ content["source"] \in Seq(Nat) /\ in \in Nat
      /\ dest \in Inodes /\ buf = <<>>
      /\ in < Len(content["source"])
  BY DEF Read, CopyInv, TypeOK, Placed, Inodes
<1>2. dest # "source" /\ content["source"] = Original
  <2>1. content["source"] # <<>>
    BY <1>1
  <2> QED
    BY <1>1, <2>1 DEF CopyInv, Accounted, Inodes
<1>3. /\ content[dest] \o buf = SubSeq(Original, 1, in)
      /\ content[dest] \in Seq(Nat)
  BY <1>1, <1>2 DEF CopyInv, Accounted, TypeOK, Inodes
<1>4. PICK n \in 1 .. BufSize :
        /\ in + n <= Length
        /\ buf' = SubSeq(Original, in + 1, in + n)
        /\ in' = in + n
  BY <1>2, OriginalIs DEF Read
<1>5. n \in Nat /\ in' \in 0 .. Length /\ in' >= in /\ in' \in Nat
  BY <1>1, <1>4, OriginalIs
<1>6. buf' \in Seq(Nat)
  <2>1. \A i \in 1 .. Length : Original[i] \in Nat
    BY OriginalIs DEF Original
  <2>2. \A i \in in + 1 .. in' : i \in 1 .. Length
    BY <1>1, <1>5, OriginalIs
  <2>3. SubSeq(Original, in + 1, in') \in Seq(Nat)
    BY <1>1, <1>5, <2>1, <2>2, Slice
  <2> QED
    BY <1>4, <2>3
<1>7. content[dest] = SubSeq(Original, 1, in)
  BY <1>1, <1>3
<1>8. SubSeq(Original, 1, in) \o SubSeq(Original, in + 1, in') =
        SubSeq(Original, 1, in')
  BY <1>1, <1>5, ReadOn
<1>9. content'[dest'] \o buf' = SubSeq(Original, 1, in')
  BY <1>4, <1>7, <1>8 DEF Read
<1>10. /\ pc' = "write"
       /\ UNCHANGED <<program, names, content, path, excl, dest, meddled>>
  BY DEF Read, prepared
<1>11. TypeOK'
  BY <1>5, <1>6, <1>10 DEF CopyInv, TypeOK
<1>12. Accounted' /\ Placed'
  BY <1>1, <1>2, <1>5, <1>9, <1>10 DEF Accounted, Placed, Inodes
<1> QED
  BY <1>11, <1>12 DEF CopyInv

\* A write puts out the first of the bytes that are left.
LEMMA WriteStep ==
    ASSUME CopyInv, Write
    PROVE  CopyInv'
<1>1. /\ content \in [Inodes -> Seq(Nat)] /\ buf \in Seq(Nat)
      /\ dest \in Inodes
  BY DEF Write, CopyInv, TypeOK, Placed
<1>2. PICK n \in 1 .. Len(buf) :
        /\ content' = [content EXCEPT ![dest] = @ \o SubSeq(buf, 1, n)]
        /\ buf' = SubSeq(buf, n + 1, Len(buf))
        /\ pc' = IF n = Len(buf) THEN "read" ELSE "write"
  BY DEF Write
<1>3. dest # "source"
  BY <1>1, <1>2 DEF CopyInv, Accounted
<1>4. /\ content["source"] = Original /\ in \in 0 .. Length
      /\ content[dest] \o buf = SubSeq(Original, 1, in)
  BY <1>1, <1>3 DEF CopyInv, Accounted, Inodes
<1>5. /\ SubSeq(buf, 1, n) \in Seq(Nat) /\ buf' \in Seq(Nat)
      /\ SubSeq(buf, 1, n) \o buf' = buf
  BY <1>1, <1>2, CutQueue
<1>6. /\ content' \in [Inodes -> Seq(Nat)]
      /\ content'[dest] = content[dest] \o SubSeq(buf, 1, n)
      /\ content'["source"] = Original
  <2>1. content[dest] \o SubSeq(buf, 1, n) \in Seq(Nat)
    BY <1>1, <1>5, ConcatLen
  <2> QED
    BY <1>1, <1>2, <1>3, <1>4, <2>1 DEF Inodes
<1>7. content'[dest] \o buf' = SubSeq(Original, 1, in)
  <2>1. content[dest] \in Seq(Nat)
    BY <1>1
  <2>2. (content[dest] \o SubSeq(buf, 1, n)) \o buf' =
          content[dest] \o (SubSeq(buf, 1, n) \o buf')
    BY <1>5, <2>1, Regroup, ZenonT(60)
  <2> QED
    BY <1>4, <1>5, <1>6, <2>2, Zenon
<1>8. n = Len(buf) => buf' = <<>>
  BY <1>1, <1>2
<1>9. /\ UNCHANGED <<program, names, path, excl, dest, in, meddled>>
      /\ pc' \in {"read", "write"}
  BY <1>2 DEF Write, prepared
<1>10. TypeOK'
  BY <1>5, <1>6, <1>9 DEF CopyInv, TypeOK
<1>11. Accounted'
  BY <1>1, <1>3, <1>4, <1>6, <1>7, <1>9 DEF Accounted, Inodes
<1>12. Placed'
  BY <1>1, <1>2, <1>8, <1>9 DEF Placed, Inodes
<1> QED
  BY <1>10, <1>11, <1>12 DEF CopyInv

\* A copy ends at the end of the source, with nothing left to write.
LEMMA FinishStep ==
    ASSUME CopyInv, Finish
    PROVE  CopyInv'
<1>1. /\ dest \in Inodes /\ buf = <<>> /\ in \in Nat
      /\ content \in [Inodes -> Seq(Nat)]
      /\ in >= Len(content["source"])
  BY DEF Finish, CopyInv, TypeOK, Placed
<1>2. /\ pc' = "done"
      /\ UNCHANGED <<program, names, content, path, excl, dest, in, buf>>
      /\ UNCHANGED meddled
  BY DEF Finish, prepared
<1>3. ASSUME dest # "source" PROVE content[dest] = Original
  <2>1. /\ content["source"] = Original /\ in \in 0 .. Length
        /\ content[dest] \o buf = SubSeq(Original, 1, in)
    BY <1>1, <1>3 DEF CopyInv, Accounted, Inodes
  <2>2. in = Length
    BY <1>1, <2>1, OriginalIs
  <2>3. SubSeq(Original, 1, in) = Original
    BY <2>2, OriginalIs, SubSeqFull
  <2> QED
    BY <1>1, <2>1, <2>3
<1> QED
  BY <1>1, <1>2, <1>3 DEF CopyInv, TypeOK, Accounted, Placed, Inodes

\* Every step of the three programs and of who meddles.
LEMMA CopyStep == CopyInv /\ [Next]_vars => CopyInv'
<1> SUFFICES ASSUME CopyInv, [Next]_vars PROVE CopyInv'
  OBVIOUS
<1>1. CASE UNCHANGED vars
  BY <1>1 DEF vars, CopyInv, TypeOK, Accounted, Placed
<1>2. CASE Next
  BY <1>2, OpenStep, CreateStep, TruncateStep, ReadStep, WriteStep, FinishStep
  DEF Next, Cp1, Cp2, Cp3, Copy
<1> QED
  BY <1>1, <1>2

\* Through every short read and write, the destination is what was read of the
\* source less what is still to be written, and a program that succeeds has
\* copied all of it; a file that is copied to itself is emptied.
THEOREM CopiesAll == Spec => []Copied
<1>1. CopyInv => Copied
  BY DEF CopyInv, TypeOK, Accounted, Copied
<1> QED
  BY <1>1, CopyInit, CopyStep, PTL DEF Spec

-----------------------------------------------------------------------------
\* cp-3 opens with O_EXCL where it has found nothing: it empties and writes no
\* file that another process has put there since.
THEOREM KeepsNewFiles == Spec => []NewFileOnly
<1>2. Init => NewFileOnly
  BY DEF Init, NewFileOnly
<1>3. CopyInv /\ NewFileOnly /\ [Next]_vars => NewFileOnly'
  <2> SUFFICES ASSUME CopyInv, NewFileOnly, [Next]_vars PROVE NewFileOnly'
    OBVIOUS
  <2> USE DEF NewFileOnly, CopyInv, Placed, prepared
  <2>1. CASE OpenSource \/ PrepareDest
    BY <2>1 DEF OpenSource, PrepareDest
  <2>2. CASE Create \/ Truncate
    BY <2>2 DEF Create, Truncate, TruncateAnyway
  <2>3. CASE Copy \/ Meddle
    BY <2>3 DEF Copy, Read, Write, Finish, Fail, Meddle
  <2>4. CASE UNCHANGED vars
    BY <2>4 DEF vars
  <2> QED
    BY <2>1, <2>2, <2>3, <2>4 DEF Next, Cp1, Cp2, Cp3
<1> QED
  BY <1>2, <1>3, CopyInit, CopyStep, PTL DEF Spec

-----------------------------------------------------------------------------
(* The filters                                                             *)

\* The first bytes that were typed.
First(n) == [k \in 1 .. n |-> k]

\* The first n bytes that are typed are n bytes.
LEMMA FirstIs ==
    ASSUME NEW n \in Nat
    PROVE  First(n) \in Seq(Nat) /\ Len(First(n)) = n
  BY NextNumber DEF First

\* The beginning of the first bytes is the first bytes again.
LEMMA FirstPart ==
    ASSUME NEW s \in Seq(Nat), NEW t \in Seq(Nat), NEW n \in Nat,
           s \o t = First(n)
    PROVE  s = First(Len(s))
<1>1. Len(s) \in Nat /\ Len(t) \in Nat /\ n = Len(s) + Len(t)
  BY FirstIs, ConcatProperties, LenProperties
<1>2. \A k \in 1 .. Len(s) : s[k] = k
  <2> SUFFICES ASSUME NEW k \in 1 .. Len(s) PROVE s[k] = k
    OBVIOUS
  <2>1. (s \o t)[k] = s[k] /\ k \in 1 .. n
    BY <1>1, ConcatProperties
  <2> QED
    BY <2>1 DEF First
<1> QED
  BY <1>1, <1>2, FirstIs, SeqEqual DEF First

\* The next read goes on where the last one ended.
LEMMA FirstMore ==
    ASSUME NEW a \in Nat, NEW n \in Nat
    PROVE  /\ [k \in 1 .. n |-> a + k] \in Seq(Nat)
           /\ First(a) \o [k \in 1 .. n |-> a + k] = First(a + n)
<1> DEFINE next == [k \in 1 .. n |-> a + k]
<1>1. next \in Seq(Nat) /\ Len(next) = n /\ \A k \in 1 .. n : next[k] = a + k
  OBVIOUS
<1> HIDE DEF next
<1>2. /\ First(a) \in Seq(Nat) /\ Len(First(a)) = a
      /\ First(a + n) \in Seq(Nat) /\ Len(First(a + n)) = a + n
  BY FirstIs
<1>3. First(a) \o next \in Seq(Nat) /\ Len(First(a) \o next) = a + n
  BY <1>1, <1>2, ConcatLen, SMTT(40)
<1>4. \A k \in 1 .. a + n : (First(a) \o next)[k] = First(a + n)[k]
  <2> SUFFICES ASSUME NEW k \in 1 .. a + n
               PROVE  (First(a) \o next)[k] = First(a + n)[k]
    OBVIOUS
  <2>1. First(a + n)[k] = k /\ (k <= a => First(a)[k] = k)
    BY DEF First
  <2>2. k > a => next[k - a] = k
    BY <1>1
  <2>3. (First(a) \o next)[k] = IF k <= a THEN First(a)[k] ELSE next[k - a]
    <3>1. k \in 1 .. Len(First(a)) + Len(next)
      BY <1>1, <1>2
    <3>2. (First(a) \o next)[k] =
            IF k <= Len(First(a)) THEN First(a)[k]
                                  ELSE next[k - Len(First(a))]
      BY <1>1, <1>2, <3>1, ConcatAt
    <3> QED
      BY <1>2, <3>2
  <2> QED
    BY <2>1, <2>2, <2>3
<1>5. First(a) \o next = First(a + n)
  BY <1>2, <1>3, <1>4, SeqEqual
<1> QED
  BY <1>1, <1>5 DEF next

FilterType ==
    /\ part \in {"cp", "sigint_cat", "sigint_cat_select"}
    /\ taken \in Nat
    /\ output \in Seq(Nat) /\ shown \in Seq(Nat)
    /\ buffer \in Seq(Nat) /\ rest \in Seq(Nat)

\* sigint_cat.c has put out all it has taken when it reads again: what a
\* SIGINT cut off it never reads past.
CheckedInOrder ==
    /\ shown = <<>>
    /\ output = First(Len(output))
    /\ at \in {"start", "read"} => output = First(taken)
    /\ at = "check" /\ ~received => output = First(taken)
    /\ at = "write" => output \o buffer = First(taken)

\* sigint_cat_select.c has bytes in hand in its write only.
SelectedInOrder ==
    /\ (shown \o output) \o rest = First(taken)
    /\ at # "write" => rest = <<>>

FilterInv ==
    /\ FilterType
    /\ part = "cp" => shown = <<>> /\ output = <<>>
    /\ part = "sigint_cat" => CheckedInOrder
    /\ part = "sigint_cat_select" => SelectedInOrder

\* Before a byte is typed there is none.
LEMMA NoByte == First(0) = <<>>
<1>1. First(0) \in Seq(Nat) /\ Len(First(0)) = 0
  BY FirstIs
<1> QED
  BY <1>1

\* The filters begin with nothing typed, held or put out.
LEMMA FilterInit == MCInit => FilterInv
<1> SUFFICES ASSUME MCInit PROVE FilterInv
  OBVIOUS
<1>1. /\ part \in {"cp", "sigint_cat", "sigint_cat_select"}
      /\ at = "start" /\ taken = 0
      /\ output = <<>> /\ shown = <<>> /\ buffer = <<>> /\ rest = <<>>
  BY DEF MCInit, Checking!Init, Selecting!Init
<1>2. FilterType
  BY <1>1 DEF FilterType
<1>3. CheckedInOrder /\ SelectedInOrder
  BY <1>1, NoByte DEF CheckedInOrder, SelectedInOrder
<1> QED
  BY <1>1, <1>2, <1>3 DEF FilterInv

\* Every step of sigint_cat.c, its user and SIGINT, and a call that fails.
LEMMA CheckStep ==
    ASSUME FilterInv, part = "sigint_cat", part' = part,
           Checking!Main \/ Checking!User \/ Checking!Fail,
           UNCHANGED selectVars
    PROVE  FilterInv'
<1>1. FilterType /\ CheckedInOrder /\ shown' = shown /\ rest' = rest
  BY DEF FilterInv, selectVars
<1> SUFFICES FilterType' /\ CheckedInOrder'
  BY DEF FilterInv
<1>2. CASE Checking!Type \/ Checking!EndInput \/ Checking!Sigint
  BY <1>1, <1>2
  DEF Checking!Type, Checking!EndInput, Checking!Sigint, FilterType,
      CheckedInOrder
<1>3. CASE \/ Checking!Sigaction \/ Checking!Check \/ Checking!ReadEnd
           \/ Checking!Fail \/ Checking!Shutdown
  BY <1>1, <1>3
  DEF Checking!Sigaction, Checking!Check, Checking!ReadEnd, Checking!Fail,
      Checking!Shutdown, Checking!Step, FilterType, CheckedInOrder
<1>4. ASSUME NEW n \in 1 .. BufSize, Checking!Read(n)
      PROVE  FilterType' /\ CheckedInOrder'
  <2>1. /\ n \in Nat /\ taken \in Nat
        /\ taken' = taken + n
        /\ buffer' = [k \in 1 .. n |-> taken + k]
        /\ at = "read" /\ at' = "write" /\ output' = output
    BY <1>1, <1>4 DEF FilterType, Checking!Read, Checking!Step
  <2>2. buffer' \in Seq(Nat) /\ output' \o buffer' = First(taken')
    BY <1>1, <2>1, FirstMore DEF CheckedInOrder
  <2>3. FilterType'
    BY <1>1, <2>1, <2>2 DEF FilterType
  <2>4. shown' = <<>> /\ output' = First(Len(output'))
    BY <1>1, <2>1 DEF CheckedInOrder
  <2> QED
    BY <2>1, <2>2, <2>3, <2>4 DEF CheckedInOrder
<1>5. ASSUME NEW n \in 1 .. BufSize, Checking!Write(n)
      PROVE  FilterType' /\ CheckedInOrder'
  <2>1. /\ n \in 1 .. Len(buffer) /\ (n = Len(buffer) \/ received)
        /\ output' = output \o SubSeq(buffer, 1, n)
        /\ buffer' = <<>>
        /\ at = "write" /\ at' = "check"
        /\ received' = received /\ taken' = taken
    BY <1>5 DEF Checking!Write, Checking!Step
  <2>2. /\ SubSeq(buffer, 1, n) \in Seq(Nat)
        /\ SubSeq(buffer, n + 1, Len(buffer)) \in Seq(Nat)
        /\ SubSeq(buffer, 1, n) \o SubSeq(buffer, n + 1, Len(buffer)) = buffer
    BY <1>1, <2>1, CutQueue, SMTT(40) DEF FilterType
  <2>3. output \in Seq(Nat) /\ output' \in Seq(Nat) /\ taken \in Nat
    BY <1>1, <2>1, <2>2, ConcatLen DEF FilterType
  <2>4. output' \o SubSeq(buffer, n + 1, Len(buffer)) = First(taken)
    <3> DEFINE p == SubSeq(buffer, 1, n)
               q == SubSeq(buffer, n + 1, Len(buffer))
    <3>1. /\ p \in Seq(Nat) /\ q \in Seq(Nat) /\ p \o q = buffer
          /\ output' = output \o p
      BY <2>1, <2>2
    <3> HIDE DEF p, q
    <3>2. output' \o q = output \o buffer
      BY <2>3, <3>1, Regroup, ZenonT(60)
    <3> QED
      BY <1>1, <2>1, <3>2 DEF CheckedInOrder, q
  <2>5. output' = First(Len(output'))
    BY <2>2, <2>3, <2>4, FirstPart
  <2>6. n = Len(buffer) => output' = First(taken)
    <3>1. buffer \in Seq(Nat)
      BY <1>1 DEF FilterType
    <3> QED
      BY <1>1, <2>1, <3>1, SubSeqFull DEF CheckedInOrder
  <2> QED
    BY <1>1, <2>1, <2>3, <2>5, <2>6 DEF FilterType, CheckedInOrder
<1> QED
  BY <1>2, <1>3, <1>4, <1>5 DEF Checking!Main, Checking!User

\* Every step of sigint_cat_select.c, its user and who reads its output, and
\* a read that fails.
LEMMA SelectStep ==
    ASSUME FilterInv, part = "sigint_cat_select", part' = part,
           \/ Selecting!Main \/ Selecting!User
           \/ Selecting!Show \/ Selecting!ReadError,
           UNCHANGED checkVars
    PROVE  FilterInv'
<1>1. FilterType /\ SelectedInOrder /\ buffer' = buffer
  BY DEF FilterInv, checkVars
<1>2. /\ output \in Seq(Nat) /\ shown \in Seq(Nat) /\ rest \in Seq(Nat)
      /\ taken \in Nat
      /\ (shown \o output) \o rest = First(taken)
  BY <1>1 DEF FilterType, SelectedInOrder
<1> SUFFICES FilterType' /\ SelectedInOrder'
  BY DEF FilterInv
<1>3. CASE Selecting!Type \/ Selecting!EndInput \/ Selecting!Sigint
  BY <1>1, <1>3
  DEF Selecting!Type, Selecting!EndInput, Selecting!Sigint,
      Selecting!userVars, FilterType, SelectedInOrder
<1>4. CASE \/ Selecting!BlockSigint \/ Selecting!Select
           \/ Selecting!TakeSignal \/ Selecting!ReadEnd \/ Selecting!ReadError
  BY <1>1, <1>4
  DEF Selecting!BlockSigint, Selecting!Select, Selecting!TakeSignal,
      Selecting!ReadEnd, Selecting!ReadError, Selecting!userVars,
      FilterType, SelectedInOrder
<1>5. ASSUME NEW n \in 1 .. BufSize, Selecting!Read(n)
      PROVE  FilterType' /\ SelectedInOrder'
  <2>1. /\ n \in Nat
        /\ taken' = taken + n
        /\ rest' = [k \in 1 .. n |-> taken + k]
        /\ at = "handle" /\ at' = "write"
        /\ output' = output /\ shown' = shown
    BY <1>5 DEF Selecting!Read
  <2>2. shown \o output = First(taken)
    <3>1. shown \o output \in Seq(Nat)
      BY <1>2, ConcatLen
    <3>2. rest = <<>>
      BY <1>1, <2>1 DEF SelectedInOrder
    <3> QED
      BY <1>2, <3>1, <3>2, ConcatNone, Zenon
  <2>3. rest' \in Seq(Nat) /\ (shown \o output) \o rest' = First(taken')
    BY <1>2, <2>1, <2>2, FirstMore, Zenon
  <2>4. FilterType'
    BY <1>1, <1>2, <2>1, <2>3 DEF FilterType
  <2>5. (shown' \o output') \o rest' = First(taken')
    BY <2>1, <2>3
  <2> QED
    BY <2>1, <2>4, <2>5 DEF SelectedInOrder
<1>6. ASSUME NEW n \in 1 .. BufSize, Selecting!Write(n)
      PROVE  FilterType' /\ SelectedInOrder'
  <2>1. /\ n \in 1 .. Len(rest)
        /\ output' = output \o SubSeq(rest, 1, n)
        /\ rest' = SubSeq(rest, n + 1, Len(rest))
        /\ at' = IF n = Len(rest) THEN "select" ELSE "write"
        /\ shown' = shown /\ taken' = taken
    BY <1>6 DEF Selecting!Write, Selecting!Taken
  <2>2. /\ SubSeq(rest, 1, n) \in Seq(Nat) /\ rest' \in Seq(Nat)
        /\ SubSeq(rest, 1, n) \o rest' = rest
    BY <1>2, <2>1, CutQueue
  <2>3. output' \in Seq(Nat) /\ shown \o output \in Seq(Nat)
    BY <1>2, <2>1, <2>2, ConcatLen
  <2>4. (shown \o output') \o rest' = First(taken)
    <3>1. shown \o output' = (shown \o output) \o SubSeq(rest, 1, n)
      BY <1>2, <2>1, <2>2, Regroup, ZenonT(60)
    <3>2. ((shown \o output) \o SubSeq(rest, 1, n)) \o rest' =
            (shown \o output) \o (SubSeq(rest, 1, n) \o rest')
      BY <2>2, <2>3, Regroup, ZenonT(60)
    <3> QED
      BY <1>2, <2>2, <3>1, <3>2, Zenon
  <2>5. at' # "write" => rest' = <<>>
    BY <1>2, <2>1
  <2> QED
    BY <1>1, <1>2, <2>1, <2>2, <2>3, <2>4, <2>5, Zenon
    DEF FilterType, SelectedInOrder
<1>7. CASE Selecting!Show
  <2>1. /\ output # <<>>
        /\ shown' = Append(shown, Head(output))
        /\ output' = Tail(output)
        /\ at' = at /\ taken' = taken /\ rest' = rest
    BY <1>7 DEF Selecting!Show
  <2>2. /\ Head(output) \in Nat /\ output' \in Seq(Nat)
        /\ output = <<Head(output)>> \o output'
    BY <1>2, <2>1, HeadTailProperties
  <2>3. shown' = shown \o <<Head(output)>> /\ shown' \in Seq(Nat)
        /\ <<Head(output)>> \in Seq(Nat)
    BY <1>2, <2>1, <2>2, AppendProperties
  <2>4. shown' \o output' = shown \o output
    <3>1. (shown \o <<Head(output)>>) \o output' =
            shown \o (<<Head(output)>> \o output')
      BY <1>2, <2>2, <2>3, Regroup, ZenonT(60)
    <3> QED
      BY <2>2, <2>3, <3>1, Zenon
  <2> QED
    BY <1>1, <1>2, <2>1, <2>2, <2>3, <2>4 DEF FilterType, SelectedInOrder
<1> QED
  BY <1>3, <1>4, <1>5, <1>6, <1>7
  DEF Selecting!Main, Selecting!User, Selecting!ReadInput

\* Every step of the part that runs.
LEMMA FilterStep == FilterInv /\ [MCNext]_mcVars => FilterInv'
<1> SUFFICES ASSUME FilterInv, [MCNext]_mcVars PROVE FilterInv'
  OBVIOUS
<1> USE DEF Copies, Checks, Selects
<1>1. CASE UNCHANGED mcVars \/ Copies(Next)
  BY <1>1
  DEF mcVars, filterVars, checkVars, selectVars, FilterInv, FilterType,
      CheckedInOrder, SelectedInOrder
<1>2. CASE \/ Checks(Checking!Main) \/ Checks(Checking!User)
           \/ Checks(Checking!Fail)
  BY <1>2, CheckStep
<1>3. CASE \/ Selects(Selecting!Main) \/ Selects(Selecting!User)
           \/ Selects(Selecting!Show) \/ Selects(Selecting!ReadError)
  BY <1>3, SelectStep
<1> QED
  BY <1>1, <1>2, <1>3 DEF MCNext, Filters, Users, Shows, Errors

\* sigint_cat.c and sigint_cat_select.c put out the beginning of what was
\* typed, for any number of bytes, any buffer and a SIGINT at any time,
\* although the first drops what a SIGINT keeps its write from taking.
THEOREM FiltersKeepOrder == MCSpec => []CopiedInOrder
<1>1. FilterInv => CopiedInOrder
  <2> SUFFICES ASSUME FilterInv
               PROVE  shown \o output = First(Len(shown \o output))
    BY DEF CopiedInOrder, First
  <2>1. /\ output \in Seq(Nat) /\ shown \in Seq(Nat) /\ rest \in Seq(Nat)
        /\ taken \in Nat /\ shown \o output \in Seq(Nat)
    BY ConcatLen DEF FilterInv, FilterType
  <2>2. CASE part = "cp"
    <3>1. shown \o output = <<>>
      BY <2>1, <2>2, ConcatNone DEF FilterInv
    <3> QED
      BY <3>1, NoByte
  <2>3. CASE part = "sigint_cat"
    <3>1. shown \o output = output
      BY <2>1, <2>3, ConcatNone DEF FilterInv, CheckedInOrder
    <3> QED
      BY <2>3, <3>1 DEF FilterInv, CheckedInOrder
  <2>4. CASE part = "sigint_cat_select"
    BY <2>1, <2>4, FirstPart DEF FilterInv, SelectedInOrder
  <2> QED
    BY <2>2, <2>3, <2>4 DEF FilterInv, FilterType
<1> QED
  BY <1>1, FilterInit, FilterStep, PTL DEF MCSpec
=============================================================================
