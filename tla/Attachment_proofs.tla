-------------------------- MODULE Attachment_proofs --------------------------
(***************************************************************************)
(* Proofs about attachments, for any number of threads and connections,    *)
(* attachments of any length and blocks of any size: what out.txt holds    *)
(* when the application or a new packet is given it.                       *)
(***************************************************************************)
EXTENDS Attachment, SequenceTheorems, TLAPS

(***************************************************************************)
(* The inductive invariant                                                 *)
(***************************************************************************)

\* The first n bytes of attachment f.
Prefix(f, n) == [k \in 1..n |-> [file |-> f, k |-> k]]

AtFile(w) == writer[w].pc \in {"open", "write"}
Quiet(w) == writer[w].pc # "write"

\* What a thread that is rebuilding knows: its attachment, and that nothing of it
\* is written before the file is open.
WritersKnow ==
  \A w \in Writers :
    /\ writer[w].pc # "none" => writer[w].file \in 1..Len(files)
    /\ writer[w].pc = "open" => writer[w].off = 0

\* While a thread takes an attachment to out.txt, no other thread has it.
Own ==
  \A w \in Writers : AtFile(w) => \A v \in Writers \ {w} :
    /\ writer[v].pc # "none" => writer[v].file # writer[w].file
    /\ \A c \in Peers : last[v][c] # writer[w].file

\* A thread finds in the file what it has written, unless its attachment is lost.
FindsItsOwn ==
  \A w \in Writers : writer[w].pc = "write" /\ writer[w].file \notin lost =>
    out = Prefix(writer[w].file, writer[w].off)

\* The last attachment of a connection is in the file, unless it is lost or still
\* on its way there.
LastIsThere ==
  \A w \in Writers : \A c \in Peers :
    last[w][c] # 0 /\ last[w][c] \notin lost /\ ~(AtFile(w) /\ writer[w].file = last[w][c]) =>
      out = Whole(last[w][c])

\* Unless the file is torn, one thread at most is writing it, and what is there is
\* the beginning of its attachment.
OneWriter ==
  ~torn =>
    /\ \A v, w \in Writers : ~Quiet(v) /\ ~Quiet(w) => v = w
    /\ \A w \in Writers : ~Quiet(w) => out = Prefix(writer[w].file, writer[w].off)

\* A whole file: an attachment, or what was there before.
Settled(bytes) ==
  \/ \E n \in FileLens \cup {0} : bytes = Earlier(n)
  \/ \E f \in 1..Len(files) : bytes = Whole(f)

\* When nobody is writing, a whole file is there.
IsSettled == ~torn /\ (\A w \in Writers : Quiet(w)) => Settled(out)

\* A reader that nobody disturbed has read the beginning of the file.
ReadsOn ==
  reader.pc = "read" /\ ~reader.dirty =>
    /\ ~torn /\ \A w \in Writers : Quiet(w)
    /\ Len(reader.got) <= Len(out)
    /\ \A k \in 1..Len(reader.got) : reader.got[k] = out[k]

IInv ==
  /\ TypeOK
  /\ WritersKnow
  /\ Own
  /\ FindsItsOwn
  /\ LastIsThere
  /\ WholeAtCallback
  /\ OneWriter
  /\ IsSettled
  /\ ReadsOn
  /\ ReadIsWhole

(***************************************************************************)
(* out.txt                                                                 *)
(***************************************************************************)

\* Bytes behind the beginning of an attachment make a longer beginning of it.
LEMMA PutExtends ==
  ASSUME NEW f, NEW off \in Nat, NEW n \in Nat, out = Prefix(f, off)
  PROVE  Put(f, off, n) = Prefix(f, off + n)
<1>1. Len(out) = off /\ DOMAIN out = 1..off
  BY DEF Prefix
<1>2. (IF off + n > Len(out) THEN off + n ELSE Len(out)) = off + n
  BY <1>1
<1>3. ASSUME NEW i \in 1..(off + n)
      PROVE  (IF i \in (off + 1)..(off + n) THEN [file |-> f, k |-> i]
              ELSE IF i <= Len(out) THEN out[i] ELSE Hole) = [file |-> f, k |-> i]
  <2>1. CASE i \in (off + 1)..(off + n)
    BY <2>1
  <2>2. CASE i \notin (off + 1)..(off + n)
    <3>1. i \in 1..off
      BY <2>2
    <3>2. out[i] = [file |-> f, k |-> i]
      BY <3>1 DEF Prefix
    <3> QED  BY <1>1, <2>2, <3>1, <3>2
  <2> QED  BY <2>1, <2>2
<1> QED  BY <1>2, <1>3 DEF Put, Prefix

\* Whatever is written, out.txt consists of bytes of attachments, and holes.
LEMMA PutType ==
  ASSUME out \in Seq(Byte), NEW f \in 0..MaxFiles, NEW off \in Nat, NEW n \in Nat
  PROVE  Put(f, off, n) \in Seq(Byte)
<1> DEFINE size == IF off + n > Len(out) THEN off + n ELSE Len(out)
           byte(i) == IF i \in (off + 1)..(off + n) THEN [file |-> f, k |-> i]
                      ELSE IF i <= Len(out) THEN out[i] ELSE Hole
<1>1. size \in Nat
  OBVIOUS
<1>2. ASSUME NEW i \in 1..size  PROVE byte(i) \in Byte
  <2>1. i \in Nat /\ Hole \in Byte
    BY <1>1, FileAssumption DEF Hole, Byte
  <2>2. i <= Len(out) => out[i] \in Byte
    BY <2>1, <1>2
  <2>3. [file |-> f, k |-> i] \in Byte
    BY <2>1 DEF Byte
  <2> QED  BY <2>1, <2>2, <2>3
<1>3. Put(f, off, n) = [i \in 1..size |-> byte(i)]
  BY DEF Put
<1> HIDE DEF size, byte
<1> QED  BY <1>1, <1>2, <1>3

\* The whole of an attachment is its longest beginning.
LEMMA WholeIsPrefix == \A f : Whole(f) = Prefix(f, files[f])
  BY DEF Whole, Prefix

(***************************************************************************)
(* The steps of a thread                                                   *)
(***************************************************************************)

\* What a step that leaves the file, the attachments and the reader alone has to
\* keep, where no thread begins or goes on to write.
LEMMA ThreadFrame ==
  ASSUME IInv, UNCHANGED <<files, out, torn, reader>>, TypeOK', WritersKnow', Own',
         FindsItsOwn', LastIsThere', WholeAtCallback',
         \A v \in Writers : ~Quiet(v)' => ~Quiet(v) /\ writer'[v] = writer[v],
         torn \/ (\E v \in Writers : ~Quiet(v)') \/ \A v \in Writers : Quiet(v)
  PROVE  IInv'
<1>1. OneWriter'
  BY DEF IInv, OneWriter, Prefix, Quiet
<1>2. IsSettled'
  BY DEF IInv, IsSettled, OneWriter, Settled, Earlier, Whole, Quiet
<1>3. ReadsOn'
  BY DEF IInv, ReadsOn, Quiet
<1>4. ReadIsWhole'
  BY DEF IInv, ReadIsWhole, Earlier, Whole
<1> QED  BY <1>1, <1>2, <1>3, <1>4 DEF IInv

\* Another attachment changes nothing about those that are there.
LEMMA RebuildsKeeps ==
  ASSUME IInv, NEW w \in Writers, NEW c \in Peers, NEW l \in FileLens, Rebuilds(w, c, l)
  PROVE  IInv'
<1> USE DEF IInv
<1> DEFINE f == Len(files) + 1
<1>1. /\ files' = Append(files, l) /\ Len(files') = f /\ f \in Nat
      /\ files' \in Seq(FileLens) /\ Len(files') <= MaxFiles
      /\ \A g \in 1..Len(files) : files'[g] = files[g]
      /\ files'[f] = l
      /\ Len(files) \in Nat /\ 1..Len(files) \subseteq 1..f
  BY FileAssumption DEF TypeOK, Rebuilds
<1>2. /\ writer' = [writer EXCEPT ![w] = [pc |-> "open", file |-> f, off |-> 0]]
      /\ last' = [last EXCEPT ![w][c] = f]
      /\ UNCHANGED <<out, lost, torn, reader>> /\ ~AtFile(w)
  BY DEF Rebuilds, NextPacket, AtFile
<1> HIDE DEF f
<1>3. /\ writer'[w] = [pc |-> "open", file |-> f, off |-> 0]
      /\ \A v \in Writers \ {w} : writer'[v] = writer[v]
      /\ last'[w][c] = f
      /\ \A d \in Peers \ {c} : last'[w][d] = last[w][d]
      /\ \A v \in Writers \ {w} : last'[v] = last[v]
  BY <1>2 DEF TypeOK
<1>4. \A v \in Writers : /\ writer[v].pc # "none" => writer[v].file \in 1..Len(files)
                         /\ \A d \in Peers : last[v][d] \in 0..Len(files)
  BY DEF WritersKnow, TypeOK
<1>5. \A g \in 1..Len(files) : Whole(g)' = Whole(g) /\ g # f
  BY <1>1 DEF Whole, f
<1>6. WritersKnow'
  BY <1>1, <1>3, <1>4 DEF WritersKnow, f
<1>7. TypeOK'
  <2>1. [pc |-> "open", file |-> f, off |-> 0] \in WriterRec
    BY <1>1, FileAssumption DEF WriterRec, TypeOK, f
  <2>2. writer' \in [Writers -> WriterRec]
    BY <1>2, <2>1 DEF TypeOK
  <2>3. \A v \in Writers : writer'[v].pc \in {"open", "write"} =>
           writer'[v].off < files'[writer'[v].file]
    <3>1. 0 < l
      BY FileAssumption
    <3>2. ASSUME NEW v \in Writers \ {w}, writer'[v].pc \in {"open", "write"}
          PROVE  writer'[v].off < files'[writer'[v].file]
      <4>1. writer'[v] = writer[v] /\ writer[v].file \in 1..Len(files)
        BY <1>3, <1>4, <3>2
      <4>2. writer[v].off < files[writer[v].file]
        BY <3>2, <4>1 DEF TypeOK
      <4> QED  BY <1>1, <4>1, <4>2
    <3>3. writer'[w].off < files'[writer'[w].file]
      BY <1>1, <1>3, <3>1
    <3> QED  BY <3>2, <3>3
  <2>4. last' \in [Writers -> [Peers -> 0..Len(files')]]
    <3>1. f \in 0..f /\ 0..Len(files) \subseteq 0..f
      BY <1>1 DEF f
    <3>2. last \in [Writers -> [Peers -> 0..f]]
      BY <3>1 DEF TypeOK
    <3> QED  BY <1>1, <1>2, <3>1, <3>2
  <2>5. lost' \subseteq 1..Len(files')
    BY <1>1, <1>2 DEF TypeOK
  <2> QED  BY <1>1, <1>2, <2>2, <2>3, <2>4, <2>5 DEF TypeOK
<1>8. Own'
  <2> SUFFICES ASSUME NEW u \in Writers, AtFile(u)', NEW v \in Writers \ {u}
               PROVE  /\ writer'[v].pc # "none" => writer'[v].file # writer'[u].file
                      /\ \A d \in Peers : last'[v][d] # writer'[u].file
    BY DEF Own
  <2>1. CASE u = w
    <3>1. writer'[v] = writer[v] /\ last'[v] = last[v] /\ writer'[u].file = f
      BY <1>3, <2>1
    <3>2. \A g \in 0..Len(files) : g # f
      BY <1>1 DEF f
    <3> QED  BY <1>4, <1>5, <3>1, <3>2
  <2>2. CASE u # w
    <3>1. writer'[u] = writer[u] /\ AtFile(u) /\ writer[u].file \in 1..Len(files)
      BY <1>3, <1>4, <2>2 DEF AtFile
    <3>2. CASE v = w
      <4>1. writer'[v].file = f /\ writer[u].file # f
        BY <1>3, <1>5, <3>1, <3>2
      <4>2. \A d \in Peers : last[v][d] # writer[u].file
        BY <3>1 DEF Own
      <4> QED  BY <1>3, <3>1, <3>2, <4>1, <4>2
    <3>3. CASE v # w
      BY <1>3, <3>1, <3>3 DEF Own
    <3> QED  BY <3>2, <3>3
  <2> QED  BY <2>1, <2>2
<1>9. FindsItsOwn'
  BY <1>2, <1>3 DEF FindsItsOwn, Prefix
<1>10. LastIsThere'
  <2> SUFFICES ASSUME NEW v \in Writers, NEW d \in Peers, last'[v][d] # 0, last'[v][d] \notin lost,
                      ~(AtFile(v)' /\ writer'[v].file = last'[v][d])
               PROVE  out = Prefix(last'[v][d], files'[last'[v][d]])
    BY <1>2 DEF LastIsThere, Whole, Prefix
  <2>1. ~(v = w /\ d = c)
    BY <1>3 DEF AtFile
  <2>2. last'[v][d] = last[v][d] /\ last[v][d] \in 1..Len(files)
    BY <1>3, <1>4, <2>1
  <2>3. ~(AtFile(v) /\ writer[v].file = last[v][d])
    BY <1>2, <1>3, <2>2 DEF AtFile
  <2>4. out = Whole(last[v][d])
    BY <2>2, <2>3 DEF LastIsThere
  <2> QED  BY <1>1, <2>2, <2>4, WholeIsPrefix
<1>11. WholeAtCallback'
  <2> SUFFICES ASSUME NEW v \in Writers, writer'[v].pc = "callback", writer'[v].file \notin lost
               PROVE  out = Prefix(writer'[v].file, files'[writer'[v].file])
    BY <1>2 DEF WholeAtCallback, Whole, Prefix
  <2>1. writer'[v] = writer[v] /\ writer[v].file \in 1..Len(files)
    BY <1>3, <1>4
  <2>2. out = Whole(writer[v].file)
    BY <1>2, <2>1 DEF WholeAtCallback
  <2> QED  BY <1>1, <2>1, <2>2, WholeIsPrefix
<1>12. \A v \in Writers : Quiet(v)' <=> Quiet(v)
  BY <1>2, <1>3 DEF Quiet, AtFile
<1>13. OneWriter'
  BY <1>2, <1>3, <1>12 DEF OneWriter, Prefix, Quiet
<1>14. IsSettled'
  BY <1>1, <1>2, <1>5, <1>12 DEF IsSettled, Settled, Earlier
<1>15. ReadsOn'
  BY <1>2, <1>12 DEF ReadsOn
<1>16. ReadIsWhole'
  BY <1>1, <1>2, <1>5 DEF ReadIsWhole, Earlier
<1> QED  BY <1>6, <1>7, <1>8, <1>9, <1>10, <1>11, <1>13, <1>14, <1>15, <1>16

\* A packet without a file takes the place of the attachment that was the last.
LEMMA RebuildsOtherKeeps ==
  ASSUME IInv, NEW w \in Writers, NEW c \in Peers, RebuildsOther(w, c)
  PROVE  IInv'
<1> USE DEF IInv
<1>1. /\ writer' = [writer EXCEPT ![w] = Idle] /\ last' = [last EXCEPT ![w][c] = 0]
      /\ UNCHANGED <<files, out, lost, torn, reader>> /\ ~AtFile(w)
  BY DEF RebuildsOther, NextPacket, AtFile
<1>2. /\ writer'[w].pc = "none" /\ \A v \in Writers \ {w} : writer'[v] = writer[v]
      /\ last'[w][c] = 0
      /\ \A d \in Peers \ {c} : last'[w][d] = last[w][d]
      /\ \A v \in Writers \ {w} : last'[v] = last[v]
  BY <1>1 DEF TypeOK, Idle
<1>3. TypeOK'
  <2>1. Idle \in WriterRec /\ 0 \in 0..Len(files)
    BY FileAssumption DEF Idle, WriterRec, TypeOK
  <2>2. writer' \in [Writers -> WriterRec] /\ last' \in [Writers -> [Peers -> 0..Len(files)]]
    BY <1>1, <2>1 DEF TypeOK
  <2> QED  BY <1>1, <1>2, <2>2 DEF TypeOK
<1>4. WritersKnow'
  BY <1>1, <1>2 DEF WritersKnow
<1>5. Own'
  <2> SUFFICES ASSUME NEW u \in Writers, AtFile(u)', NEW v \in Writers \ {u}
               PROVE  /\ writer'[v].pc # "none" => writer'[v].file # writer'[u].file
                      /\ \A d \in Peers : last'[v][d] # writer'[u].file
    BY DEF Own
  <2>1. writer'[u] = writer[u] /\ AtFile(u)
    BY <1>2 DEF AtFile
  <2>2. writer[u].file # 0
    BY <2>1 DEF WritersKnow, AtFile
  <2>3. /\ writer[v].pc # "none" => writer[v].file # writer[u].file
        /\ \A d \in Peers : last[v][d] # writer[u].file
    BY <2>1 DEF Own
  <2> QED  BY <1>2, <2>1, <2>2, <2>3
<1>6. FindsItsOwn'
  BY <1>1, <1>2 DEF FindsItsOwn, Prefix
<1>7. LastIsThere'
  <2> SUFFICES ASSUME NEW v \in Writers, NEW d \in Peers, last'[v][d] # 0, last'[v][d] \notin lost,
                      ~(AtFile(v)' /\ writer'[v].file = last'[v][d])
               PROVE  out = Whole(last'[v][d])
    BY <1>1 DEF LastIsThere, Whole
  <2>1. last'[v][d] = last[v][d] /\ ~(AtFile(v) /\ writer[v].file = last[v][d])
    BY <1>1, <1>2 DEF AtFile
  <2> QED  BY <2>1 DEF LastIsThere
<1>8. WholeAtCallback'
  BY <1>1, <1>2 DEF WholeAtCallback, Whole
<1>9. \A v \in Writers : /\ Quiet(v)' <=> Quiet(v)
                         /\ ~Quiet(v)' => writer'[v] = writer[v]
  BY <1>1, <1>2 DEF Quiet, AtFile
<1> QED  BY <1>1, <1>3, <1>4, <1>5, <1>6, <1>7, <1>8, <1>9, ThreadFrame

\* The last attachment of a connection is handed over again.
LEMMA RedeliversKeeps ==
  ASSUME IInv, NEW w \in Writers, NEW c \in Peers, Redelivers(w, c)
  PROVE  IInv'
<1> USE DEF IInv
<1>1. /\ writer' = [writer EXCEPT ![w] = [pc |-> "callback", file |-> last[w][c], off |-> 0]]
      /\ UNCHANGED <<files, out, last, lost, torn, reader>> /\ ~AtFile(w)
      /\ last[w][c] # 0
  BY DEF Redelivers, AtFile
<1>2. /\ writer'[w] = [pc |-> "callback", file |-> last[w][c], off |-> 0]
      /\ \A v \in Writers \ {w} : writer'[v] = writer[v]
  BY <1>1 DEF TypeOK
<1>3. last[w][c] \in 1..Len(files) /\ last[w][c] \in 0..MaxFiles
  BY <1>1, FileAssumption DEF TypeOK
<1>4. TypeOK'
  <2>1. writer'[w] \in WriterRec
    BY <1>2, <1>3 DEF WriterRec
  <2>2. writer' \in [Writers -> WriterRec]
    BY <1>1, <1>2, <2>1 DEF TypeOK
  <2> QED  BY <1>1, <1>2, <2>2 DEF TypeOK
<1>5. WritersKnow'
  BY <1>1, <1>2, <1>3 DEF WritersKnow
<1>6. Own'
  <2> SUFFICES ASSUME NEW u \in Writers, AtFile(u)', NEW v \in Writers \ {u}
               PROVE  /\ writer'[v].pc # "none" => writer'[v].file # writer'[u].file
                      /\ \A d \in Peers : last[v][d] # writer'[u].file
    BY <1>1 DEF Own
  <2>1. u # w /\ writer'[u] = writer[u] /\ AtFile(u)
    BY <1>2 DEF AtFile
  <2>2. /\ writer[v].pc # "none" => writer[v].file # writer[u].file
        /\ \A d \in Peers : last[v][d] # writer[u].file
    BY <2>1 DEF Own
  <2> QED  BY <1>2, <2>1, <2>2
<1>7. FindsItsOwn'
  BY <1>1, <1>2 DEF FindsItsOwn, Prefix
<1>8. LastIsThere'
  <2> SUFFICES ASSUME NEW v \in Writers, NEW d \in Peers, last[v][d] # 0, last[v][d] \notin lost,
                      ~(AtFile(v)' /\ writer'[v].file = last[v][d])
               PROVE  out = Whole(last[v][d])
    BY <1>1 DEF LastIsThere, Whole
  <2>1. ~(AtFile(v) /\ writer[v].file = last[v][d])
    BY <1>1, <1>2 DEF AtFile
  <2> QED  BY <2>1 DEF LastIsThere
<1>9. WholeAtCallback'
  <2>1. last[w][c] \notin lost => out = Whole(last[w][c])
    BY <1>1 DEF LastIsThere
  <2> QED  BY <1>1, <1>2, <2>1 DEF WholeAtCallback, Whole
<1>10. \A v \in Writers : /\ Quiet(v)' <=> Quiet(v)
                          /\ ~Quiet(v)' => writer'[v] = writer[v]
  BY <1>1, <1>2 DEF Quiet, AtFile
<1> QED  BY <1>1, <1>4, <1>5, <1>6, <1>7, <1>8, <1>9, <1>10, ThreadFrame

\* A thread that ends its turn, or gives up its attachment, goes on to nothing that
\* another one could be disturbed by.
LEMMA GoesTo ==
  ASSUME IInv, NEW w \in Writers, NEW pc \in {"none", "write", "callback"},
         AtFile(w) \/ pc = "none",
         writer'[w] \in WriterRec, writer'[w].pc = pc,
         pc # "none" => writer'[w].file = writer[w].file,
         \A v \in Writers \ {w} : writer'[v] = writer[v],
         UNCHANGED <<files, last>>
  PROVE  WritersKnow' /\ Own'
<1>1. WritersKnow'
  BY DEF IInv, WritersKnow, AtFile
<1>2. \A u \in Writers : AtFile(u)' => AtFile(u) /\ writer'[u].file = writer[u].file
  BY DEF AtFile
<1>3. \A v \in Writers : writer'[v].pc # "none" =>
        writer[v].pc # "none" /\ writer'[v].file = writer[v].file
  BY DEF AtFile
<1>4. Own'
  BY <1>2, <1>3 DEF IInv, Own
<1> QED  BY <1>1, <1>4

\* The file cannot be opened: the attachment is lost.
LEMMA OpenFailsKeeps ==
  ASSUME IInv, NEW w \in Writers, OpenFails(w)
  PROVE  IInv'
<1> USE DEF IInv
<1>1. /\ writer[w].pc = "open" /\ writer' = [writer EXCEPT ![w].pc = "callback"]
      /\ lost' = lost \cup {writer[w].file}
      /\ UNCHANGED <<files, out, last, torn, reader>>
  BY DEF OpenFails
<1>2. writer[w] \in WriterRec /\ writer' \in [Writers -> WriterRec]
  BY <1>1 DEF TypeOK, WriterRec
<1>3. /\ writer'[w].pc = "callback" /\ writer'[w].file = writer[w].file
      /\ writer'[w] \in WriterRec
      /\ \A v \in Writers \ {w} : writer'[v] = writer[v]
  BY <1>1, <1>2 DEF TypeOK, WriterRec
<1>4. TypeOK'
  BY <1>1, <1>2, <1>3 DEF TypeOK, WritersKnow
<1>5. WritersKnow' /\ Own'
  BY <1>1, <1>3, GoesTo DEF AtFile
<1>6. FindsItsOwn'
  BY <1>1, <1>3 DEF FindsItsOwn, Prefix
<1>7. LastIsThere'
  <2> SUFFICES ASSUME NEW v \in Writers, NEW d \in Peers, last[v][d] # 0, last[v][d] \notin lost',
                      ~(AtFile(v)' /\ writer'[v].file = last[v][d])
               PROVE  out = Whole(last[v][d])
    BY <1>1 DEF LastIsThere, Whole
  <2>1. ~(AtFile(v) /\ writer[v].file = last[v][d])
    BY <1>1, <1>3 DEF AtFile
  <2> QED  BY <1>1, <2>1 DEF LastIsThere
<1>8. WholeAtCallback'
  BY <1>1, <1>3 DEF WholeAtCallback, Whole
<1>9. \A v \in Writers : /\ Quiet(v)' <=> Quiet(v)
                         /\ ~Quiet(v)' => writer'[v] = writer[v]
  BY <1>1, <1>3 DEF Quiet
<1> QED  BY <1>1, <1>4, <1>5, <1>6, <1>7, <1>8, <1>9, ThreadFrame

\* A write fails: the attachment is lost, and the file torn.
LEMMA WriteFailsKeeps ==
  ASSUME IInv, NEW w \in Writers, WriteFails(w)
  PROVE  IInv'
<1> USE DEF IInv
<1>1. /\ writer[w].pc = "write" /\ writer' = [writer EXCEPT ![w].pc = "callback"]
      /\ lost' = lost \cup {writer[w].file} /\ torn' = TRUE
      /\ reader' = [reader EXCEPT !.dirty = reader.dirty \/ reader.pc = "read"]
      /\ UNCHANGED <<files, out, last>>
  BY DEF WriteFails
<1>2. writer[w] \in WriterRec /\ writer' \in [Writers -> WriterRec]
  BY <1>1 DEF TypeOK, WriterRec
<1>3. /\ writer'[w].pc = "callback" /\ writer'[w].file = writer[w].file
      /\ writer'[w] \in WriterRec
      /\ \A v \in Writers \ {w} : writer'[v] = writer[v]
  BY <1>1, <1>2 DEF TypeOK, WriterRec
<1>4. reader' \in ReaderRec /\ reader'.pc = reader.pc /\ reader'.got = reader.got
  BY <1>1 DEF TypeOK, ReaderRec
<1>5. /\ reader.pc = "read" => reader'.dirty
      /\ reader.pc # "read" => reader'.dirty = reader.dirty
  BY <1>1 DEF TypeOK, ReaderRec
<1>6. TypeOK'
  BY <1>1, <1>2, <1>3, <1>4 DEF TypeOK, WritersKnow
<1>7. WritersKnow' /\ Own'
  BY <1>1, <1>3, GoesTo DEF AtFile
<1>8. FindsItsOwn'
  BY <1>1, <1>3 DEF FindsItsOwn, Prefix
<1>9. LastIsThere'
  <2> SUFFICES ASSUME NEW v \in Writers, NEW d \in Peers, last[v][d] # 0, last[v][d] \notin lost',
                      ~(AtFile(v)' /\ writer'[v].file = last[v][d])
               PROVE  out = Whole(last[v][d])
    BY <1>1 DEF LastIsThere, Whole
  <2>1. ~(AtFile(v) /\ writer[v].file = last[v][d])
    BY <1>1, <1>3 DEF AtFile
  <2> QED  BY <1>1, <2>1 DEF LastIsThere
<1>10. WholeAtCallback'
  BY <1>1, <1>3 DEF WholeAtCallback, Whole
<1>11. OneWriter' /\ IsSettled'
  BY <1>1 DEF OneWriter, IsSettled
<1>12. ReadsOn'
  BY <1>4, <1>5 DEF ReadsOn
<1>13. ReadIsWhole'
  BY <1>1, <1>4, <1>5 DEF ReadIsWhole, Earlier, Whole
<1> QED  BY <1>6, <1>7, <1>8, <1>9, <1>10, <1>11, <1>12, <1>13

\* A thread whose callback returns has done with its attachment.
LEMMA CallbackKeeps ==
  ASSUME IInv, NEW w \in Writers, CallbackReturns(w)
  PROVE  IInv'
<1> USE DEF IInv
<1>1. /\ writer[w].pc = "callback" /\ writer' = [writer EXCEPT ![w] = Idle]
      /\ UNCHANGED <<files, out, last, lost, torn, reader>>
  BY DEF CallbackReturns
<1>2. /\ writer'[w] = Idle /\ writer'[w].pc = "none" /\ Idle \in WriterRec
      /\ \A v \in Writers \ {w} : writer'[v] = writer[v]
  BY <1>1, FileAssumption DEF TypeOK, Idle, WriterRec
<1>3. TypeOK'
  BY <1>1, <1>2 DEF TypeOK
<1>4. WritersKnow' /\ Own'
  BY <1>1, <1>2, GoesTo
<1>5. FindsItsOwn'
  BY <1>1, <1>2 DEF FindsItsOwn, Prefix
<1>6. LastIsThere'
  BY <1>1, <1>2 DEF LastIsThere, AtFile, Whole
<1>7. WholeAtCallback'
  BY <1>1, <1>2 DEF WholeAtCallback, Whole
<1>8. \A v \in Writers : /\ Quiet(v)' <=> Quiet(v)
                         /\ ~Quiet(v)' => writer'[v] = writer[v]
  BY <1>1, <1>2 DEF Quiet
<1> QED  BY <1>1, <1>3, <1>4, <1>5, <1>6, <1>7, <1>8, ThreadFrame

\* Where a thread has changed the file, only its own attachment may be there, and
\* that only if it is not lost.
LEMMA OthersLost ==
  ASSUME IInv, NEW w \in Writers, AtFile(w),
         NEW pc \in {"write", "callback"},
         writer'[w].pc = pc, writer'[w].file = writer[w].file, files' = files,
         last' = last, \A v \in Writers \ {w} : writer'[v] = writer[v],
         \A f \in 1..Len(files) : f \notin lost' => f = writer[w].file,
         writer[w].file \notin lost' =>
           IF pc = "write" THEN out' = Prefix(writer[w].file, writer'[w].off)
                           ELSE out' = Whole(writer[w].file)
  PROVE  FindsItsOwn' /\ LastIsThere' /\ WholeAtCallback'
<1>1. \A v \in Writers \ {w} :
        /\ writer[v].pc # "none" => writer[v].file \in 1..Len(files) /\ writer[v].file # writer[w].file
        /\ \A d \in Peers : last[v][d] # writer[w].file
  BY DEF IInv, Own, WritersKnow
<1>2. \A v \in Writers : \A d \in Peers : last[v][d] # 0 => last[v][d] \in 1..Len(files)
  BY DEF IInv, TypeOK
<1>3. FindsItsOwn'
  <2> SUFFICES ASSUME NEW v \in Writers, writer'[v].pc = "write", writer'[v].file \notin lost'
               PROVE  out' = Prefix(writer'[v].file, writer'[v].off)
    BY DEF FindsItsOwn, Prefix
  <2>1. v = w
    BY <1>1
  <2> QED  BY <2>1
<1>4. LastIsThere'
  <2> SUFFICES ASSUME NEW v \in Writers, NEW d \in Peers, last[v][d] # 0, last[v][d] \notin lost',
                      ~(AtFile(v)' /\ writer'[v].file = last[v][d])
               PROVE  out' = Whole(last[v][d])
    BY DEF LastIsThere, Whole
  <2>1. v = w /\ last[v][d] = writer[w].file
    BY <1>1, <1>2
  <2>2. pc # "write"
    BY <2>1 DEF AtFile
  <2> QED  BY <2>1, <2>2
<1>5. WholeAtCallback'
  <2> SUFFICES ASSUME NEW v \in Writers, writer'[v].pc = "callback", writer'[v].file \notin lost'
               PROVE  out' = Whole(writer'[v].file)
    BY DEF WholeAtCallback, Whole
  <2>1. v = w
    BY <1>1
  <2> QED  BY <2>1
<1> QED  BY <1>3, <1>4, <1>5

\* A thread that opens the file takes it from those that are at it, and from the
\* reader.
LEMMA OpenOutKeeps ==
  ASSUME IInv, NEW w \in Writers, OpenOut(w)
  PROVE  IInv'
<1> USE DEF IInv
<1>1. /\ writer[w].pc = "open" /\ out' = <<>>
      /\ writer' = [writer EXCEPT ![w].pc = "write"]
      /\ lost' = (1..Len(files)) \ {writer[w].file}
      /\ torn' <=> (\E v \in Writers \ {w} : writer[v].pc = "write")
      /\ reader' = [reader EXCEPT !.dirty = reader.dirty \/ reader.pc = "read"]
      /\ files' = files /\ last' = last
  BY DEF OpenOut, Opened
<1>2. /\ writer'[w].pc = "write" /\ writer'[w].file = writer[w].file
      /\ writer'[w].off = writer[w].off /\ writer'[w] \in WriterRec
      /\ \A v \in Writers \ {w} : writer'[v] = writer[v]
  BY <1>1 DEF TypeOK, WriterRec
<1>3. reader' \in ReaderRec /\ reader'.pc = reader.pc /\ reader'.got = reader.got
  BY <1>1 DEF TypeOK, ReaderRec
<1>4. /\ reader.pc = "read" => reader'.dirty
      /\ reader.pc # "read" => reader'.dirty = reader.dirty
  BY <1>1 DEF TypeOK, ReaderRec
<1>5. TypeOK'
  <2>1. torn' \in BOOLEAN
    BY DEF OpenOut
  <2>2. writer' \in [Writers -> WriterRec]
    BY <1>1, <1>2 DEF TypeOK
  <2>3. out' \in Seq(Byte) /\ lost' \subseteq 1..Len(files)
    BY <1>1
  <2> QED  BY <1>1, <1>2, <1>3, <2>1, <2>2, <2>3 DEF TypeOK
<1>6. WritersKnow' /\ Own'
  BY <1>1, <1>2, GoesTo DEF AtFile
<1>7. out' = Prefix(writer[w].file, writer'[w].off)
  BY <1>1, <1>2 DEF WritersKnow, Prefix
<1>8. FindsItsOwn' /\ LastIsThere' /\ WholeAtCallback'
  <2>1. \A f \in 1..Len(files) : f \notin lost' => f = writer[w].file
    BY <1>1
  <2> QED  BY <1>1, <1>2, <1>7, <2>1, OthersLost DEF AtFile
<1>9. OneWriter'
  <2> SUFFICES ASSUME ~torn'
               PROVE  \A v \in Writers : writer'[v].pc = "write" => v = w
    BY <1>2, <1>7 DEF OneWriter, Prefix, Quiet
  <2> QED  BY <1>1, <1>2
<1>10. IsSettled'
  BY <1>2 DEF IsSettled, Quiet
<1>11. ReadsOn'
  BY <1>3, <1>4 DEF ReadsOn
<1>12. ReadIsWhole'
  BY <1>1, <1>3, <1>4 DEF ReadIsWhole, Earlier, Whole
<1> QED  BY <1>5, <1>6, <1>8, <1>9, <1>10, <1>11, <1>12

\* A thread that writes takes the file from the others too; behind the last byte of
\* its attachment the file holds the whole of it, if nobody has taken it meanwhile.
LEMMA WriteOutKeeps ==
  ASSUME IInv, NEW w \in Writers, NEW l \in FileLens, NEW n \in 1..l, WriteOut(w, n)
  PROVE  IInv'
<1> USE DEF IInv
<1> DEFINE f == writer[w].file
           off == writer[w].off
           pc == IF off + n = files[f] THEN "callback" ELSE "write"
<1>1. /\ writer[w].pc = "write" /\ off + n <= files[f]
      /\ out' = Put(f, off, n)
      /\ writer' = [writer EXCEPT ![w].off = off + n, ![w].pc = pc]
      /\ lost' = lost \cup ((1..Len(files)) \ {f})
      /\ files' = files /\ torn' = torn /\ last' = last
  BY DEF WriteOut, AllOut
<1>2. reader' = [reader EXCEPT !.dirty = reader.dirty \/ reader.pc = "read"]
  BY DEF WriteOut
<1>3. /\ l \in Nat /\ n \in Nat /\ off \in Nat
      /\ f \in 0..MaxFiles /\ f \in 1..Len(files) /\ files[f] \in Nat
  <2>1. l \in Nat /\ n \in Nat
    BY FileAssumption
  <2>2. off \in Nat /\ f \in 0..MaxFiles
    BY DEF TypeOK, WriterRec
  <2>3. f \in 1..Len(files)
    BY <1>1 DEF WritersKnow
  <2>4. files[f] \in FileLens
    BY <2>3 DEF TypeOK
  <2> QED  BY <2>1, <2>2, <2>3, <2>4, FileAssumption
<1>4. \A v \in Writers \ {w} : writer'[v] = writer[v]
  BY <1>1 DEF TypeOK
<1>5. /\ writer'[w].pc = pc /\ writer'[w].file = f /\ writer'[w].off = off + n
      /\ writer'[w] \in WriterRec
  <2>1. pc \in {"callback", "write"}
    OBVIOUS
  <2> HIDE DEF pc, f, off
  <2>2. off + n \in Nat
    BY <1>3
  <2>3. writer[w] \in WriterRec /\ writer[w].file = f
    BY DEF TypeOK, f
  <2>4. writer'[w] = [writer[w] EXCEPT !.off = off + n, !.pc = pc]
    BY <1>1 DEF TypeOK
  <2> QED  BY <2>1, <2>2, <2>3, <2>4 DEF WriterRec
<1>6. reader' \in ReaderRec /\ reader'.pc = reader.pc /\ reader'.got = reader.got
  BY <1>2 DEF TypeOK, ReaderRec
<1>7. /\ reader.pc = "read" => reader'.dirty
      /\ reader.pc # "read" => reader'.dirty = reader.dirty
  BY <1>2 DEF TypeOK, ReaderRec
<1>8. /\ pc = "write" => off + n < files[f]
      /\ pc # "write" => off + n = files[f] /\ pc = "callback"
      /\ pc \in {"write", "callback"}
  BY <1>1, <1>3
<1>9. AtFile(w) /\ (f \notin lost' => f \notin lost)
  BY <1>1 DEF AtFile
<1>10. f \notin lost => out = Prefix(f, off)
  BY <1>1 DEF FindsItsOwn
<1>11. ~torn => out = Prefix(f, off) /\ \A v \in Writers \ {w} : writer[v].pc # "write"
  BY <1>1 DEF OneWriter, Quiet
<1>12. f = writer[w].file
  OBVIOUS
<1> HIDE DEF f, off, pc
<1>13. TypeOK'
  <2>1. out' \in Seq(Byte)
    BY <1>1, <1>3, PutType DEF TypeOK
  <2>2. writer' \in [Writers -> WriterRec]
    BY <1>1, <1>4, <1>5 DEF TypeOK
  <2>3. \A v \in Writers : writer'[v].pc \in {"open", "write"} =>
           writer'[v].off < files'[writer'[v].file]
    <3>1. writer'[w].pc = "write" => writer'[w].off < files'[writer'[w].file]
      BY <1>1, <1>5, <1>8
    <3>2. writer'[w].pc # "open"
      BY <1>5, <1>8
    <3> QED  BY <1>1, <1>4, <3>1, <3>2 DEF TypeOK
  <2> QED  BY <1>1, <1>6, <2>1, <2>2, <2>3 DEF TypeOK
<1>14. WritersKnow' /\ Own'
  BY <1>1, <1>4, <1>5, <1>8, <1>9, <1>12, GoesTo
<1>15. out = Prefix(f, off) => out' = Prefix(f, off + n)
  BY <1>1, <1>3, PutExtends
<1>16. FindsItsOwn' /\ LastIsThere' /\ WholeAtCallback'
  <2>1. \A g \in 1..Len(files) : g \notin lost' => g = writer[w].file
    BY <1>1, <1>12
  <2>2. f \notin lost' => out' = Prefix(f, off + n)
    BY <1>9, <1>10, <1>15
  <2>3. pc # "write" => Prefix(f, off + n) = Whole(f)
    BY <1>8, WholeIsPrefix
  <2>4. writer[w].file \notin lost' =>
           IF pc = "write" THEN out' = Prefix(writer[w].file, writer'[w].off)
                           ELSE out' = Whole(writer[w].file)
    BY <1>5, <1>12, <2>2, <2>3
  <2> QED  BY <1>1, <1>4, <1>5, <1>8, <1>9, <1>12, <2>1, <2>4, OthersLost
<1>17. ~torn => out' = Prefix(f, off + n) /\ \A v \in Writers \ {w} : writer'[v].pc # "write"
  BY <1>4, <1>11, <1>15
<1>18. OneWriter'
  <2> SUFFICES ASSUME ~torn'
               PROVE  /\ \A v \in Writers : writer'[v].pc = "write" => v = w
                      /\ out' = Prefix(writer'[w].file, writer'[w].off)
    BY DEF OneWriter, Prefix, Quiet
  <2> QED  BY <1>1, <1>5, <1>17
<1>19. IsSettled'
  <2> SUFFICES ASSUME ~torn', writer'[w].pc # "write"
               PROVE  \E g \in 1..Len(files') : out' = Prefix(g, files'[g])
    BY DEF IsSettled, Settled, Quiet, Whole, Prefix
  <2>1. off + n = files'[f]
    BY <1>1, <1>5, <1>8
  <2> QED  BY <1>1, <1>3, <1>17, <2>1
<1>20. ReadsOn'
  BY <1>6, <1>7 DEF ReadsOn
<1>21. ReadIsWhole'
  BY <1>1, <1>6, <1>7 DEF ReadIsWhole, Earlier, Whole
<1> QED  BY <1>13, <1>14, <1>16, <1>18, <1>19, <1>20, <1>21

(***************************************************************************)
(* The steps of the reader                                                 *)
(***************************************************************************)

\* What a step of the reader leaves alone.
LEMMA ReaderFrame ==
  ASSUME IInv, UNCHANGED <<files, out, writer, last, lost, torn>>,
         reader' \in ReaderRec, ReadsOn', ReadIsWhole'
  PROVE  IInv'
<1>1. TypeOK'
  BY DEF IInv, TypeOK
<1>2. WritersKnow' /\ Own' /\ FindsItsOwn' /\ LastIsThere' /\ WholeAtCallback'
  BY DEF IInv, WritersKnow, Own, FindsItsOwn, LastIsThere, WholeAtCallback, AtFile, Prefix, Whole
<1>3. OneWriter' /\ IsSettled'
  BY DEF IInv, OneWriter, IsSettled, Settled, Quiet, Prefix, Whole, Earlier
<1> QED  BY <1>1, <1>2, <1>3 DEF IInv

\* process_input_file opens out.txt, undisturbed if nobody writes it.
LEMMA ReadOpensKeeps ==
  ASSUME IInv, ReadOpens
  PROVE  IInv'
<1>1. /\ UNCHANGED <<files, out, writer, last, lost, torn>>
      /\ reader' = [pc |-> "read", got |-> <<>>,
                    dirty |-> torn \/ \E w \in Writers : writer[w].pc = "write"]
  BY DEF ReadOpens
<1>2. /\ reader'.pc = "read" /\ reader'.got = <<>>
      /\ reader'.dirty <=> (torn \/ \E w \in Writers : writer[w].pc = "write")
  BY <1>1
<1>3. reader' \in ReaderRec
  <2>1. torn \in BOOLEAN
    BY DEF IInv, TypeOK
  <2>2. (torn \/ \E w \in Writers : writer[w].pc = "write") \in BOOLEAN
    BY <2>1
  <2> QED  BY <1>1, <2>2 DEF ReaderRec
<1>4. ReadsOn'
  BY <1>1, <1>2 DEF ReadsOn, Quiet, IInv, TypeOK
<1>5. ReadIsWhole'
  BY <1>2 DEF ReadIsWhole
<1> QED  BY <1>1, <1>3, <1>4, <1>5, ReaderFrame

\* A block of a file, from behind the first off bytes of it.
LEMMA BlockRead ==
  ASSUME NEW file \in Seq(Byte), NEW off \in Nat, NEW n \in Nat, off + n <= Len(file)
  PROVE  /\ SubSeq(file, off + 1, off + n) \in Seq(Byte)
         /\ Len(SubSeq(file, off + 1, off + n)) = n
         /\ \A k \in 1..n : SubSeq(file, off + 1, off + n)[k] = file[off + k]
<1>1. \A i \in (off + 1)..(off + n) : i \in 1..Len(file)
  OBVIOUS
<1>2. \A i \in (off + 1)..(off + n) : file[i] \in Byte
  BY <1>1
<1>3. /\ SubSeq(file, off + 1, off + n) \in Seq(Byte)
      /\ Len(SubSeq(file, off + 1, off + n)) =
           IF off + 1 <= off + n THEN (off + n) - (off + 1) + 1 ELSE 0
      /\ \A k \in 1..((off + n) - (off + 1) + 1) :
           SubSeq(file, off + 1, off + n)[k] = file[(off + 1) + k - 1]
  <2>1. off + 1 \in Int /\ off + n \in Int
    OBVIOUS
  <2> QED  BY ONLY <1>2, <2>1, SubSeqProperties
<1>4. (IF off + 1 <= off + n THEN (off + n) - (off + 1) + 1 ELSE 0) = n
  OBVIOUS
<1>5. (off + n) - (off + 1) + 1 = n /\ \A k \in 1..n : (off + 1) + k - 1 = off + k
  OBVIOUS
<1> QED  BY <1>3, <1>4, <1>5

\* A block appended to the beginning of a file that precedes it there.
LEMMA BlockAppended ==
  ASSUME NEW file \in Seq(Byte), NEW got \in Seq(Byte), NEW bytes \in Seq(Byte),
         Len(got) + Len(bytes) <= Len(file),
         \A k \in 1..Len(got) : got[k] = file[k],
         \A k \in 1..Len(bytes) : bytes[k] = file[Len(got) + k]
  PROVE  /\ Len(got \o bytes) = Len(got) + Len(bytes)
         /\ \A k \in 1..Len(got \o bytes) : (got \o bytes)[k] = file[k]
         /\ Len(got) + Len(bytes) = Len(file) => got \o bytes = file
<1>1. /\ got \o bytes \in Seq(Byte)
      /\ Len(got \o bytes) = Len(got) + Len(bytes)
      /\ \A k \in 1..(Len(got) + Len(bytes)) :
           (got \o bytes)[k] = IF k <= Len(got) THEN got[k] ELSE bytes[k - Len(got)]
  BY ConcatProperties
<1>2. ASSUME NEW k \in 1..(Len(got) + Len(bytes))  PROVE (got \o bytes)[k] = file[k]
  <2>1. CASE k <= Len(got)
    <3>1. k \in 1..Len(got)
      BY <2>1
    <3> QED  BY <1>1, <2>1, <3>1
  <2>2. CASE ~(k <= Len(got))
    <3>1. k - Len(got) \in 1..Len(bytes) /\ Len(got) + (k - Len(got)) = k
      BY <2>2
    <3>2. bytes[k - Len(got)] = file[Len(got) + (k - Len(got))]
      BY <3>1
    <3> QED  BY <1>1, <2>2, <3>1, <3>2
  <2> QED  BY <2>1, <2>2
<1>3. Len(got) + Len(bytes) = Len(file) => got \o bytes = file
  BY <1>1, <1>2, SeqEqual
<1> QED  BY <1>1, <1>2, <1>3

\* A block that comes out short is the last: then the reader has got the file.
LEMMA ReadBlockKeeps ==
  ASSUME IInv, ReadBlock
  PROVE  IInv'
<1> DEFINE off == Len(reader.got)
           n == IF Len(out) - off < Block THEN Len(out) - off ELSE Block
           bytes == IF off < Len(out) THEN SubSeq(out, off + 1, off + n) ELSE <<>>
<1>1. /\ UNCHANGED <<files, out, writer, last, lost, torn>> /\ reader.pc = "read"
      /\ reader' = [reader EXCEPT !.got = reader.got \o bytes,
                                  !.pc = IF Len(bytes) < Block THEN "done" ELSE "read"]
  BY DEF ReadBlock, Taken
<1>2. /\ out \in Seq(Byte) /\ reader.got \in Seq(Byte) /\ reader \in ReaderRec
      /\ Len(out) \in Nat /\ off \in Nat /\ Block \in Nat \ {0}
  BY FileAssumption DEF IInv, TypeOK, ReaderRec
<1>3. /\ bytes \in Seq(Byte)
      /\ off < Len(out) => Len(bytes) = n
      /\ ~(off < Len(out)) => Len(bytes) = 0
      /\ \A k \in 1..Len(bytes) : bytes[k] = out[off + k]
  <2>1. CASE off < Len(out)
    <3>1. n \in Nat /\ off + n <= Len(out)
      <4> HIDE DEF off
      <4> QED  BY <1>2, <2>1
    <3> HIDE DEF n
    <3> QED  BY <1>2, <2>1, <3>1, BlockRead
  <2>2. CASE ~(off < Len(out))
    BY <2>2
  <2> QED  BY <2>1, <2>2
<1>4. /\ reader'.got = reader.got \o bytes /\ reader'.dirty = reader.dirty
      /\ reader'.pc = IF Len(bytes) < Block THEN "done" ELSE "read"
  BY <1>1, <1>2 DEF ReaderRec
<1>5. reader' \in ReaderRec
  <2>1. reader.got \o bytes \in Seq(Byte)
    BY <1>2, <1>3, ConcatProperties
  <2>2. (IF Len(bytes) < Block THEN "done" ELSE "read") \in {"none", "read", "done"}
    OBVIOUS
  <2> HIDE DEF bytes
  <2> QED  BY <1>1, <1>2, <2>1, <2>2 DEF ReaderRec
<1>6. ASSUME ~reader.dirty
      PROVE  /\ Len(reader'.got) <= Len(out)
             /\ \A k \in 1..Len(reader'.got) : reader'.got[k] = out[k]
             /\ Len(bytes) < Block => reader'.got = out
  <2>1. off <= Len(out) /\ \A k \in 1..off : reader.got[k] = out[k]
    BY <1>1, <1>6 DEF IInv, ReadsOn
  <2>2. off + Len(bytes) <= Len(out) /\ (Len(bytes) < Block => off + Len(bytes) = Len(out))
    <3> HIDE DEF bytes, off
    <3> QED  BY <1>2, <1>3, <2>1
  <2> HIDE DEF bytes
  <2>3. /\ Len(reader.got \o bytes) = off + Len(bytes)
        /\ \A k \in 1..Len(reader.got \o bytes) : (reader.got \o bytes)[k] = out[k]
        /\ off + Len(bytes) = Len(out) => reader.got \o bytes = out
    BY <1>2, <1>3, <2>1, <2>2, BlockAppended
  <2> QED  BY <1>4, <2>2, <2>3
<1>7. reader.dirty \/ (~torn /\ \A w \in Writers : writer[w].pc # "write")
  BY <1>1 DEF IInv, ReadsOn, Quiet
<1> HIDE DEF bytes
<1>8. ReadsOn'
  <2> SUFFICES ASSUME reader'.pc = "read", ~reader'.dirty
               PROVE  /\ ~torn' /\ \A w \in Writers : writer'[w].pc # "write"
                      /\ Len(reader'.got) <= Len(out')
                      /\ \A k \in 1..Len(reader'.got) : reader'.got[k] = out'[k]
    BY DEF ReadsOn, Quiet
  <2> QED  BY <1>1, <1>4, <1>6, <1>7
<1>9. ReadIsWhole'
  <2> SUFFICES ASSUME reader'.pc = "done", ~reader'.dirty
               PROVE  Settled(reader'.got)
    BY <1>1 DEF ReadIsWhole, Settled, Whole, Earlier
  <2>1. reader'.got = out
    BY <1>4, <1>6
  <2>2. Settled(out)
    BY <1>4, <1>7 DEF IInv, IsSettled, Quiet
  <2> QED  BY <2>1, <2>2
<1> QED  BY <1>1, <1>5, <1>8, <1>9, ReaderFrame

\* It has done with what it read (the packet is made).
LEMMA ReadEndsKeeps ==
  ASSUME IInv, ReadEnds
  PROVE  IInv'
<1>1. /\ UNCHANGED <<files, out, writer, last, lost, torn>>
      /\ reader' = [pc |-> "none", got |-> <<>>, dirty |-> FALSE]
  BY DEF ReadEnds
<1>2. reader' \in ReaderRec /\ ReadsOn' /\ ReadIsWhole'
  BY <1>1 DEF ReaderRec, ReadsOn, ReadIsWhole
<1> QED  BY <1>1, <1>2, ReaderFrame

(***************************************************************************)
(* The theorems                                                            *)
(***************************************************************************)

\* There is no attachment at first, and nobody is at the file.
LEMMA Start == Init => IInv
<1> SUFFICES ASSUME Init  PROVE IInv
  OBVIOUS
<1>1. PICK n \in FileLens \cup {0} : out = Earlier(n)
  BY DEF Init
<1>2. TypeOK
  <2>1. Idle \in WriterRec /\ [pc |-> "none", got |-> <<>>, dirty |-> FALSE] \in ReaderRec
    BY FileAssumption DEF Idle, WriterRec, ReaderRec
  <2>2. n \in Nat /\ out \in Seq(Byte)
    <3>1. n \in Nat
      BY FileAssumption
    <3>2. \A k \in 1..n : [file |-> 0, k |-> k] \in Byte
      BY <3>1, FileAssumption DEF Byte
    <3> QED  BY <1>1, <3>1, <3>2 DEF Earlier
  <2>3. /\ writer \in [Writers -> WriterRec] /\ reader \in ReaderRec
        /\ \A w \in Writers : writer[w].pc = "none"
    BY <2>1 DEF Init, Idle
  <2>4. files = <<>> /\ Len(files) = 0 /\ files \in Seq(FileLens) /\ Len(files) <= MaxFiles
    BY FileAssumption DEF Init
  <2>5. last \in [Writers -> [Peers -> 0..Len(files)]]
    BY <2>4 DEF Init
  <2>6. lost \subseteq 1..Len(files) /\ torn \in BOOLEAN
    BY DEF Init
  <2> QED  BY <2>2, <2>3, <2>4, <2>5, <2>6 DEF TypeOK
<1>3. \A w \in Writers : writer[w].pc = "none" /\ \A c \in Peers : last[w][c] = 0
  BY DEF Init, Idle
<1>4. WritersKnow /\ Own /\ FindsItsOwn /\ LastIsThere /\ WholeAtCallback
  BY <1>3 DEF WritersKnow, Own, FindsItsOwn, LastIsThere, WholeAtCallback, AtFile
<1>5. OneWriter /\ IsSettled
  BY <1>1, <1>3 DEF OneWriter, IsSettled, Settled, Quiet
<1>6. ReadsOn /\ ReadIsWhole
  BY DEF Init, ReadsOn, ReadIsWhole
<1> QED  BY <1>2, <1>4, <1>5, <1>6 DEF IInv

\* Every step at the file keeps the invariant.
LEMMA Step == IInv /\ [Next]_vars => IInv'
<1> SUFFICES ASSUME IInv, [Next]_vars  PROVE IInv'
  OBVIOUS
<1>1. ASSUME NEW w \in Writers, PollThread(w)  PROVE IInv'
  <2>1. ASSUME NEW c \in Peers,
               (\E l \in FileLens : Rebuilds(w, c, l)) \/ RebuildsOther(w, c) \/ Redelivers(w, c)
        PROVE  IInv'
    BY <2>1, RebuildsKeeps, RebuildsOtherKeeps, RedeliversKeeps
  <2>2. ASSUME NEW l \in FileLens, NEW n \in 1..l, WriteOut(w, n)  PROVE IInv'
    BY <2>2, WriteOutKeeps
  <2>3. CASE OpenOut(w) \/ OpenFails(w) \/ WriteFails(w) \/ CallbackReturns(w)
    BY <2>3, OpenOutKeeps, OpenFailsKeeps, WriteFailsKeeps, CallbackKeeps
  <2> QED  BY <1>1, <2>1, <2>2, <2>3 DEF PollThread
<1>2. CASE MainThread
  BY <1>2, ReadOpensKeeps, ReadBlockKeeps, ReadEndsKeeps DEF MainThread
<1>3. CASE UNCHANGED vars
  <2>1. UNCHANGED <<files, out, writer, last, lost, torn, reader>>
    BY <1>3 DEF vars
  <2>2. reader' \in ReaderRec /\ ReadsOn' /\ ReadIsWhole'
    BY <2>1 DEF IInv, TypeOK, ReadsOn, ReadIsWhole, Quiet, Whole, Earlier
  <2> QED  BY <2>1, <2>2, ReaderFrame
<1> QED  BY <1>1, <1>2, <1>3 DEF Next

\* The invariant holds in every state that is reached: what each thread, each
\* connection and the reader may rely on about out.txt.
THEOREM Inductive == Spec => []IInv
  BY Start, Step, PTL DEF Spec

\* The type invariant: in particular, a thread never has more of an attachment
\* written than there is of it.
THEOREM TypeCorrect == Spec => []TypeOK
<1>1. IInv => TypeOK
  BY DEF IInv
<1> QED  BY <1>1, Inductive, PTL

\* The callback finds its attachment in out.txt, and nothing else, for the first
\* time and whenever recv_pkt returns the packet again, unless the attachment could
\* not be written, or another one was written over it (output_to_file, recv_pkt).
THEOREM CallbackSeesItsFile == Spec => []WholeAtCallback
<1>1. IInv => WholeAtCallback
  BY DEF IInv
<1> QED  BY <1>1, Inductive, PTL

\* A packet made from out.txt carries one whole attachment, or what was there before
\* the first, block by block, whatever the size of the blocks, unless the file was
\* written meanwhile, or in part, or by two threads at once (process_input_file).
THEOREM PacketCarriesWhole == Spec => []ReadIsWhole
<1>1. IInv => ReadIsWhole
  BY DEF IInv
<1> QED  BY <1>1, Inductive, PTL
=============================================================================
