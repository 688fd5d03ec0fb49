--------------------------- MODULE ArchiveStoreProofs ---------------------------
(***************************************************************************)
(* Whatever number of goroutines read a key and however long its archive,  *)
(* and wherever a Save fails or the process crashes: with one Save of the  *)
(* key at a time the file of that name is whole, and every Restore reads   *)
(* it to its end.                                                          *)
(***************************************************************************)
EXTENDS ArchiveStore, SequenceTheorems, TLAPS

\* What a Save has written is the beginning of an archive, in the temporary
\* file, which nobody else writes.
SaverOK(s) ==
  /\ saver[s].pc = "writing" =>
       /\ saver[s].file = tmp
       /\ saver[s].len \in 1..MaxChunks /\ saver[s].written <= saver[s].len
       /\ content[tmp] = Begun(s, saver[s].len, saver[s].written)
  /\ saver[s].pc = "closed" => tmp # NoFile /\ content[tmp] \in Archives

\* A Restore is in the middle of a whole archive that no Save can write.
ReaderOK(r) ==
  /\ reader[r].pc = "reading" =>
       /\ reader[r].file \in Files \ {tmp}
       /\ content[reader[r].file] \in Archives
       /\ \/ reader[r].last = Hole
          \/ \E i \in DOMAIN content[reader[r].file] :
               /\ reader[r].last = content[reader[r].file][i]
               /\ i # reader[r].last.of
  /\ reader[r].pc # "corrupt"

ArchiveInv ==
  /\ ArchiveTypeOK
  /\ OneSave
  /\ DestIsWhole
  /\ dest # NoFile => dest # tmp
  /\ \A s \in Savers : SaverOK(s)
  /\ \A r \in Readers : ReaderOK(r)

-------------------------------------------------------------------------------
(* Archives and their chunks.                                              *)

LEMMA ChunkType ==
  ASSUME NEW s \in Savers, NEW n \in 1..MaxChunks, NEW i \in 1..n
  PROVE  Chunk(s, n, i) \in Chunks /\ Chunk(s, n, i) # Hole
  BY MaxChunksAssumption, NoFileAssumption DEF Chunk, Chunks, Hole

LEMMA LengthOf ==
  ASSUME NEW c, NEW k \in Nat, c \in Seq(Chunks \cup {Hole}), DOMAIN c = 1..k
  PROVE  Len(c) = k
<1>1. DOMAIN c = 1..Len(c) /\ Len(c) \in Nat
  BY LenProperties
<1> QED
  BY <1>1

\* Writing chunk k + 1 after the first k gives the first k + 1.
LEMMA WriteExtends ==
  ASSUME NEW s \in Savers, NEW n \in 1..MaxChunks, NEW k \in Nat, k < n,
         NEW c, c = Begun(s, n, k), c \in Seq(Chunks \cup {Hole})
  PROVE  /\ WriteAt(c, k + 1, Chunk(s, n, k + 1))
              = Begun(s, n, k + 1)
         /\ WriteAt(c, k + 1, Chunk(s, n, k + 1)) \in Seq(Chunks \cup {Hole})
<1> USE DEF Begun
<1>1. Len(c) = k
  <2>1. DOMAIN c = 1..k
    OBVIOUS
  <2> QED
    BY <2>1, LengthOf
<1>2. WriteAt(c, k + 1, Chunk(s, n, k + 1)) = Begun(s, n, k + 1)
  <2>1. WriteAt(c, k + 1, Chunk(s, n, k + 1))
          = [i \in 1..(k + 1) |-> IF i = k + 1 THEN Chunk(s, n, k + 1)
                                  ELSE IF i <= k THEN c[i] ELSE Hole]
    BY <1>1 DEF WriteAt
  <2>2. \A i \in 1..(k + 1) :
          (IF i = k + 1 THEN Chunk(s, n, k + 1) ELSE IF i <= k THEN c[i] ELSE Hole)
            = Chunk(s, n, i)
    OBVIOUS
  <2> QED
    BY <2>1, <2>2
<1>3. \A i \in 1..(k + 1) : Chunk(s, n, i) \in Chunks \cup {Hole}
  BY ChunkType
<1>4. Begun(s, n, k + 1) \in [1..(k + 1) -> Chunks \cup {Hole}]
  BY <1>3
<1> QED
  BY <1>2, <1>4, SeqDef

\* The decoder that took chunk i of an archive takes the next one.
LEMMA ReadGoesOn ==
  ASSUME NEW f, f \in Archives, f \in Seq(Chunks \cup {Hole}),
         NEW last, \/ last = Hole
                   \/ \E i \in DOMAIN f : last = f[i] /\ i # last.of
  PROVE  /\ last.nr + 1 \in DOMAIN f
         /\ last.nr + 1 <= Len(f)
         /\ Follows(f[last.nr + 1], last)
         /\ f[last.nr + 1] \in Chunks
         /\ f[last.nr + 1].nr = last.nr + 1
<1> USE DEF Begun
<1>1. PICK s \in Savers, n \in 1..MaxChunks : f = Begun(s, n, n)
  BY DEF Archives
<1>2. DOMAIN f = 1..n /\ Len(f) = n
  <2>1. DOMAIN f = 1..n /\ n \in Nat
    BY <1>1, MaxChunksAssumption
  <2> QED
    BY <2>1, LengthOf
<1>3. \A i \in 1..n : f[i] = Chunk(s, n, i) /\ f[i] \in Chunks /\ f[i] # Hole
  BY <1>1, ChunkType
<1>4. CASE last = Hole
  BY <1>2, <1>3, <1>4 DEF Hole, Follows, Chunk
<1>5. ASSUME NEW i \in DOMAIN f, last = f[i], i # last.of
      PROVE  /\ last.nr = i /\ i + 1 \in 1..n
             /\ Follows(f[i + 1], last)
  <2>1. last = [by |-> s, of |-> n, nr |-> i] /\ last # Hole
    BY <1>2, <1>3, <1>5 DEF Chunk
  <2>2. i \in 1..n /\ i # n
    BY <1>2, <1>5, <2>1
  <2>3. f[i + 1] = [by |-> s, of |-> n, nr |-> i + 1]
    BY <1>3, <2>2 DEF Chunk
  <2> QED
    BY <2>1, <2>2, <2>3 DEF Follows
<1>6. CASE \E i \in DOMAIN f : last = f[i] /\ i # last.of
  BY <1>2, <1>3, <1>5, <1>6 DEF Chunk
<1> QED
  BY <1>4, <1>6

-------------------------------------------------------------------------------
(* Save.                                                                   *)

\* Between its calls every goroutine but one is outside Save.
LEMMA OthersIdle ==
  ASSUME OneSave, NEW s \in Savers, saver[s].pc # "idle", NEW z \in Savers, z # s
  PROVE  saver[z].pc = "idle"
  BY DEF OneSave

LEMMA CreateKeeps ==
  ASSUME ArchiveInv, OneSave', NEW s \in Savers, Create(s)
  PROVE  ArchiveInv'
<1> USE DEF ArchiveInv
<1>1. PICK f \in IF tmp = NoFile THEN Free ELSE {tmp}, n \in 1..MaxChunks :
        /\ tmp' = f
        /\ content' = [content EXCEPT ![f] = <<>>]
        /\ saver' = [saver EXCEPT ![s] = [pc |-> "writing", file |-> f, len |-> n, written |-> 0]]
        /\ UNCHANGED <<dest, reader>>
  BY DEF Create, Starts
<1>2. f \in Files /\ f # NoFile /\ f # dest
      /\ \A r \in Readers : reader[r].pc = "reading" => reader[r].file # f
  BY <1>1, NoFileAssumption DEF Free, ReaderOK, ArchiveTypeOK
<1>3. ArchiveTypeOK'
  <2>1. content' \in [Files -> Seq(Chunks \cup {Hole})]
    BY <1>1, <1>2 DEF ArchiveTypeOK
  <2> QED
    BY <1>1, <1>2, <2>1, MaxChunksAssumption DEF ArchiveTypeOK
<1>4. DestIsWhole' /\ (dest # NoFile => dest # tmp)'
  BY <1>1, <1>2 DEF DestIsWhole, ArchiveTypeOK
<1>5. ASSUME NEW z \in Savers PROVE SaverOK(z)'
  <2>1. CASE z = s
    <3>1. saver'[s] = [pc |-> "writing", file |-> f, len |-> n, written |-> 0]
          /\ content'[f] = <<>>
      BY <1>1, <1>2 DEF ArchiveTypeOK
    <3>2. <<>> = Begun(s, n, 0)
      BY DEF Begun
    <3> QED
      BY <1>1, <2>1, <3>1, <3>2, MaxChunksAssumption DEF SaverOK
  <2>2. CASE z # s
    <3>1. saver'[s].pc # "idle"
      BY <1>1 DEF ArchiveTypeOK
    <3>2. saver'[z].pc = "idle"
      BY <2>2, <3>1 DEF OneSave
    <3> QED
      BY <3>2 DEF SaverOK
  <2> QED
    BY <2>1, <2>2
<1>6. ASSUME NEW r \in Readers PROVE ReaderOK(r)'
  <2>1. reader[r].pc = "reading" => content'[reader[r].file] = content[reader[r].file]
    BY <1>1, <1>2 DEF ReaderOK, ArchiveTypeOK
  <2> QED
    BY <1>1, <1>2, <2>1 DEF ReaderOK
<1> QED
  BY <1>3, <1>4, <1>5, <1>6

LEMMA WriteKeeps ==
  ASSUME ArchiveInv, OneSave', NEW s \in Savers, Write(s)
  PROVE  ArchiveInv'
<1> USE DEF ArchiveInv
<1> DEFINE n == saver[s].len
           k == saver[s].written
<1>1. /\ saver[s].pc = "writing" /\ saver[s].file = tmp /\ tmp \in Files
      /\ n \in 1..MaxChunks /\ k \in Nat /\ k < n
      /\ content[tmp] = Begun(s, n, k)
      /\ content[tmp] \in Seq(Chunks \cup {Hole})
      /\ UNCHANGED <<tmp, dest, reader>>
  BY DEF Write, SaverOK, ArchiveTypeOK
<1>2. /\ content' = [content EXCEPT ![tmp] = WriteAt(content[tmp], k + 1, Chunk(s, n, k + 1))]
      /\ saver' = [saver EXCEPT ![s].written = k + 1]
  BY <1>1 DEF Write
<1> HIDE DEF n, k
<1>3. /\ content'[tmp] = Begun(s, n, k + 1)
      /\ content'[tmp] \in Seq(Chunks \cup {Hole})
      /\ \A f \in Files \ {tmp} : content'[f] = content[f]
      /\ content' \in [Files -> Seq(Chunks \cup {Hole})]
  <2>1. /\ WriteAt(content[tmp], k + 1, Chunk(s, n, k + 1))
             = Begun(s, n, k + 1)
        /\ WriteAt(content[tmp], k + 1, Chunk(s, n, k + 1)) \in Seq(Chunks \cup {Hole})
    BY <1>1, WriteExtends
  <2> QED
    BY <1>1, <1>2, <2>1 DEF ArchiveTypeOK
<1>4. /\ saver'[s].pc = "writing" /\ saver'[s].file = tmp
      /\ saver'[s].len = n /\ saver'[s].written = k + 1
      /\ k + 1 \in 0..MaxChunks
      /\ \A z \in Savers \ {s} : saver'[z] = saver[z]
  <2>1. k + 1 \in 0..MaxChunks
    BY <1>1, MaxChunksAssumption
  <2> QED
    BY <1>1, <1>2, <2>1 DEF ArchiveTypeOK, n
<1>5. ArchiveTypeOK'
  <2>1. saver' \in [Savers -> [pc : {"idle", "writing", "closed", "failed"},
                              file : Files \cup {NoFile},
                              len : 0..MaxChunks, written : 0..MaxChunks]]
    BY <1>2, <1>4 DEF ArchiveTypeOK
  <2>2. ASSUME NEW z \in Savers
        PROVE  saver'[z].pc = "writing" <=> saver'[z].file # NoFile
    <3>1. CASE z = s
      BY <1>1, <1>4, <3>1, NoFileAssumption
    <3>2. CASE z # s
      BY <1>4, <3>2 DEF ArchiveTypeOK
    <3> QED
      BY <3>1, <3>2
  <2> QED
    BY <1>1, <1>3, <2>1, <2>2 DEF ArchiveTypeOK
<1>6. DestIsWhole' /\ (dest # NoFile => dest # tmp)'
  BY <1>1, <1>3 DEF DestIsWhole, ArchiveTypeOK
<1>7. ASSUME NEW z \in Savers PROVE SaverOK(z)'
  <2>1. CASE z = s
    BY <1>1, <1>3, <1>4, <2>1 DEF SaverOK
  <2>2. CASE z # s
    BY <1>1, <1>4, <2>2, OthersIdle DEF SaverOK
  <2> QED
    BY <2>1, <2>2
<1>8. ASSUME NEW r \in Readers PROVE ReaderOK(r)'
  BY <1>1, <1>3 DEF ReaderOK
<1> QED
  BY <1>5, <1>6, <1>7, <1>8

\* The steps of Save that leave the files alone.
LEMMA CloseKeeps ==
  ASSUME ArchiveInv, OneSave', NEW s \in Savers, NewWriterFails(s) \/ Close(s)
  PROVE  ArchiveInv'
<1> USE DEF ArchiveInv
<1>1. /\ saver[s].pc = "writing" /\ UNCHANGED <<tmp, dest, content, reader>>
      /\ \E pc \in {"idle", "closed", "failed"} :
           /\ pc = "closed" => saver[s].written = saver[s].len
           /\ saver' = [saver EXCEPT ![s] = [NotSaving EXCEPT !.pc = pc]]
  BY DEF NewWriterFails, Close, NotSaving
<1>2. PICK pc \in {"idle", "closed", "failed"} :
           /\ pc = "closed" => saver[s].written = saver[s].len
           /\ saver' = [saver EXCEPT ![s] = [NotSaving EXCEPT !.pc = pc]]
  BY <1>1
<1>3. /\ saver'[s] = [pc |-> pc, file |-> NoFile, len |-> 0, written |-> 0]
      /\ \A z \in Savers \ {s} : saver'[z] = saver[z]
  BY <1>2 DEF ArchiveTypeOK, NotSaving
<1>4. ArchiveTypeOK'
  BY <1>1, <1>2, <1>3, MaxChunksAssumption DEF ArchiveTypeOK, NotSaving
<1>5. ASSUME NEW z \in Savers PROVE SaverOK(z)'
  <2>1. CASE z = s
    <3>1. ASSUME pc = "closed" PROVE tmp # NoFile /\ content[tmp] \in Archives
      <4>1. /\ tmp # NoFile /\ saver[s].len \in 1..MaxChunks
            /\ content[tmp] = Begun(s, saver[s].len, saver[s].len)
        BY <1>1, <1>2, <3>1 DEF SaverOK, ArchiveTypeOK
      <4> QED
        BY <4>1 DEF Archives
    <3> QED
      BY <1>1, <1>3, <2>1, <3>1 DEF SaverOK
  <2>2. CASE z # s
    BY <1>1, <1>3, <2>2, OthersIdle DEF SaverOK
  <2> QED
    BY <2>1, <2>2
<1>6. ASSUME NEW r \in Readers PROVE ReaderOK(r)'
  BY <1>1 DEF ReaderOK
<1> QED
  BY <1>1, <1>4, <1>5, <1>6 DEF DestIsWhole

\* The two ends of Save, where the temporary file's name goes.
LEMMA NameGoes ==
  ASSUME ArchiveInv, OneSave', NEW s \in Savers, RemoveTmp(s) \/ Rename(s)
  PROVE  ArchiveInv'
<1> USE DEF ArchiveInv
<1>1. /\ saver[s].pc \in {"failed", "closed"}
      /\ saver' = [saver EXCEPT ![s] = NotSaving]
      /\ UNCHANGED <<content, reader>>
  BY DEF RemoveTmp, Rename
<1>2. tmp' = NoFile
      /\ \/ dest' = dest
         \/ dest' = tmp /\ content[tmp] \in Archives /\ tmp # NoFile
  BY <1>1 DEF RemoveTmp, Rename, SaverOK
<1>3. \A z \in Savers : saver'[z].pc = "idle"
  BY <1>1, OthersIdle DEF ArchiveTypeOK, NotSaving
<1>4. ArchiveTypeOK'
  BY <1>1, <1>2, MaxChunksAssumption DEF ArchiveTypeOK, NotSaving
<1>5. DestIsWhole'
  BY <1>1, <1>2 DEF DestIsWhole
<1>6. ASSUME NEW r \in Readers PROVE ReaderOK(r)'
  BY <1>1, <1>2, NoFileAssumption DEF ReaderOK
<1> QED
  BY <1>2, <1>3, <1>4, <1>5, <1>6 DEF SaverOK

\* A Save that ends with its temporary file in place.
LEMMA TmpStays ==
  ASSUME ArchiveInv, OneSave', NEW s \in Savers, LastCallFails(s)
  PROVE  ArchiveInv'
<1> USE DEF ArchiveInv
<1>1. /\ saver[s].pc \in {"failed", "closed"}
      /\ saver' = [saver EXCEPT ![s] = NotSaving]
      /\ UNCHANGED <<tmp, dest, content, reader>>
  BY DEF LastCallFails
<1>2. \A z \in Savers : saver'[z].pc = "idle"
  BY <1>1, OthersIdle DEF ArchiveTypeOK, NotSaving
<1>3. ArchiveTypeOK'
  BY <1>1, MaxChunksAssumption DEF ArchiveTypeOK, NotSaving
<1> QED
  BY <1>1, <1>2, <1>3 DEF SaverOK, DestIsWhole, ReaderOK

-------------------------------------------------------------------------------
(* Restore, Delete and the crash.                                          *)

LEMMA OpenKeeps ==
  ASSUME ArchiveInv, OneSave', NEW r \in Readers, Open(r)
  PROVE  ArchiveInv'
<1> USE DEF ArchiveInv
<1>1. /\ dest # NoFile /\ dest \in Files /\ dest # tmp /\ content[dest] \in Archives
      /\ reader' = [reader EXCEPT ![r] = [pc |-> "reading", file |-> dest, last |-> Hole]]
      /\ UNCHANGED <<tmp, dest, content, saver>>
  BY DEF Open, ArchiveTypeOK, DestIsWhole
<1>2. ArchiveTypeOK'
  BY <1>1 DEF ArchiveTypeOK
<1>3. ASSUME NEW q \in Readers PROVE ReaderOK(q)'
  <2>1. CASE q = r
    BY <1>1, <2>1 DEF ReaderOK, ArchiveTypeOK
  <2>2. CASE q # r
    BY <1>1, <2>2 DEF ReaderOK, ArchiveTypeOK
  <2> QED
    BY <2>1, <2>2
<1> QED
  BY <1>1, <1>2, <1>3 DEF SaverOK, DestIsWhole

LEMMA ReadKeeps ==
  ASSUME ArchiveInv, OneSave', NEW r \in Readers, Read(r)
  PROVE  ArchiveInv'
<1> USE DEF ArchiveInv
<1> DEFINE f == content[reader[r].file]
           i == reader[r].last.nr + 1
<1>1. /\ reader[r].pc = "reading" /\ reader[r].file \in Files
      /\ f \in Archives /\ f \in Seq(Chunks \cup {Hole})
      /\ \/ reader[r].last = Hole
         \/ \E j \in DOMAIN f : reader[r].last = f[j] /\ j # reader[r].last.of
      /\ UNCHANGED <<tmp, dest, content, saver>>
  BY DEF Read, ReaderOK, ArchiveTypeOK
<1>2. /\ i \in DOMAIN f /\ i <= Len(f) /\ Follows(f[i], reader[r].last)
      /\ f[i] \in Chunks /\ f[i].nr = i
  BY <1>1, ReadGoesOn
<1>3. reader' = [reader EXCEPT ![r] =
          IF f[i].nr = f[i].of THEN [NotReading EXCEPT !.pc = "restored"]
          ELSE [reader[r] EXCEPT !.last = f[i]]]
  BY <1>2 DEF Read
<1> HIDE DEF f, i
<1>4. CASE f[i].nr = f[i].of
  <2>1. /\ reader' = [reader EXCEPT ![r] = [pc |-> "restored", file |-> NoFile, last |-> Hole]]
    <3>1. [NotReading EXCEPT !.pc = "restored"]
            = [pc |-> "restored", file |-> NoFile, last |-> Hole]
      BY DEF NotReading
    <3> QED
      BY <1>3, <1>4, <3>1
  <2>2. ArchiveTypeOK'
    BY <1>1, <2>1 DEF ArchiveTypeOK
  <2>3. ASSUME NEW q \in Readers PROVE ReaderOK(q)'
    BY <1>1, <2>1 DEF ReaderOK, ArchiveTypeOK
  <2> QED
    BY <1>1, <2>2, <2>3 DEF SaverOK, DestIsWhole
<1>5. CASE f[i].nr # f[i].of
  <2>1. /\ reader' = [reader EXCEPT ![r] = [reader[r] EXCEPT !.last = f[i]]]
    BY <1>3, <1>5
  <2>2. ArchiveTypeOK'
    BY <1>1, <1>2, <2>1 DEF ArchiveTypeOK
  <2>3. ASSUME NEW q \in Readers PROVE ReaderOK(q)'
    <3>1. CASE q = r
      <4>1. reader'[q].file = reader[r].file /\ reader'[q].last = f[i]
            /\ reader'[q].pc = "reading"
        BY <1>1, <2>1, <3>1 DEF ArchiveTypeOK
      <4>2. reader[r].file # tmp
        BY <1>1 DEF ReaderOK
      <4> QED
        BY <1>1, <1>2, <1>5, <4>1, <4>2 DEF ReaderOK, f
    <3>2. CASE q # r
      BY <1>1, <2>1, <3>2 DEF ReaderOK, ArchiveTypeOK
    <3> QED
      BY <3>1, <3>2
  <2> QED
    BY <1>1, <2>2, <2>3 DEF SaverOK, DestIsWhole
<1> QED
  BY <1>4, <1>5

LEMMA EndsKeep ==
  ASSUME ArchiveInv, OneSave',
         \/ \E r \in Readers : RestoreFails(r)
         \/ Delete \/ Crash \/ UNCHANGED vars
  PROVE  ArchiveInv'
<1> USE DEF ArchiveInv
<1>1. ASSUME NEW r \in Readers, RestoreFails(r) PROVE ArchiveInv'
  BY <1>1 DEF RestoreFails, NotReading, ArchiveTypeOK, SaverOK, ReaderOK, DestIsWhole
<1>2. CASE Delete
  BY <1>2 DEF Delete, ArchiveTypeOK, SaverOK, ReaderOK, DestIsWhole
<1>3. CASE Crash
  BY <1>3, MaxChunksAssumption
  DEF Crash, NotSaving, NotReading, ArchiveTypeOK, SaverOK, ReaderOK, DestIsWhole
<1>4. CASE UNCHANGED vars
  BY <1>4 DEF vars, ArchiveTypeOK, SaverOK, ReaderOK, DestIsWhole
<1> QED
  BY <1>1, <1>2, <1>3, <1>4

-------------------------------------------------------------------------------

LEMMA ArchiveInit == Init => ArchiveInv
<1> SUFFICES ASSUME Init PROVE ArchiveInv
  OBVIOUS
<1>1. content \in [Files -> Seq(Chunks \cup {Hole})]
  BY DEF Init
<1> QED
  BY <1>1, MaxChunksAssumption
  DEF Init, NotSaving, NotReading, ArchiveInv, ArchiveTypeOK, OneSave, DestIsWhole,
      SaverOK, ReaderOK

\* With one Save of the key at a time, the writer has the temporary file to
\* itself, and nobody writes what a Restore reads.
THEOREM ArchiveInvariant == SerialSpec => []ArchiveInv
<1>1. ArchiveInv /\ [Next /\ OneSave']_vars => ArchiveInv'
  <2>1. ArchiveInv /\ UNCHANGED vars => ArchiveInv'
    <3>1. ArchiveInv /\ UNCHANGED vars => OneSave'
      BY DEF ArchiveInv, OneSave, vars
    <3> QED
      BY <3>1, EndsKeep
  <2>2. ArchiveInv /\ Next /\ OneSave' => ArchiveInv'
    BY CreateKeeps, WriteKeeps, CloseKeeps, NameGoes, TmpStays, OpenKeeps, ReadKeeps,
       EndsKeep
    DEF Next
  <2> QED
    BY <2>1, <2>2
<1> QED
  BY <1>1, ArchiveInit, PTL DEF SerialSpec

\* Files, names and descriptors keep their types.
THEOREM ArchiveTypeCorrect == SerialSpec => []ArchiveTypeOK
<1>1. ArchiveInv => ArchiveTypeOK
  BY DEF ArchiveInv
<1> QED
  BY <1>1, ArchiveInvariant, PTL

\* Whatever crashed or failed, the file with the key's name is one whole
\* archive.
THEOREM DestStaysWhole == SerialSpec => []DestIsWhole
<1>1. ArchiveInv => DestIsWhole
  BY DEF ArchiveInv
<1> QED
  BY <1>1, ArchiveInvariant, PTL

\* A Restore never meets a broken archive, also when the key is saved again or
\* deleted while it reads.
THEOREM RestoreNeverCorrupt == SerialSpec => []NeverCorrupt
<1>1. ArchiveInv => NeverCorrupt
  BY DEF ArchiveInv, ReaderOK, NeverCorrupt
<1> QED
  BY <1>1, ArchiveInvariant, PTL

-------------------------------------------------------------------------------
(* ArchiveStore implements ArchiveRegister.                                *)

LEMMA ArchivesAreNotEmpty ==
  /\ \A a \in Archives : a # <<>>
  /\ \A s \in Savers, n \in 1..MaxChunks : Begun(s, n, n) \in Archives
<1>1. ASSUME NEW s \in Savers, NEW n \in 1..MaxChunks PROVE Begun(s, n, n) # <<>>
  <2>1. DOMAIN Begun(s, n, n) = 1..n /\ n >= 1 /\ n \in Nat
    BY MaxChunksAssumption DEF Begun
  <2>2. 1 \in DOMAIN Begun(s, n, n) /\ 1 \notin DOMAIN <<>>
    BY <2>1
  <2> QED
    BY <2>2
<1> QED
  BY <1>1 DEF Archives

\* Nothing of the register changes when neither the files that are read nor
\* what the key names do.
LEMMA RestoringSame ==
  ASSUME UNCHANGED reader,
         \A r \in Readers : reader[r].pc = "reading" =>
           content'[reader[r].file] = content[reader[r].file]
  PROVE  restoringBar' = restoringBar
BY DEF restoringBar

LEMMA ValueSame ==
  ASSUME UNCHANGED dest, dest # NoFile => content'[dest] = content[dest]
  PROVE  valueBar' = valueBar
BY DEF valueBar

\* What the Saves hold while the others are outside Save.
LEMMA SavingMoves ==
  ASSUME ArchiveInv, OneSave', NEW s \in Savers, NEW me,
         saver' = [saver EXCEPT ![s] = me],
         saver[s].pc # "idle" \/ me.pc # "idle"
  PROVE  savingBar' = [savingBar EXCEPT ![s] =
           IF me.pc = "writing" THEN Begun(s, me.len, me.len)
           ELSE IF me.pc = "closed" THEN content'[tmp'] ELSE <<>>]
<1>1. /\ saver'[s] = me /\ \A z \in Savers \ {s} : saver'[z] = saver[z]
  BY DEF ArchiveInv, ArchiveTypeOK
<1>2. \A z \in Savers \ {s} : saver[z].pc = "idle"
  BY <1>1 DEF ArchiveInv, OneSave
<1>3. /\ savingBar = [z \in Savers |-> savingBar[z]]
      /\ savingBar' = [z \in Savers |-> savingBar'[z]]
  BY DEF savingBar
<1>4. \A z \in Savers \ {s} : savingBar[z] = <<>> /\ savingBar'[z] = <<>>
  BY <1>1, <1>2 DEF savingBar
<1>5. savingBar'[s] = IF me.pc = "writing" THEN Begun(s, me.len, me.len)
                      ELSE IF me.pc = "closed" THEN content'[tmp'] ELSE <<>>
  BY <1>1 DEF savingBar
<1> QED
  BY <1>3, <1>4, <1>5

\* The Save of s is where it is in its archive, and the others have none.
LEMMA SavingNow ==
  ASSUME ArchiveInv, NEW s \in Savers
  PROVE  /\ saver[s].pc \in {"idle", "failed"} => savingBar[s] = <<>>
         /\ saver[s].pc = "writing" =>
              /\ savingBar[s] = Begun(s, saver[s].len, saver[s].len)
              /\ savingBar[s] \in Archives
         /\ saver[s].pc = "closed" =>
              savingBar[s] = content[tmp] /\ savingBar[s] \in Archives
         /\ saver[s].pc \in {"writing", "closed"} => savingBar[s] # <<>>
<1>1. SaverOK(s)
  BY DEF ArchiveInv
<1> QED
  BY <1>1, ArchivesAreNotEmpty DEF savingBar, SaverOK

\* os.Create begins a Save, and truncates no file that the key or a Restore has.
LEMMA CreateIsBegin ==
  ASSUME ArchiveInv, OneSave', NEW s \in Savers, Create(s)
  PROVE  Register!BeginSave(s)
<1>1. PICK f \in IF tmp = NoFile THEN Free ELSE {tmp}, n \in 1..MaxChunks :
        /\ saver[s].pc = "idle"
        /\ content' = [content EXCEPT ![f] = <<>>]
        /\ saver' = [saver EXCEPT ![s] = [pc |-> "writing", file |-> f, len |-> n, written |-> 0]]
        /\ UNCHANGED <<dest, reader>>
  BY DEF Create, Starts
<1>2. f # dest /\ \A r \in Readers : reader[r].pc = "reading" => reader[r].file # f
  BY <1>1, NoFileAssumption DEF Free, ArchiveInv, ReaderOK, ArchiveTypeOK
<1>3. content \in [Files -> Seq(Chunks \cup {Hole})]
  BY DEF ArchiveInv, ArchiveTypeOK
<1>4. savingBar' = [savingBar EXCEPT ![s] = Begun(s, n, n)]
  BY <1>1, SavingMoves
<1>5. savingBar[s] = <<>> /\ Begun(s, n, n) \in Archives
  BY <1>1, SavingNow, ArchivesAreNotEmpty
<1>6. valueBar' = valueBar
  <2>1. dest # NoFile => dest \in Files
    BY DEF ArchiveInv, ArchiveTypeOK
  <2> QED
    BY <1>1, <1>2, <1>3, <2>1, ValueSame
<1>7. restoringBar' = restoringBar
  <2>1. \A r \in Readers : reader[r].pc = "reading" => reader[r].file \in Files
    BY DEF ArchiveInv, ReaderOK
  <2> QED
    BY <1>1, <1>2, <1>3, <2>1, RestoringSame
<1> QED
  BY <1>4, <1>5, <1>6, <1>7 DEF Register!BeginSave

\* A write goes to a file that neither the key nor a Restore has.
LEMMA WriteIsUnseen ==
  ASSUME ArchiveInv, OneSave', NEW s \in Savers, Write(s)
  PROVE  UNCHANGED Register!vars
<1>1. /\ saver[s].pc = "writing" /\ saver[s].file = tmp /\ tmp \in Files
      /\ dest # NoFile => dest # tmp /\ dest \in Files
      /\ \A r \in Readers : reader[r].pc = "reading" => reader[r].file \in Files \ {tmp}
      /\ content \in [Files -> Seq(Chunks \cup {Hole})]
      /\ UNCHANGED <<dest, reader>>
  BY DEF Write, ArchiveInv, SaverOK, ReaderOK, ArchiveTypeOK
<1>2. /\ saver' = [saver EXCEPT ![s] = [saver[s] EXCEPT !.written = saver[s].written + 1]]
      /\ \A f \in Files \ {tmp} : content'[f] = content[f]
  BY <1>1 DEF Write
<1>3. /\ [saver[s] EXCEPT !.written = saver[s].written + 1].pc = "writing"
      /\ [saver[s] EXCEPT !.written = saver[s].written + 1].len = saver[s].len
  BY <1>1 DEF ArchiveInv, ArchiveTypeOK
<1>4. savingBar' = [savingBar EXCEPT ![s] = Begun(s, saver[s].len, saver[s].len)]
  BY <1>1, <1>2, <1>3, SavingMoves
<1>5. savingBar' = savingBar
  BY <1>1, <1>4, SavingNow DEF savingBar
<1>6. valueBar' = valueBar /\ restoringBar' = restoringBar
  BY <1>1, <1>2, ValueSame, RestoringSame
<1> QED
  BY <1>5, <1>6 DEF Register!vars

\* The descriptor is closed, over the whole archive, or the Save has failed.
LEMMA CloseIsSeen ==
  ASSUME ArchiveInv, OneSave', NEW s \in Savers, NewWriterFails(s) \/ Close(s)
  PROVE  Register!SaveFails(s) \/ UNCHANGED Register!vars
<1>1. /\ saver[s].pc = "writing" /\ UNCHANGED <<tmp, dest, content, reader>>
      /\ \E pc \in {"idle", "closed", "failed"} :
           /\ pc = "closed" => saver[s].written = saver[s].len
           /\ saver' = [saver EXCEPT ![s] = [NotSaving EXCEPT !.pc = pc]]
  BY DEF NewWriterFails, Close, NotSaving
<1>2. PICK pc \in {"idle", "closed", "failed"} :
           /\ pc = "closed" => saver[s].written = saver[s].len
           /\ saver' = [saver EXCEPT ![s] = [NotSaving EXCEPT !.pc = pc]]
  BY <1>1
<1>3. [NotSaving EXCEPT !.pc = pc].pc = pc
  BY DEF NotSaving
<1>4. savingBar' = [savingBar EXCEPT ![s] = IF pc = "closed" THEN content[tmp] ELSE <<>>]
  BY <1>1, <1>2, <1>3, SavingMoves
<1>5. valueBar' = valueBar /\ restoringBar' = restoringBar
  BY <1>1, ValueSame, RestoringSame
<1>6. CASE pc = "closed"
  <2>1. content[tmp] = savingBar[s]
    BY <1>1, <1>2, <1>6, SavingNow DEF ArchiveInv, SaverOK
  <2>2. savingBar' = savingBar
    BY <1>4, <1>6, <2>1 DEF savingBar
  <2> QED
    BY <1>5, <2>2 DEF Register!vars
<1>7. CASE pc # "closed"
  BY <1>1, <1>4, <1>5, <1>7, SavingNow DEF Register!SaveFails, Register!EndsSave
<1> QED
  BY <1>6, <1>7

\* The rename is the instant at which a Save takes effect.
LEMMA RenameIsCommit ==
  ASSUME ArchiveInv, OneSave', NEW s \in Savers, Rename(s)
  PROVE  Register!Commit(s)
<1>1. /\ saver[s].pc = "closed" /\ tmp # NoFile /\ dest' = tmp
      /\ saver' = [saver EXCEPT ![s] = NotSaving]
      /\ UNCHANGED <<content, reader>>
  BY DEF Rename, ArchiveInv, SaverOK
<1>2. savingBar' = [savingBar EXCEPT ![s] = <<>>]
  <2>1. NotSaving.pc = "idle"
    BY DEF NotSaving
  <2> QED
    BY <1>1, <2>1, SavingMoves
<1>3. savingBar[s] # <<>> /\ valueBar' = savingBar[s]
  BY <1>1, SavingNow DEF valueBar
<1>4. restoringBar' = restoringBar
  BY <1>1, RestoringSame
<1> QED
  BY <1>2, <1>3, <1>4 DEF Register!Commit, Register!EndsSave

LEMMA RemoveTmpIsUnseen ==
  ASSUME ArchiveInv, OneSave', NEW s \in Savers, RemoveTmp(s)
  PROVE  UNCHANGED Register!vars
<1>1. /\ saver[s].pc = "failed"
      /\ saver' = [saver EXCEPT ![s] = NotSaving]
      /\ UNCHANGED <<dest, content, reader>>
  BY DEF RemoveTmp
<1>2. savingBar' = [savingBar EXCEPT ![s] = <<>>] /\ savingBar[s] = <<>>
  <2>1. NotSaving.pc = "idle"
    BY DEF NotSaving
  <2> QED
    BY <1>1, <2>1, SavingMoves, SavingNow
<1>3. savingBar' = savingBar
  BY <1>2 DEF savingBar
<1> QED
  BY <1>1, <1>3, ValueSame, RestoringSame DEF Register!vars

\* A rename that fails is a Save that fails.
LEMMA LastCallFailsIsSeen ==
  ASSUME ArchiveInv, OneSave', NEW s \in Savers, LastCallFails(s)
  PROVE  Register!SaveFails(s) \/ UNCHANGED Register!vars
<1>1. /\ saver[s].pc \in {"failed", "closed"}
      /\ saver' = [saver EXCEPT ![s] = NotSaving]
      /\ UNCHANGED <<tmp, dest, content, reader>>
  BY DEF LastCallFails
<1>2. savingBar' = [savingBar EXCEPT ![s] = <<>>]
  <2>1. NotSaving.pc = "idle"
    BY DEF NotSaving
  <2> QED
    BY <1>1, <2>1, SavingMoves
<1>3. valueBar' = valueBar /\ restoringBar' = restoringBar
  BY <1>1, ValueSame, RestoringSame
<1>4. CASE saver[s].pc = "failed"
  <2>1. savingBar[s] = <<>>
    BY <1>1, <1>4, SavingNow
  <2>2. savingBar' = savingBar
    BY <1>2, <2>1 DEF savingBar
  <2> QED
    BY <1>3, <2>2 DEF Register!vars
<1>5. CASE saver[s].pc = "closed"
  BY <1>2, <1>3, <1>5, SavingNow DEF Register!SaveFails, Register!EndsSave
<1> QED
  BY <1>1, <1>4, <1>5

\* What a Restore holds is what its file has.
LEMMA RestoringMoves ==
  ASSUME ArchiveInv, NEW r \in Readers, NEW me,
         reader' = [reader EXCEPT ![r] = me],
         UNCHANGED <<tmp, dest, content, saver>>
  PROVE  /\ valueBar' = valueBar /\ savingBar' = savingBar
         /\ restoringBar[r].pc = reader[r].pc
         /\ reader[r].pc = "reading" => restoringBar[r].held = content[reader[r].file]
         /\ restoringBar' = [restoringBar EXCEPT ![r] =
              [pc |-> me.pc,
               held |-> IF me.pc = "reading" THEN content[me.file] ELSE <<>>]]
<1>1. reader'[r] = me /\ \A q \in Readers \ {r} : reader'[q] = reader[q]
  BY DEF ArchiveInv, ArchiveTypeOK
<1>2. valueBar' = valueBar /\ savingBar' = savingBar
  BY DEF valueBar, savingBar
<1>3. /\ restoringBar = [q \in Readers |-> restoringBar[q]]
      /\ restoringBar' = [q \in Readers |-> restoringBar'[q]]
  BY DEF restoringBar
<1>4. \A q \in Readers :
        restoringBar[q] = [pc   |-> reader[q].pc,
                           held |-> IF reader[q].pc = "reading"
                                    THEN content[reader[q].file] ELSE <<>>]
  BY DEF restoringBar
<1>5. /\ \A q \in Readers \ {r} : restoringBar'[q] = restoringBar[q]
      /\ restoringBar'[r] = [pc   |-> me.pc,
                             held |-> IF me.pc = "reading" THEN content[me.file] ELSE <<>>]
  BY <1>1 DEF restoringBar
<1>6. /\ restoringBar[r].pc = reader[r].pc
      /\ reader[r].pc = "reading" => restoringBar[r].held = content[reader[r].file]
  <2>1. restoringBar[r] = [pc   |-> reader[r].pc,
                           held |-> IF reader[r].pc = "reading"
                                    THEN content[reader[r].file] ELSE <<>>]
    BY <1>4
  <2> QED
    BY <2>1
<1>7. restoringBar' = [restoringBar EXCEPT ![r] =
        [pc |-> me.pc, held |-> IF me.pc = "reading" THEN content[me.file] ELSE <<>>]]
  BY <1>3, <1>5
<1> QED
  BY <1>2, <1>6, <1>7

LEMMA RestoreIsRegister ==
  ASSUME ArchiveInv, NEW r \in Readers, Open(r) \/ Read(r) \/ RestoreFails(r)
  PROVE  Register!BeginRestore(r) \/ Register!EndRestore(r) \/ UNCHANGED Register!vars
<1>1. UNCHANGED <<tmp, dest, content, saver>>
  BY DEF Open, Read, RestoreFails
<1>2. CASE Open(r)
  <2> DEFINE me == [pc |-> "reading", file |-> dest, last |-> Hole]
  <2>1. /\ reader[r].pc # "reading" /\ dest # NoFile
        /\ reader' = [reader EXCEPT ![r] = me]
    BY <1>2 DEF Open
  <2>2. valueBar = content[dest] /\ valueBar # <<>>
    BY <2>1, ArchivesAreNotEmpty DEF ArchiveInv, DestIsWhole, valueBar
  <2>3. me.pc = "reading" /\ me.file = dest
    OBVIOUS
  <2> HIDE DEF me
  <2>4. /\ valueBar' = valueBar /\ savingBar' = savingBar
        /\ restoringBar[r].pc = reader[r].pc
        /\ restoringBar' = [restoringBar EXCEPT ![r] =
             [pc |-> me.pc, held |-> IF me.pc = "reading" THEN content[me.file] ELSE <<>>]]
    BY <1>1, <2>1, RestoringMoves
  <2>5. restoringBar' = [restoringBar EXCEPT ![r] = [pc |-> "reading", held |-> valueBar]]
    BY <2>2, <2>3, <2>4
  <2> QED
    BY <2>1, <2>2, <2>4, <2>5 DEF Register!BeginRestore
<1>3. CASE Read(r) \/ RestoreFails(r)
  <2>1. reader[r].pc = "reading"
    BY <1>3 DEF Read, RestoreFails
  <2>2. PICK me : /\ reader' = [reader EXCEPT ![r] = me]
                  /\ \/ me = [pc |-> "restored", file |-> NoFile, last |-> Hole]
                     \/ me = [pc |-> "idle", file |-> NoFile, last |-> Hole]
                     \/ me.pc = "reading" /\ me.file = reader[r].file
    <3>1. CASE RestoreFails(r)
      BY <3>1 DEF RestoreFails, NotReading
    <3>2. CASE Read(r)
      <4> DEFINE f == content[reader[r].file]
                 i == reader[r].last.nr + 1
      <4>1. /\ f \in Archives /\ f \in Seq(Chunks \cup {Hole})
            /\ \/ reader[r].last = Hole
               \/ \E j \in DOMAIN f : reader[r].last = f[j] /\ j # reader[r].last.of
        BY <2>1 DEF ArchiveInv, ReaderOK, ArchiveTypeOK
      <4>2. i <= Len(f) /\ Follows(f[i], reader[r].last)
        BY <4>1, ReadGoesOn
      <4>3. reader' = [reader EXCEPT ![r] =
              IF f[i].nr = f[i].of THEN [NotReading EXCEPT !.pc = "restored"]
              ELSE [reader[r] EXCEPT !.last = f[i]]]
        BY <3>2, <4>2 DEF Read
      <4>4. [NotReading EXCEPT !.pc = "restored"]
              = [pc |-> "restored", file |-> NoFile, last |-> Hole]
        BY DEF NotReading
      <4>5. /\ [reader[r] EXCEPT !.last = f[i]].pc = "reading"
            /\ [reader[r] EXCEPT !.last = f[i]].file = reader[r].file
        BY <2>1 DEF ArchiveInv, ArchiveTypeOK
      <4> QED
        BY <4>3, <4>4, <4>5
    <3> QED
      BY <1>3, <3>1, <3>2
  <2>3. /\ valueBar' = valueBar /\ savingBar' = savingBar
        /\ restoringBar[r].pc = "reading"
        /\ restoringBar[r].held = content[reader[r].file]
        /\ restoringBar' = [restoringBar EXCEPT ![r] =
             [pc |-> me.pc,
              held |-> IF me.pc = "reading" THEN content[me.file] ELSE <<>>]]
    BY <1>1, <2>1, <2>2, RestoringMoves
  <2>4. CASE me.pc = "reading"
    <3>1. me.file = reader[r].file
      BY <2>2, <2>4
    <3>2. restoringBar' = restoringBar
      <4>1. restoringBar[r] = [pc |-> "reading", held |-> content[me.file]]
        BY <2>1, <3>1 DEF restoringBar
      <4>2. restoringBar = [q \in Readers |-> restoringBar[q]]
        BY DEF restoringBar
      <4>3. restoringBar' = [restoringBar EXCEPT ![r] = restoringBar[r]]
        BY <2>3, <2>4, <4>1
      <4> QED
        BY <4>2, <4>3
    <3> QED
      BY <2>3, <3>2 DEF Register!vars
  <2>5. CASE me.pc # "reading"
    <3>1. me.pc \in {"restored", "idle"}
      BY <2>2, <2>5
    <3>2. [Register!Idle EXCEPT !.pc = me.pc] = [pc |-> me.pc, held |-> <<>>]
      BY DEF Register!Idle
    <3> QED
      BY <2>3, <2>5, <3>1, <3>2 DEF Register!EndRestore
  <2> QED
    BY <2>4, <2>5
<1> QED
  BY <1>2, <1>3

LEMMA EndsAreRegister ==
  ASSUME Delete \/ Crash \/ UNCHANGED vars
  PROVE  Register!Delete \/ Register!Crash \/ UNCHANGED Register!vars
<1>1. CASE Delete
  BY <1>1 DEF Delete, Register!Delete, valueBar, savingBar, restoringBar
<1>2. CASE Crash
  <2>1. valueBar' = valueBar
    BY <1>2 DEF Crash, valueBar
  <2>2. savingBar' = [s \in Savers |-> <<>>]
    BY <1>2 DEF Crash, NotSaving, savingBar
  <2>3. restoringBar' = [r \in Readers |-> [pc |-> "idle", held |-> <<>>]]
    BY <1>2 DEF Crash, NotReading, restoringBar
  <2> QED
    BY <2>1, <2>2, <2>3 DEF Register!Crash, Register!Idle
<1>3. CASE UNCHANGED vars
  BY <1>3 DEF vars, Register!vars, valueBar, savingBar, restoringBar
<1> QED
  BY <1>1, <1>2, <1>3

LEMMA RegisterInit == Init => Register!Init
BY DEF Init, NotSaving, NotReading, Register!Init, Register!Idle, valueBar, savingBar,
       restoringBar

\* The key is an atomic register: a Save takes effect at its rename or never,
\* and a Restore reads the archive the key had when it was opened.
THEOREM ArchiveImplementsRegister == SerialSpec => ImplementsRegister
<1>1. ArchiveInv /\ [Next /\ OneSave']_vars => [Register!Next]_(Register!vars)
  <2> SUFFICES ASSUME ArchiveInv, [Next /\ OneSave']_vars
               PROVE  [Register!Next]_(Register!vars)
    OBVIOUS
  <2>1. ASSUME NEW s \in Savers, OneSave',
               \/ Create(s) \/ NewWriterFails(s) \/ Write(s)
               \/ Close(s) \/ RemoveTmp(s) \/ Rename(s) \/ LastCallFails(s)
        PROVE  [Register!Next]_(Register!vars)
    BY <2>1, CreateIsBegin, WriteIsUnseen, CloseIsSeen, RemoveTmpIsUnseen, RenameIsCommit,
       LastCallFailsIsSeen
    DEF Register!Next
  <2>2. ASSUME NEW r \in Readers, Open(r) \/ Read(r) \/ RestoreFails(r)
        PROVE  [Register!Next]_(Register!vars)
    BY <2>2, RestoreIsRegister DEF Register!Next
  <2>3. ASSUME Delete \/ Crash \/ UNCHANGED vars
        PROVE  [Register!Next]_(Register!vars)
    BY <2>3, EndsAreRegister DEF Register!Next
  <2> QED
    BY <2>1, <2>2, <2>3 DEF Next
<1> QED
  BY <1>1, RegisterInit, ArchiveInvariant, PTL
  DEF SerialSpec, ImplementsRegister, Register!Spec
===============================================================================
