------------------------------ MODULE ArchiveStore ------------------------------
(***************************************************************************)
(* internal/persistence: the archive of one key in a LocalStore, under     *)
(* Saves, Restores and Deletes and crashes of the process between any two  *)
(* system calls.  A directory entry names a file; an open descriptor keeps *)
(* the file it was opened on, whatever its name becomes.                   *)
(***************************************************************************)
EXTENDS Integers, Sequences, FiniteSets

CONSTANTS
  Savers,      \* goroutines that Save under the key
  Readers,     \* goroutines that Restore it
  Files,       \* the files there can be at one time
  NoFile,      \* none of them
  MaxChunks    \* the longest archive, in writes

ASSUME MaxChunksAssumption == MaxChunks \in Nat \ {0}
ASSUME NoFileAssumption    == NoFile \notin Files \cup Savers

VARIABLES
  tmp, dest,   \* the files <key>.tar.zst.tmp and <key>.tar.zst name, or NoFile
  content,     \* content[f]: the chunks of file f
  saver,       \* saver[s]: where Save is: its file, archive length, chunks written
  reader       \* reader[r]: where Restore is: its file, the last chunk read

vars == <<tmp, dest, content, saver, reader>>

\* Chunk i of an archive of n chunks that s writes; a Hole is what a write past
\* the end of a file leaves before it.
Chunk(s, n, i) == [by |-> s, of |-> n, nr |-> i]
Hole           == [by |-> NoFile, of |-> 0, nr |-> 0]
Chunks         == [by : Savers, of : 1..MaxChunks, nr : 1..MaxChunks]

\* The first k chunks of it.
Begun(s, n, k) == [i \in 1..k |-> Chunk(s, n, i)]
Archives       == {Begun(s, n, n) : s \in Savers, n \in 1..MaxChunks}

NotSaving  == [pc |-> "idle", file |-> NoFile, len |-> 0, written |-> 0]
NotReading == [pc |-> "idle", file |-> NoFile, last |-> Hole]

\* Files that neither a name nor a descriptor holds.
Free == Files \ ({tmp, dest} \cup {saver[s].file : s \in Savers}
                             \cup {reader[r].file : r \in Readers})

Init ==
  /\ tmp = NoFile /\ dest = NoFile
  /\ content = [f \in Files |-> <<>>]
  /\ saver = [s \in Savers |-> NotSaving]
  /\ reader = [r \in Readers |-> NotReading]

-------------------------------------------------------------------------------
(* Save                                                                    *)

Starts(s, f) ==
  \E n \in 1..MaxChunks :
    saver' = [saver EXCEPT ![s] = [pc |-> "writing", file |-> f, len |-> n, written |-> 0]]

Create_NoTruncate(s) ==
  /\ saver[s].pc = "idle"
  /\ \/ /\ tmp = NoFile
        /\ \E f \in Free : /\ tmp' = f /\ content' = [content EXCEPT ![f] = <<>>]
                           /\ Starts(s, f)
     \/ /\ tmp # NoFile /\ Starts(s, tmp)
        /\ UNCHANGED <<tmp, content>>
  /\ UNCHANGED <<dest, reader>>

\* os.Create: a new file, or the one that has the name, emptied.
Create(s) ==
  /\ saver[s].pc = "idle"
  /\ \E f \in IF tmp = NoFile THEN Free ELSE {tmp} :
       /\ tmp' = f
       /\ content' = [content EXCEPT ![f] = <<>>]
       /\ Starts(s, f)
  /\ UNCHANGED <<dest, reader>>

\* zstd.NewWriter fails: the temporary file is closed and stays.
NewWriterFails(s) ==
  /\ saver[s].pc = "writing" /\ saver[s].written = 0
  /\ saver' = [saver EXCEPT ![s] = NotSaving]
  /\ UNCHANGED <<tmp, dest, content, reader>>

\* The descriptor writes at its own offset.
WriteAt(chunks, i, chunk) ==
  [k \in 1..(IF i > Len(chunks) THEN i ELSE Len(chunks)) |->
     IF k = i THEN chunk ELSE IF k <= Len(chunks) THEN chunks[k] ELSE Hole]

\* tarDir and the Closes of the tar and zstd writers.
Write(s) ==
  LET me == saver[s]  i == me.written + 1 IN
  /\ me.pc = "writing" /\ me.written < me.len
  /\ content' = [content EXCEPT ![me.file] = WriteAt(@, i, Chunk(s, me.len, i))]
  /\ saver' = [saver EXCEPT ![s].written = i]
  /\ UNCHANGED <<tmp, dest, reader>>

\* A Save that does not look at the errors of tarDir and the Closes.
Close_ErrorsIgnored(s) ==
  /\ saver[s].pc = "writing"
  /\ saver' = [saver EXCEPT ![s] = [NotSaving EXCEPT !.pc = "closed"]]
  /\ UNCHANGED <<tmp, dest, content, reader>>

\* The file is closed, after the last write or because something failed.
Close(s) ==
  /\ saver[s].pc = "writing"
  /\ \E pc \in {"closed", "failed"} :
       /\ pc = "closed" => saver[s].written = saver[s].len
       /\ saver' = [saver EXCEPT ![s] = [NotSaving EXCEPT !.pc = pc]]
  /\ UNCHANGED <<tmp, dest, content, reader>>

RemoveTmp(s) ==
  /\ saver[s].pc = "failed"
  /\ tmp' = NoFile
  /\ saver' = [saver EXCEPT ![s] = NotSaving]
  /\ UNCHANGED <<dest, content, reader>>

Rename_KeepsTmp(s) ==
  /\ saver[s].pc = "closed"
  /\ dest' = tmp
  /\ saver' = [saver EXCEPT ![s] = NotSaving]
  /\ UNCHANGED <<tmp, content, reader>>

\* os.Rename: an error, and nothing changed, when there is no temporary file.
Rename(s) ==
  /\ saver[s].pc = "closed"
  /\ IF tmp = NoFile THEN UNCHANGED <<tmp, dest>> ELSE dest' = tmp /\ tmp' = NoFile
  /\ saver' = [saver EXCEPT ![s] = NotSaving]
  /\ UNCHANGED <<content, reader>>

\* The last call fails: os.Remove, whose error is dropped, or os.Rename.  The
\* temporary file stays.
LastCallFails(s) ==
  /\ saver[s].pc \in {"failed", "closed"}
  /\ saver' = [saver EXCEPT ![s] = NotSaving]
  /\ UNCHANGED <<tmp, dest, content, reader>>

-------------------------------------------------------------------------------
(* Restore, Delete and the crash.                                          *)

Open(r) ==
  /\ reader[r].pc # "reading" /\ dest # NoFile
  /\ reader' = [reader EXCEPT ![r] = [pc |-> "reading", file |-> dest, last |-> Hole]]
  /\ UNCHANGED <<tmp, dest, content, saver>>

\* The chunk that follows "last" in an archive; the zstd decoder takes no other.
Follows(chunk, last) ==
  IF last = Hole THEN chunk.nr = 1
  ELSE chunk = [last EXCEPT !.nr = @ + 1]

\* One chunk is decoded and extracted, up to the archive's last.
Read(r) ==
  LET me == reader[r]  f == content[me.file]  i == me.last.nr + 1
      ok == i <= Len(f) /\ Follows(f[i], me.last)
  IN  /\ me.pc = "reading"
      /\ reader' = [reader EXCEPT ![r] =
           IF ~ok THEN [NotReading EXCEPT !.pc = "corrupt"]
           ELSE IF f[i].nr = f[i].of THEN [NotReading EXCEPT !.pc = "restored"]
           ELSE [me EXCEPT !.last = f[i]]]
      /\ UNCHANGED <<tmp, dest, content, saver>>

\* Writing to dstDir fails.
RestoreFails(r) ==
  /\ reader[r].pc = "reading"
  /\ reader' = [reader EXCEPT ![r] = NotReading]
  /\ UNCHANGED <<tmp, dest, content, saver>>

Delete ==
  /\ dest # NoFile /\ dest' = NoFile
  /\ UNCHANGED <<tmp, content, saver, reader>>

Crash ==
  /\ saver' = [s \in Savers |-> NotSaving]
  /\ reader' = [r \in Readers |-> NotReading]
  /\ UNCHANGED <<tmp, dest, content>>

-------------------------------------------------------------------------------

Next ==
  \/ \E s \in Savers : \/ Create(s) \/ NewWriterFails(s) \/ Write(s)
                       \/ Close(s) \/ RemoveTmp(s) \/ Rename(s) \/ LastCallFails(s)
  \/ \E r \in Readers : Open(r) \/ Read(r) \/ RestoreFails(r)
  \/ Delete \/ Crash

Spec == Init /\ [][Next]_vars

\* Callers that save one key once at a time.
OneSave    == \A s, t \in Savers : saver[s].pc # "idle" /\ saver[t].pc # "idle" => s = t
SerialSpec == Init /\ [][Next /\ OneSave']_vars

-------------------------------------------------------------------------------
(* Properties.                                                             *)

\* Types, of the names and of what the descriptors and files hold.
ArchiveTypeOK ==
  /\ tmp \in Files \cup {NoFile} /\ dest \in Files \cup {NoFile}
  /\ content \in [Files -> Seq(Chunks \cup {Hole})]
  /\ saver \in [Savers -> [pc : {"idle", "writing", "closed", "failed"},
                           file : Files \cup {NoFile},
                           len : 0..MaxChunks, written : 0..MaxChunks]]
  /\ \A s \in Savers : saver[s].pc = "writing" <=> saver[s].file # NoFile
  /\ reader \in [Readers -> [pc : {"idle", "reading", "corrupt", "restored"},
                             file : Files \cup {NoFile},
                             last : Chunks \cup {Hole}]]

\* persistence.go:58: "Write is atomic: the archive is first written to a temp
\* file and then renamed."  Whatever crashed or failed before, the file with
\* the key's name is one archive, from its first chunk to its last.
DestIsWhole == dest # NoFile => content[dest] \in Archives

\* A Restore that found an archive never meets a broken one, even when the
\* key is saved again or deleted while it reads.
NeverCorrupt == \A r \in Readers : reader[r].pc # "corrupt"

\* The key is an atomic register: whatever fails, and wherever the process
\* crashes, a Save takes effect at its rename or never, and what a Restore reads
\* is the archive that the key had when it was opened.
valueBar  == IF dest = NoFile THEN <<>> ELSE content[dest]
savingBar == [s \in Savers |->
  IF saver[s].pc = "writing" THEN Begun(s, saver[s].len, saver[s].len)
  ELSE IF saver[s].pc = "closed" THEN content[tmp] ELSE <<>>]
restoringBar == [r \in Readers |->
  [pc   |-> reader[r].pc,
   held |-> IF reader[r].pc = "reading" THEN content[reader[r].file] ELSE <<>>]]

Register == INSTANCE ArchiveRegister
  WITH value <- valueBar, saving <- savingBar, restoring <- restoringBar, NoArchive <- <<>>

ImplementsRegister == Register!Spec
===============================================================================
