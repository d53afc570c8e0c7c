------------------------------- MODULE Files -------------------------------
(***************************************************************************)
(* file_writer, file_reader and file (io/writer/file.h, io/reader/file.h,  *)
(* io/file.h) over the streams of stdio, and write_from into a string      *)
(* (io/writer/writer.h, io/writer/string.cc).  A stream for writing keeps  *)
(* what is written until it is flushed.  Every call of stdio may fail; a   *)
(* contract that is violated aborts, as where contracts are evaluated.     *)
(***************************************************************************)
EXTENDS Naturals, Sequences

CONSTANTS
    Paths, Bytes, Zero,
    Writers, Readers, Handles,  \* objects of the three types
    Null,                       \* a null std::FILE*; an object that is not there
    MaxStreams, MaxLength       \* bounds

VARIABLES
    disk,       \* what the files hold; <<>> at first
    streams,    \* what fopen opened: path, position, buffer, whether it is open
    writer,     \* file_ of each file_writer
    reader,     \* file_ of each file_reader
    handle,     \* file_ptr_ of each file
    string,     \* s_ of a string_writer
    reserved,   \* <<>>, or what write_from reserved and did not read yet
    accepted,   \* history: of each stream, what write said is written
    got,        \* history: of each stream, what was read, since its start
    spoiled,    \* history: files that two streams opened, one of them for writing
    faulty,     \* history: streams of which a call of stdio failed
    aborted     \* the process was aborted

histories == <<accepted, got, spoiled, faulty>>
objects == <<writer, reader, handle>>
vars == <<disk, streams, objects, string, reserved, histories, aborted>>

Init ==
    /\ disk = [p \in Paths |-> <<>>]
    /\ streams = <<>>
    /\ writer = [w \in Writers |-> Null]
    /\ reader = [r \in Readers |-> Null]
    /\ handle = [h \in Handles |-> Null]
    /\ string = <<>> /\ reserved = <<>>
    /\ accepted = <<>> /\ got = <<>> /\ spoiled = {} /\ faulty = {} /\ aborted = FALSE

-----------------------------------------------------------------------------
\* stdio.

Streams == DOMAIN streams
Least(a, b) == IF a < b THEN a ELSE b

\* fopen may fail, and then nothing changes; "wb" truncates.
Fopen(path, writing) ==
    /\ Len(streams) < MaxStreams
    /\ streams' = Append(streams, [path |-> path, pos |-> 0, buffer |-> <<>>, open |-> TRUE,
                                   writing |-> writing])
    /\ accepted' = Append(accepted, <<>>) /\ got' = Append(got, <<>>)
    /\ disk' = IF writing THEN [disk EXCEPT ![path] = <<>>] ELSE disk
    /\ spoiled' = IF \E s \in Streams : streams[s].path = path /\ streams[s].open
                                        /\ (writing \/ streams[s].writing)
                    THEN spoiled \cup {path} ELSE spoiled
    /\ UNCHANGED <<string, reserved, faulty, aborted>>
Opened == Len(streams) + 1

\* The contents of a file after a stream wrote its buffer at its position; an
\* empty buffer is not written, wherever that is.
Overwritten(contents, pos, data) ==
    IF data = <<>> THEN contents ELSE
    [i \in 1 .. (IF pos + Len(data) > Len(contents) THEN pos + Len(data) ELSE Len(contents)) |->
       IF i \in pos + 1 .. pos + Len(data) THEN data[i - pos]
       ELSE IF i <= Len(contents) THEN contents[i] ELSE Zero]

\* Mutant of After: the position stays.
AfterInPlace(s, n, left, open) == [streams[s] EXCEPT !.buffer = left, !.open = open]

\* A stream whose first n bytes were written, and which keeps those left.
After(s, n, left, open) ==
    [path |-> streams[s].path, pos |-> streams[s].pos + n, buffer |-> left, open |-> open,
     writing |-> streams[s].writing]

\* fflush and fclose: the buffer is written.  If that fails some of it may be,
\* and what is not may be kept for another try; fclose closes the stream then too.
WritesOut(s, open, okay) ==
    LET buffer == streams[s].buffer
    IN  \E n \in 0 .. Len(buffer) : \E left \in {<<>>, SubSeq(buffer, n + 1, Len(buffer))} :
          /\ okay => n = Len(buffer)
          /\ open \/ left = <<>>
          /\ disk' = [disk EXCEPT ![streams[s].path] =
                        Overwritten(@, streams[s].pos, SubSeq(buffer, 1, n))]
          /\ streams' = [streams EXCEPT ![s] = After(s, n, left, open)]
          /\ faulty' = IF okay THEN faulty ELSE faulty \cup {s}

Abort == aborted' = TRUE /\ UNCHANGED <<disk, streams, objects, string, reserved, histories>>

-----------------------------------------------------------------------------
OpenWriter(w, path) ==
    /\ writer[w] = Null
    /\ Fopen(path, TRUE)
    /\ writer' = [writer EXCEPT ![w] = Opened]
    /\ UNCHANGED <<reader, handle>>

\* write: fwrite may take less than it is given.
Write(w, data) ==
    /\ writer[w] # Null /\ Len(accepted[writer[w]]) + Len(data) <= MaxLength
    /\ \E n \in 0 .. Len(data) :
         LET taken == SubSeq(data, 1, n)
         IN  /\ streams' = [streams EXCEPT ![writer[w]].buffer = @ \o taken]
             /\ accepted' = [accepted EXCEPT ![writer[w]] = @ \o taken]
    /\ UNCHANGED <<disk, objects, string, reserved, got, spoiled, faulty, aborted>>

\* Nobody is told whether it failed.
Flush(w) ==
    /\ writer[w] # Null
    /\ \E okay \in BOOLEAN : WritesOut(writer[w], TRUE, okay)
    /\ UNCHANGED <<objects, string, reserved, accepted, got, spoiled, aborted>>

\* A writer whose stream cannot be closed aborts the process.
DestroyWriter(w) ==
    /\ writer[w] # Null
    /\ \E okay \in BOOLEAN :
         /\ WritesOut(writer[w], FALSE, okay)
         /\ writer' = IF okay THEN [writer EXCEPT ![w] = Null] ELSE writer
         /\ aborted' = ~okay
    /\ UNCHANGED <<reader, handle, string, reserved, accepted, got, spoiled>>

\* Move construction and assignment, perhaps from a writer that was moved from;
\* what the target had is not closed.
MoveWriter(w, from) ==
    /\ w # from
    /\ writer' = [writer EXCEPT ![w] = writer[from], ![from] = Null]
    /\ UNCHANGED <<disk, streams, reader, handle, string, reserved, histories, aborted>>

-----------------------------------------------------------------------------
OpenReader(r, path) ==
    /\ reader[r] = Null
    /\ Fopen(path, FALSE)
    /\ reader' = [reader EXCEPT ![r] = Opened]
    /\ UNCHANGED <<writer, handle>>

\* A reader is copied, and then two of them read one stream, which neither closes.
CopyReader(r, from) ==
    /\ reader[from] # Null /\ \A i \in DOMAIN reserved : reserved[i].reader # r
    /\ reader' = [reader EXCEPT ![r] = reader[from]]
    /\ UNCHANGED <<disk, streams, writer, handle, string, reserved, histories, aborted>>

\* fread: as much as there is of what is asked for, or less, and that is a failure.
Fread(s, size) ==
    LET Coming(n) == SubSeq(disk[streams[s].path], streams[s].pos + 1,
                            Least(Len(disk[streams[s].path]), streams[s].pos + n))
    IN  \E n \in 0 .. size :
          /\ streams' = [streams EXCEPT ![s].pos = @ + Len(Coming(n))]
          /\ got' = [got EXCEPT ![s] = @ \o Coming(n)]
          /\ faulty' = IF Coming(n) = Coming(size) THEN faulty ELSE faulty \cup {s}

\* write_from is one call: meanwhile nobody else reads its reader's stream.
Read(r, size) ==
    /\ reader[r] # Null /\ \A i \in DOMAIN reserved : reader[reserved[i].reader] # reader[r]
    /\ Fread(reader[r], size)
    /\ UNCHANGED <<disk, objects, string, reserved, accepted, spoiled, aborted>>

\* bytes_remaining goes to the end and back.  Should the file have become
\* shorter, the difference wraps around; no string can be that long.
Remaining(s) == Len(disk[streams[s].path]) - streams[s].pos

\* write_from into a string: reserve, then read into it; a reader that is not
\* the only user of the file may find less than was there.
Reserve(r) ==
    /\ reader[r] # Null /\ reserved = <<>>
    /\ streams[reader[r]].pos <= Len(disk[streams[reader[r]].path])
    /\ \/ LET n == Remaining(reader[r])
          IN  /\ Len(string) + n <= MaxLength
              /\ reserved' = <<[reader |-> r, at |-> Len(string), size |-> n]>>
              /\ string' = string \o [i \in 1 .. n |-> Zero]
              /\ UNCHANGED <<disk, streams, objects, histories, aborted>>
       \/ Abort     \* fseek failed

ReadReserved ==
    /\ reserved # <<>>
    /\ LET s == reader[Head(reserved).reader]
       IN  /\ Fread(s, Head(reserved).size)
           /\ string' = Overwritten(string, Head(reserved).at,
                                    SubSeq(got'[s], Len(got[s]) + 1, Len(got'[s])))
    /\ reserved' = <<>>
    /\ UNCHANGED <<disk, objects, accepted, spoiled, aborted>>

-----------------------------------------------------------------------------
\* file: it must be closed before it is destroyed or assigned to.
OpenFile(h, path) ==
    /\ handle[h] = Null
    /\ Fopen(path, FALSE)
    /\ handle' = [handle EXCEPT ![h] = Opened]
    /\ UNCHANGED <<writer, reader>>

ReadInto(h, size) ==
    /\ handle[h] # Null /\ streams[handle[h]].open
    /\ Fread(handle[h], size)
    /\ UNCHANGED <<disk, objects, string, reserved, accepted, spoiled, aborted>>

Rewind(h) ==
    /\ handle[h] # Null /\ streams[handle[h]].open
    /\ streams' = [streams EXCEPT ![handle[h]].pos = 0]
    /\ got' = [got EXCEPT ![handle[h]] = <<>>]
    /\ UNCHANGED <<disk, objects, string, reserved, accepted, spoiled, faulty, aborted>>

\* size() comes back to where it was, and nothing changes; but if that fails it
\* stays at the end.
SizeStays(h) ==
    /\ handle[h] # Null /\ streams[handle[h]].open
    /\ streams' = [streams EXCEPT ![handle[h]].pos = Len(disk[streams[handle[h]].path])]
    /\ faulty' = faulty \cup {handle[h]}
    /\ UNCHANGED <<disk, objects, string, reserved, accepted, got, spoiled, aborted>>

\* If fclose fails the handle stays set, to a stream that is closed.
Close(h) ==
    /\ handle[h] # Null /\ streams[handle[h]].open
    /\ \E okay \in BOOLEAN :
         /\ WritesOut(handle[h], FALSE, okay)
         /\ handle' = IF okay THEN [handle EXCEPT ![h] = Null] ELSE handle
    /\ UNCHANGED <<writer, reader, string, reserved, accepted, got, spoiled, aborted>>

\* Move construction and assignment; the source is left without a file.
MoveFile(h, from) ==
    \/ handle[h] # Null /\ Abort
    \/ /\ handle[h] = Null
       /\ handle' = [handle EXCEPT ![h] = handle[from], ![from] = Null]
       /\ UNCHANGED <<disk, streams, writer, reader, string, reserved, histories, aborted>>

\* The destructor, which does nothing to a file that was closed.
DestroyFile(h) == handle[h] # Null /\ Abort

Next ==
    /\ ~aborted
    /\ \/ \E w \in Writers :
            \/ \E path \in Paths : OpenWriter(w, path)
            \/ \E b \in Bytes : Write(w, <<b>>) \/ Write(w, <<b, b>>)
            \/ Flush(w) \/ DestroyWriter(w)
            \/ \E from \in Writers : MoveWriter(w, from)
       \/ \E r \in Readers :
            \/ \E path \in Paths : OpenReader(r, path)
            \/ \E from \in Readers : CopyReader(r, from)
            \/ \E size \in 1 .. MaxLength : Read(r, size)
            \/ Reserve(r)
       \/ ReadReserved
       \/ \E h \in Handles :
            \/ \E path \in Paths : OpenFile(h, path)
            \/ \E size \in 1 .. MaxLength : ReadInto(h, size)
            \/ Rewind(h) \/ SizeStays(h) \/ Close(h) \/ DestroyFile(h)
            \/ \E from \in Handles : MoveFile(h, from)
Spec == Init /\ [][Next]_vars

-----------------------------------------------------------------------------
\* A file that only one stream at a time is open for, if any writes it, and
\* that was not opened again since to be written anew.
Undisturbed(s) ==
    /\ streams[s].path \notin spoiled
    /\ \A later \in s + 1 .. Len(streams) :
          streams[later].path = streams[s].path => ~ streams[later].writing

\* No call failed of a stream that was read.
ReadsWell == \A s \in faulty : streams[s].writing

\* As long as no call of stdio failed of its stream, what a writer said is
\* written is in the file when the writer is destroyed, and until then in its
\* buffer or in the file, in order (file.cc of writer/), and what is read is what
\* the file holds from its start (file.cc of reader/ and io/).  No stream has two
\* writers, two files, or a file and a reader; what they have is open, unless the
\* process was aborted or the file's close failed; a string has no byte that was
\* reserved and not read.
FilesExact ==
    /\ \A s \in Streams \ faulty : Undisturbed(s) =>
         LET contents == disk[streams[s].path]
         IN  IF streams[s].writing
               THEN accepted[s] = contents \o streams[s].buffer
               ELSE got[s] = SubSeq(contents, 1, streams[s].pos)
    /\ \A w, v \in Writers : w # v /\ writer[w] # Null => writer[w] # writer[v]
    /\ \A g, h \in Handles : g # h /\ handle[g] # Null => handle[g] # handle[h]
    /\ \A h \in Handles, r \in Readers : handle[h] # Null => handle[h] # reader[r]
    /\ \A w \in Writers : writer[w] # Null => streams[writer[w]].open \/ aborted
    /\ \A r \in Readers : reader[r] # Null => streams[reader[r]].open
    /\ \A h \in Handles : handle[h] # Null => streams[handle[h]].open \/ handle[h] \in faulty
    /\ spoiled = {} /\ ReadsWell /\ reserved = <<>> => \A i \in DOMAIN string : string[i] # Zero
=============================================================================
