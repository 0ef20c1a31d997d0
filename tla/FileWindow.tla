----------------------------- MODULE FileWindow -----------------------------
(***************************************************************************)
(* HalFile on an open descriptor: a whole file, or the window onto one     *)
(* entry of a container (HalFile::setWindow, openFileForRead).             *)
(*                                                                         *)
(* A file is the container's bytes, the descriptor's offset in them, and   *)
(* the window.  An operation gives the file it leaves and its result.      *)
(***************************************************************************)
EXTENDS Integers, Sequences

CONSTANT MaxOffset  \* the largest off_t

ASSUME OffsetAssumption == MaxOffset \in Nat

Opened(bytes) ==
  [bytes |-> bytes, offset |-> 0, windowed |-> FALSE, start |-> 0, length |-> 0,
   reads |-> TRUE, writes |-> FALSE, appends |-> FALSE]

(***************************************************************************)
(* openFileForWrite empties the file and reads it back through the same    *)
(* handle; openFileForAppend cannot be read, and writes at the end         *)
(* wherever it is sought to.                                               *)
(***************************************************************************)
OpenForWrite(bytes) == [Opened(<<>>) EXCEPT !.writes = TRUE]
OpenForAppend(bytes) == [Opened(bytes) EXCEPT !.reads = FALSE, !.writes = TRUE, !.appends = TRUE]
SizeOf(f) == IF f.windowed THEN f.length ELSE Len(f.bytes)
Position(f) ==
  LET pos == IF f.windowed THEN f.offset - f.start ELSE f.offset
  IN IF pos < 0 THEN 0 ELSE pos

Gives(f, result) == [file |-> f, result |-> result]
\* Beyond the end is allowed; what is beyond an off_t turns negative or overflows.
Lseek(f, offset) ==
  IF offset \in 0 .. MaxOffset THEN Gives([f EXCEPT !.offset = offset], TRUE) ELSE Gives(f, FALSE)

(***************************************************************************)
(* openFileForRead of an entry: the container must hold the entry whole.   *)
(***************************************************************************)
SetWindow(f, start, length) ==
  Lseek([f EXCEPT !.windowed = TRUE, !.start = start, !.length = length], start)
OpenEntry(bytes, start, length) ==
  IF start + length > Len(bytes) THEN Gives(Opened(<<>>), FALSE)
  ELSE SetWindow(Opened(bytes), start, length)

SeekSet(f, pos) ==
  IF f.windowed /\ pos > f.length THEN Gives(f, FALSE)
  ELSE Lseek(f, IF f.windowed THEN f.start + pos ELSE pos)
Seek64(f, pos) ==
  IF pos > IF f.windowed THEN f.length ELSE MaxOffset THEN Gives(f, FALSE) ELSE SeekSet(f, pos)
SeekCurOfDescriptor(f, by) == Lseek(f, f.offset + by)  \* mutant: the window is not looked at
SeekCur(f, by) ==
  IF ~f.windowed THEN Lseek(f, f.offset + by)
  ELSE IF Position(f) + by < 0 THEN Gives(f, FALSE) ELSE SeekSet(f, Position(f) + by)

Available(f) == SizeOf(f) - Position(f)

HostRead(f, count) ==
  LET got == SubSeq(f.bytes, f.offset + 1,
                    IF f.offset + count > Len(f.bytes) THEN Len(f.bytes) ELSE f.offset + count)
  IN IF f.reads THEN Gives([f EXCEPT !.offset = @ + Len(got)], got) ELSE Gives(f, <<>>)
Read(f, count) ==
  LET left == f.length - Position(f)
  IN IF ~f.windowed THEN HostRead(f, count)
     ELSE IF left <= 0 THEN Gives(f, <<>>)
     ELSE HostRead(f, IF count > left THEN left ELSE count)
ReadByte(f) ==
  IF f.windowed /\ Position(f) >= f.length THEN Gives(f, <<>>) ELSE HostRead(f, 1)

(***************************************************************************)
(* Writing: over what is there, after zeros where it was sought beyond the *)
(* end.  A windowed handle was opened for reading only.                    *)
(***************************************************************************)
Zero == 0
Resized(bytes, length) ==
  [i \in 1 .. length |-> IF i \in DOMAIN bytes THEN bytes[i] ELSE Zero]
Write(f, data) ==
  LET at == IF f.appends THEN Len(f.bytes) ELSE f.offset
      end == at + Len(data)
      room == Resized(f.bytes, IF end > Len(f.bytes) THEN end ELSE Len(f.bytes))
  IN IF ~f.writes \/ data = <<>> THEN Gives(f, 0)
     ELSE Gives([f EXCEPT !.offset = end,
                          !.bytes = [i \in DOMAIN room |->
                                       IF i \in at + 1 .. end THEN data[i - at] ELSE room[i]]],
                Len(data))
Truncate(f, length) ==
  IF f.writes THEN Gives([f EXCEPT !.bytes = Resized(f.bytes, length)], TRUE) ELSE Gives(f, FALSE)

(***************************************************************************)
(* getName: as much of the last part of the path as the buffer holds; a    *)
(* buffer of no bytes is written beyond.                                   *)
(***************************************************************************)
FileName(path, slash, len) ==
  LET cut == {i \in DOMAIN path : path[i] = slash}
      name == IF cut = {} THEN path
              ELSE SubSeq(path, 1 + CHOOSE i \in cut : \A j \in cut : j <= i, Len(path))
  IN SubSeq(name, 1, IF Len(name) < len - 1 THEN Len(name) ELSE len - 1)

(***************************************************************************)
(* modifiedStamp: the date and the time as FAT packs them, in 16 bits      *)
(* each; nothing before 1980, and after 2107 the year runs over.           *)
(***************************************************************************)
NoStamp == [date |-> 0, time |-> 0]
ModifiedStamp(tm) ==
  IF tm.year < 1980 THEN NoStamp
  ELSE [date |-> (512 * (tm.year - 1980) + 32 * tm.month + tm.day) % 65536,
        time |-> 2048 * tm.hour + 32 * tm.minute + tm.second \div 2]

(***************************************************************************)
(* HalStorage::readFileToBuffer and readFileToStream, on a whole file: at  *)
(* most one byte less than the buffer has, for the NUL; and all of it, in  *)
(* chunks.                                                                 *)
(***************************************************************************)
ReadFileToBuffer(bytes, bufferSize, maxBytes) ==
  LET room == bufferSize - 1
  IN Read(Opened(bytes), IF maxBytes > 0 /\ maxBytes < room THEN maxBytes ELSE room).result

ReadFileToStream(bytes, chunkSize) ==
  LET out[at \in 0 .. Len(bytes)] ==
        LET step == Read([Opened(bytes) EXCEPT !.offset = at], chunkSize)
        IN IF step.result = <<>> THEN <<>> ELSE step.result \o out[step.file.offset]
  IN out[0]
=============================================================================
