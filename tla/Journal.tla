------------------------------- MODULE Journal -------------------------------
(***************************************************************************)
(* journal_write and journal_read: records in numbered memory-mapped files *)
(* of fixed size, each headed by the number of bytes that count.  The      *)
(* writer may die between any two steps and start again; mapped pages      *)
(* outlive it.  Records are integers in the encoding of VarInt.  A journal *)
(* is read while nobody writes it, as the tests do.                        *)
(***************************************************************************)
EXTENDS VarInt

CONSTANTS
  Kind,       \* type of the records
  Value,      \* the records written
  Default,    \* what read() returns for lack of a record: T()
  MaxSize,    \* max_file_size
  FileMax,    \* bound: number of files the writer makes
  MayFail     \* whether opening the next file may fail

HeaderSize == 4
Byte == [stop : BOOLEAN, low : 0 .. 127]

\* What each record becomes, and how much room serialize_size asks for it.
Bytes == [v \in Value |-> Encode(Kind, v)]
Room == [v \in Value |-> SerializeSize(Kind, v)]

ASSUME JournalAssumption ==
  /\ MaxSize \in Nat /\ HeaderSize <= MaxSize /\ FileMax \in Nat \ {0} /\ MayFail \in BOOLEAN
  /\ \A v \in Value : Wrap(Kind, v) = v /\ Room[v] \in Nat
\* Each is read as what it was written from, and ends at its only stop bit.
ASSUME RecordAssumption ==
  \A v \in Value :
    /\ Bytes[v] \in Seq(Byte) /\ Bytes[v] # <<>>
    /\ Bytes[v][Len(Bytes[v])].stop
    /\ \A n \in 1 .. Len(Bytes[v]) - 1 : ~Bytes[v][n].stop
    /\ Decode(Kind, Bytes[v]) = v

VARIABLES
  disk,    \* the files that exist: [size, data], data without the zeros behind
  wpc, wfile, wnext, record,        \* journal_write: its step, file, next_file_id
  rpc, rfile, rpos, rnext, got      \* journal_read, and what its caller read

wvars == <<wpc, wfile, wnext, record>>
rvars == <<rpc, rfile, rpos, rnext, got>>
vars == <<disk, wvars, rvars>>

Exists(id) == id \in DOMAIN disk
Empty == [size |-> 0, data |-> <<>>]

\* mmapped_file::reset: the file is made if it is not there, and filled with
\* zeros up to its size.
Opened(id) == [n \in DOMAIN disk \cup {id} |-> IF Exists(n) THEN disk[n] ELSE Empty]

Blank == [stop |-> FALSE, low |-> 0]
ByteAt(f, n) == IF n <= Len(f.data) THEN f.data[n] ELSE Blank
Published(f) == [n \in 1 .. f.size |-> ByteAt(f, n)]

\* F[1] to F[N], one after the other.
InARow(F, N) ==
  LET upTo[n \in 0 .. N] == IF n = 0 THEN <<>> ELSE upTo[n - 1] \o F[n]
  IN  upTo[N]

\* The records in some bytes; Default stands for one that is not whole.
LastStop(s, n) == Max({0} \cup {k \in 1 .. n : s[k].stop})
RecordAt(s, n) ==
  IF s[n].stop THEN <<Decode(Kind, SubSeq(s, LastStop(s, n - 1) + 1, n))>> ELSE <<>>
Whole(s) == s = <<>> \/ s[Len(s)].stop
Records(s) ==
  InARow([n \in 1 .. Len(s) |-> RecordAt(s, n)], Len(s))
    \o (IF Whole(s) THEN <<>> ELSE <<Default>>)
LogOf(d) ==
  LET files == Cardinality(DOMAIN d)
  IN  InARow([id \in 1 .. files |-> Records(Published(d[id]))], files)
Log == LogOf(disk)

Init ==
  /\ disk = <<>>
  /\ wpc = "down" /\ wfile = 0 /\ wnext = 1 /\ record = Default
  /\ rpc = "none" /\ rfile = 0 /\ rpos = 0 /\ rnext = 1 /\ got = <<>>

-----------------------------------------------------------------------------
(* Writer.                                                                 *)

\* There is no writer any more.
Down == wpc' = "down" /\ wfile' = 0 /\ wnext' = 1 /\ record' = Default

\* A file of its own for each run of the writer: the first number, from 2
\* on, that is not taken, or 1 if there is no journal.
FindLastFileId == IF ~Exists(1) THEN 1 ELSE CHOOSE n \in 2 .. FileMax + 1 :
                    ~Exists(n) /\ \A k \in 2 .. n - 1 : Exists(k)

OpenWriter ==
  /\ wpc = "down" /\ rpc = "none"
  /\ FindLastFileId <= FileMax
  /\ disk' = Opened(FindLastFileId)
  /\ wfile' = FindLastFileId /\ wnext' = FindLastFileId + 1
  /\ wpc' = "idle"
  /\ UNCHANGED <<record, rvars>>

\* forgets the header
Fits_noHeader(v) == MaxSize - disk[wfile].size >= Room[v]
Fits(v) == MaxSize - disk[wfile].size - HeaderSize >= Room[v]

BeginWrite(v) ==
  /\ wpc = "idle" /\ (Fits(v) \/ wnext <= FileMax)
  /\ record' = v
  /\ wpc' = IF Fits(v) THEN "bytes" ELSE "roll"
  /\ UNCHANGED <<disk, wfile, wnext, rvars>>

\* Moves on to the next file; whether the record fits there is not asked.
Roll ==
  /\ wpc = "roll"
  /\ disk' = Opened(wnext)
  /\ wfile' = wnext /\ wnext' = wnext + 1
  /\ wpc' = "bytes"
  /\ UNCHANGED <<record, rvars>>

\* The next file cannot be opened or given its size: the result of reset()
\* is ignored, and the write that follows goes to no mapping.
RollFails ==
  /\ MayFail /\ wpc = "roll"
  /\ disk' \in {disk, Opened(wnext)}
  /\ Down
  /\ UNCHANGED rvars

\* publishes the size before the bytes
WriteBytes_sizeFirst ==
  /\ wpc = "bytes"
  /\ disk' = [disk EXCEPT ![wfile].size = @ + Len(Bytes[record])]
  /\ wpc' = "size"
  /\ UNCHANGED <<wfile, wnext, record, rvars>>
Left == MaxSize - HeaderSize - Len(disk[wfile].data)
WriteBytes ==
  /\ wpc = "bytes" /\ Len(Bytes[record]) <= Left
  /\ disk' = [disk EXCEPT ![wfile].data = @ \o Bytes[record]]
  /\ wpc' = "size"
  /\ UNCHANGED <<wfile, wnext, record, rvars>>

\* No room for the record: it goes past the end of the file and of its
\* mapping, which ends the process, at best.  Bound: nothing else it may do
\* there is followed.
Overrun ==
  /\ wpc = "bytes" /\ Len(Bytes[record]) > Left
  /\ disk' = [disk EXCEPT ![wfile].data = @ \o SubSeq(Bytes[record], 1, Left)]
  /\ wpc' = "overrun"
  /\ UNCHANGED <<wfile, wnext, record, rvars>>

WriteSize ==
  /\ wpc = "size"
  /\ disk' = [disk EXCEPT ![wfile].size = Len(disk[wfile].data)]
  /\ wpc' = "idle" /\ record' = Default
  /\ UNCHANGED <<wfile, wnext, rvars>>

\* _close, when the writer is destroyed.
CloseWriter ==
  /\ wpc = "idle" /\ Down
  /\ UNCHANGED <<disk, rvars>>

\* The process dies in the middle of a write.
Crash ==
  /\ wpc \in {"bytes", "roll", "size", "overrun"} /\ Down
  /\ UNCHANGED <<disk, rvars>>

-----------------------------------------------------------------------------
(* Reader.                                                                 *)

\* Opens file 1, and makes it if it is not there.
OpenReader ==
  /\ rpc = "none" /\ wpc = "down"
  /\ disk' = Opened(1)
  /\ rfile' = 1 /\ rpos' = 0 /\ rnext' = 2 /\ got' = <<>>
  /\ rpc' = "ask"
  /\ UNCHANGED wvars

Eof == rpos = disk[rfile].size

\* looks at the next number without taking it
NextFile_peek ==
  /\ UNCHANGED rnext
  /\ rfile' = IF Exists(rnext) THEN rnext ELSE rfile
  /\ rpos' = IF Exists(rnext) THEN 0 ELSE rpos
\* Takes the next number, and moves to that file if it exists.
NextFile ==
  /\ rnext' = rnext + 1
  /\ rfile' = IF Exists(rnext) THEN rnext ELSE rfile
  /\ rpos' = IF Exists(rnext) THEN 0 ELSE rpos

\* eoj() looks at the file it is in ...
AskEof ==
  /\ rpc = "ask"
  /\ rpc' = IF Eof THEN "askNext" ELSE "read"
  /\ UNCHANGED <<disk, wvars, rfile, rpos, rnext, got>>
\* ... and then for the next one, which may hold nothing.
AskNext ==
  /\ rpc = "askNext"
  /\ NextFile
  /\ rpc' = IF Exists(rnext) THEN "read" ELSE "done"
  /\ UNCHANGED <<disk, wvars, got>>

\* A caller that knows how many records there are does not ask.
ReadCounted ==
  /\ rpc = "ask" /\ Len(got) < Len(Log)
  /\ rpc' = "read"
  /\ UNCHANGED <<disk, wvars, rfile, rpos, rnext, got>>

\* read(), in a file that holds more ...
Rest == SubSeq(disk[rfile].data, rpos + 1, Len(disk[rfile].data))
Read ==
  /\ rpc = "read" /\ ~Eof
  /\ got' = Append(got, Decode(Kind, Rest))
  /\ rpos' = rpos + HeadLength(Rest)
  /\ rpc' = "ask"
  /\ UNCHANGED <<disk, wvars, rfile, rnext>>
\* ... or at its end, with the file after it, once or more.
ReadEof ==
  /\ rpc = "read" /\ Eof
  /\ rpc' = "readNext"
  /\ UNCHANGED <<disk, wvars, rfile, rpos, rnext, got>>
ReadNext ==
  /\ rpc = "readNext"
  /\ NextFile
  /\ IF Exists(rnext) THEN rpc' = "read" /\ UNCHANGED got
                      ELSE rpc' = "ask" /\ got' = Append(got, Default)
  /\ UNCHANGED <<disk, wvars>>

CloseReader ==
  /\ rpc \in {"ask", "done"}
  /\ rpc' = "none" /\ rfile' = 0 /\ rpos' = 0 /\ rnext' = 1 /\ got' = <<>>
  /\ UNCHANGED <<disk, wvars>>

-----------------------------------------------------------------------------
Writer ==
  \/ OpenWriter \/ (\E v \in Value : BeginWrite(v)) \/ Roll \/ RollFails
  \/ WriteBytes \/ Overrun \/ WriteSize \/ CloseWriter \/ Crash
Reader ==
  \/ OpenReader \/ AskEof \/ AskNext \/ ReadCounted \/ Read \/ ReadEof \/ ReadNext
  \/ CloseReader
Next == Writer \/ Reader
Spec == Init /\ [][Next]_vars

-----------------------------------------------------------------------------
(* Type invariant.                                                         *)
TypeOK ==
  /\ DOMAIN disk = 1 .. Cardinality(DOMAIN disk)
  /\ \A id \in DOMAIN disk : disk[id].size \in 0 .. Len(disk[id].data)
  /\ wpc \in {"down", "idle", "roll", "bytes", "size", "overrun"}
  /\ wfile \in 0 .. FileMax /\ wnext \in 1 .. FileMax + 1 /\ record \in Value \cup {Default}
  /\ rpc \in {"none", "ask", "askNext", "read", "readNext", "done"}
  /\ got \in Seq(Value \cup {Default})

(* A record is written past the end of its file only if serialize_size    *)
(* answers too little for it, or if it is longer than a whole file: the    *)
(* header, what a file already holds and what an earlier writer left       *)
(* behind are all accounted for, though a record goes into a new file      *)
(* without another look.                                                   *)
Underestimated(v) == Room[v] < Len(Bytes[v])
TooLong(v) == Len(Bytes[v]) > MaxSize - HeaderSize
OverrunExplained ==
  /\ TypeOK
  /\ \A id \in DOMAIN disk : HeaderSize + Len(disk[id].data) <= MaxSize
  /\ wpc = "overrun" => Underestimated(record) \/ TooLong(record)

(* What the files decode to, in the order of their numbers, only grows, by *)
(* one whole record: a writer that dies in the middle of a write leaves no *)
(* half of a record, and one that starts again takes nothing away.         *)
JournalLog == INSTANCE AppendLog WITH log <- Log
RefinesLog == JournalLog!Spec

(* A reader gets what was written, in order, across files, and eoj() tells *)
(* it the end only when it has it all: test_fuzz (test_journal.cpp).  It   *)
(* may get one value more, that nobody wrote, only where the last file is  *)
(* empty.                                                                  *)
ReadsWhatWasWritten ==
  LET log == Log
  IN  /\ IsPrefix(got, log) \/ got = Append(log, Default)
      /\ rpc = "done" => IsPrefix(log, got)
      /\ Default \in ToSet(got) => disk[Cardinality(DOMAIN disk)].size = 0
=============================================================================
