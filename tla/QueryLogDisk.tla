---------------------------- MODULE QueryLogDisk ----------------------------
(***************************************************************************)
(* The query log (rustydnsd/src/query_log.rs and query_log_disk.rs): the   *)
(* in-memory ring, the bounded channel to the disk writer, the writer's    *)
(* batches and its size-based rotation, its shutdown, crashes and restarts.*)
(*                                                                         *)
(* An entry is its number and one unit of size.  The directory maps the    *)
(* name 0 (path) and n > 0 (path.n) to the lines of that file; `handle' is *)
(* the name the open file has now.  Every file-system call is a step, so a *)
(* crash can fall between any two of them.                                 *)
(***************************************************************************)
EXTENDS Naturals, Sequences

CONSTANTS
    RingSize,       \* query_log_ring_size
    ChannelCap,     \* CHANNEL_CAPACITY
    MaxFileSize,    \* query_log_max_file_bytes, in entries
    BufferSize,     \* capacity of the BufWriter, in entries
    MaxFiles,       \* the values query_log_max_files may be given
    FaultSets,      \* what may go wrong: sets of "data", "rename" and "open"
                    \* calls that fail, and "edit" of query_log_max_files
    MaxEntries,     \* bound: queries recorded
    MaxRestarts,    \* bound: restarts
    Absent,         \* no such file
    Unlinked,       \* the open file has no name any more
    Nothing         \* no entry in hand

Names == 0..(CHOOSE m \in MaxFiles : \A n \in MaxFiles : n <= m)

ASSUME QueryLogAssumption ==
    /\ RingSize \in Nat
    /\ ChannelCap \in Nat \ {0}
    /\ MaxFileSize \in Nat \ {0}
    /\ BufferSize \in Nat \ {0}
    /\ MaxFiles \subseteq Nat \ {0} /\ \E m \in MaxFiles : \A n \in MaxFiles : n <= m
    /\ \A f \in FaultSets : f \subseteq {"data", "rename", "open", "edit"}
    /\ MaxEntries \in Nat
    /\ MaxRestarts \in Nat
    /\ Absent \notin Seq(1..MaxEntries) /\ Unlinked \notin Nat /\ Nothing \notin Nat

VARIABLES
    ring,           \* QueryLog::inner
    channel,        \* the mpsc channel, oldest first
    next, first,    \* number of the next entry, and of this run's first one
    dropped, written, failed, rotations,    \* the disk counters of this run
    pc, mode, hand, \* the writer task: where it is, why, and its entry
    shift,          \* the backup that rotate moves next
    buffer,         \* lines in the BufWriter
    curSize,        \* Writer::cur_size
    handle,         \* the name of the file behind Writer::out
    dir,            \* the directory
    maxFiles,       \* query_log_max_files of this run
    faults,         \* which faults this behaviour may meet
    process,        \* "up", "stopping" once shutdown is cancelled, "gone"
    restarts,
    flushed,        \* history: every line that reached a file, in order
    owed,           \* history: entries accepted before the cancellation
    lost,           \* history: entries that a failed flush or write lost
    misflushed,     \* history: flushes of this run that failed and were counted
    skipped,        \* history: rotations given up
    widest          \* history: the largest query_log_max_files so far

counters == <<dropped, written, failed, rotations, misflushed>>
writerVars == <<pc, mode, hand, shift>>
fileVars == <<buffer, curSize, handle, dir, flushed>>
lifeVars == <<maxFiles, faults, process, restarts, owed, widest>>
vars == <<ring, channel, next, first, counters, writerVars, fileVars, lifeVars,
          lost, skipped>>

Elems(s) == {s[i] : i \in 1..Len(s)}

-----------------------------------------------------------------------------
(* Files. *)

\* rename(from, to): the open file keeps its contents under its new name, or
\* without one when it is replaced.
Renamed(d, from, to) == [d EXCEPT ![to] = d[from], ![from] = Absent]
HandleAfterRename(from, to) ==
    IF handle = from THEN to ELSE IF handle = to THEN Unlinked ELSE handle
HandleAfterRemove(n) == IF handle = n THEN Unlinked ELSE handle

\* The lines of s are appended to the open file.
Appended(s) ==
    IF handle = Unlinked THEN dir ELSE [dir EXCEPT ![handle] = @ \o s]

\* out.flush(): the buffer reaches the file, or the call fails, and then the
\* buffered lines are either kept for the next flush or gone with the error
\* (tokio's File has already taken them).
FlushOk ==
    /\ dir' = Appended(buffer)
    /\ flushed' = flushed \o buffer
    /\ buffer' = <<>>
    /\ UNCHANGED lost
FlushLoses ==
    /\ "data" \in faults
    /\ buffer # <<>>
    /\ buffer' = <<>>
    /\ lost' = lost \cup Elems(buffer)
    /\ UNCHANGED <<dir, flushed>>
FlushFails ==
    \/ FlushLoses
    \/ "data" \in faults /\ buffer # <<>> /\ UNCHANGED <<buffer, lost, dir, flushed>>

\* Writer::flush: an error counts as an I/O error.
Flush(fails) ==
    \/ FlushOk /\ UNCHANGED <<failed, misflushed>>
    \/ fails /\ failed' = failed + 1 /\ misflushed' = misflushed + 1

-----------------------------------------------------------------------------
Init ==
    /\ ring = <<>>
    /\ channel = <<>>
    /\ next = 1 /\ first = 1
    /\ dropped = 0 /\ written = 0 /\ failed = 0 /\ rotations = 0
    /\ pc = "select" /\ mode = "batch" /\ hand = Nothing /\ shift = 0
    /\ maxFiles \in MaxFiles /\ widest = maxFiles
    /\ faults \in FaultSets
    /\ dir = [n \in Names |-> IF n = 0 THEN <<>> ELSE Absent]
    /\ handle = 0
    /\ curSize = 0
    /\ buffer = <<>>
    /\ process = "up"
    /\ restarts = 0
    /\ flushed = <<>> /\ owed = {} /\ lost = {} /\ skipped = 0 /\ misflushed = 0

\* The in-memory ring evicts its oldest entry when it is full.
RingAfter(r, e) ==
    IF RingSize = 0 THEN r
    ELSE Append(IF Len(r) = RingSize THEN Tail(r) ELSE r, e)

\* QueryLog::record: try_send fails when the channel is full and when the
\* writer has dropped its end; both count as dropped.
Record ==
    /\ process # "gone" /\ next <= MaxEntries
    /\ next' = next + 1
    /\ ring' = RingAfter(ring, next)
    /\ IF pc = "stopped" \/ Len(channel) = ChannelCap
         THEN dropped' = dropped + 1 /\ UNCHANGED channel
         ELSE channel' = Append(channel, next) /\ UNCHANGED dropped
    /\ UNCHANGED <<first, written, failed, rotations, misflushed, writerVars, fileVars,
                   lifeVars, lost, skipped>>

-----------------------------------------------------------------------------
(* Writer::run. *)

Running(where) == process # "gone" /\ pc = where

\* The head of the channel is received.
Receive(m) ==
    /\ channel # <<>>
    /\ hand' = Head(channel)
    /\ channel' = Tail(channel)
    /\ pc' = "entry" /\ mode' = m
    /\ UNCHANGED <<ring, next, first, counters, shift, fileVars, lifeVars, lost, skipped>>

\* select!: an entry is ready ...
SelectEntry == Running("select") /\ Receive("batch")

\* Mutant: the writer stops at once, without draining the channel.
SelectShutdown_noDrain ==
    /\ Running("select")
    /\ process = "stopping"
    /\ pc' = "final" /\ mode' = "drain"
    /\ UNCHANGED <<ring, channel, next, first, counters, hand, shift, fileVars,
                   lifeVars, lost, skipped>>

\* ... or shutdown was cancelled; with both ready either is taken.
SelectShutdown ==
    /\ Running("select")
    /\ process = "stopping"
    /\ pc' = "drain" /\ mode' = "drain"
    /\ UNCHANGED <<ring, channel, next, first, counters, hand, shift, fileVars,
                   lifeVars, lost, skipped>>

\* try_recv, in a batch or while draining.
DrainNext == Running("drain") /\ Receive(mode)

\* The channel is empty: the batch is flushed once.
EndBatch ==
    /\ Running("drain")
    /\ channel = <<>>
    /\ Flush(FlushFails)
    /\ pc' = IF mode = "drain" THEN "final" ELSE "select"
    /\ UNCHANGED <<ring, channel, next, first, dropped, written, rotations, mode, hand,
                   shift, curSize, handle, lifeVars, skipped>>

\* The last flush; then the receiver is dropped, with what came in meanwhile.
Stop ==
    /\ Running("final")
    /\ Flush(FlushLoses)
    /\ pc' = "stopped"
    /\ channel' = <<>>
    /\ UNCHANGED <<ring, next, first, dropped, written, rotations, mode, hand, shift,
                   curSize, handle, lifeVars, skipped>>

-----------------------------------------------------------------------------
(* write_entry and rotate. *)

MustRotate == curSize + 1 > MaxFileSize /\ curSize > 0

\* The size check, and the flush that rotate starts with; when that fails the
\* rotation is skipped, and no error counted.
BeginEntry ==
    /\ Running("entry")
    /\ \/ ~MustRotate /\ pc' = "write" /\ UNCHANGED <<dir, flushed, buffer, lost, skipped>>
       \/ MustRotate /\ FlushOk /\ pc' = "remove" /\ UNCHANGED skipped
       \/ MustRotate /\ FlushFails /\ pc' = "write" /\ skipped' = skipped + 1
    /\ UNCHANGED <<ring, channel, next, first, counters, mode, hand, shift, curSize,
                   handle, lifeVars>>

\* Mutant: one backup too many is kept.
RemoveOldest_offByOne ==
    /\ Running("remove")
    /\ pc' = "shift"
    /\ IF maxFiles >= 2
         THEN /\ dir' = [dir EXCEPT ![maxFiles] = Absent]
              /\ handle' = HandleAfterRemove(maxFiles)
              /\ shift' = maxFiles - 1
         ELSE shift' = 0 /\ UNCHANGED <<dir, handle>>
    /\ UNCHANGED <<ring, channel, next, first, counters, mode, hand, buffer, curSize,
                   flushed, lifeVars, lost, skipped>>

\* path.{max_files - 1} goes; with one file this is path.0, which nobody has.
RemoveOldest ==
    /\ Running("remove")
    /\ pc' = "shift"
    /\ IF maxFiles >= 2
         THEN /\ dir' = [dir EXCEPT ![maxFiles - 1] = Absent]
              /\ handle' = HandleAfterRemove(maxFiles - 1)
              /\ shift' = maxFiles - 2
         ELSE shift' = 0 /\ UNCHANGED <<dir, handle>>
    /\ UNCHANGED <<ring, channel, next, first, counters, mode, hand, buffer, curSize,
                   flushed, lifeVars, lost, skipped>>

\* path.n -> path.{n+1}, from the oldest down; a failure is only logged.
ShiftBackup ==
    /\ Running("shift")
    /\ shift >= 1
    /\ \/ /\ dir[shift] # Absent
          /\ dir' = Renamed(dir, shift, shift + 1)
          /\ handle' = HandleAfterRename(shift, shift + 1)
       \/ /\ dir[shift] = Absent \/ "rename" \in faults
          /\ UNCHANGED <<dir, handle>>
    /\ shift' = shift - 1
    /\ UNCHANGED <<ring, channel, next, first, counters, pc, mode, hand, buffer,
                   curSize, flushed, lifeVars, lost, skipped>>

\* path -> path.1, or path is removed when no history is kept.  A failed
\* rename skips the rest; a failed removal is ignored, and the old file is
\* opened again as if it were fresh.
RetireBase ==
    /\ Running("shift")
    /\ shift = 0
    /\ \/ /\ maxFiles >= 2 /\ dir[0] # Absent
          /\ dir' = Renamed(dir, 0, 1)
          /\ handle' = HandleAfterRename(0, 1)
          /\ pc' = "open"
          /\ UNCHANGED skipped
       \/ /\ maxFiles >= 2
          /\ dir[0] = Absent \/ "rename" \in faults
          /\ pc' = "write"
          /\ skipped' = skipped + 1
          /\ UNCHANGED <<dir, handle>>
       \/ /\ maxFiles = 1
          /\ dir' = [dir EXCEPT ![0] = Absent]
          /\ handle' = HandleAfterRemove(0)
          /\ pc' = "open"
          /\ UNCHANGED skipped
       \/ /\ maxFiles = 1 /\ "rename" \in faults
          /\ pc' = "open"
          /\ skipped' = skipped + 1
          /\ UNCHANGED <<dir, handle>>
    /\ UNCHANGED <<ring, channel, next, first, counters, mode, hand, shift, buffer,
                   curSize, flushed, lifeVars, lost>>

\* Mutant: the file is truncated when it is opened.
Opened_truncates(d) == [d EXCEPT ![0] = <<>>]

\* Created when absent, opened for append otherwise.
Opened(d) == [d EXCEPT ![0] = IF @ = Absent THEN <<>> ELSE @]

\* A fresh active file, or the old handle is kept.
Reopen ==
    /\ Running("open")
    /\ \/ /\ dir' = Opened(dir)
          /\ handle' = 0
          /\ curSize' = 0
          /\ rotations' = rotations + 1
          /\ UNCHANGED skipped
       \/ /\ "open" \in faults
          /\ skipped' = skipped + 1
          /\ UNCHANGED <<dir, handle, curSize, rotations>>
    /\ pc' = "write"
    /\ UNCHANGED <<ring, channel, next, first, dropped, written, failed, misflushed, mode, hand,
                   shift, buffer, flushed, lifeVars, lost>>

\* write_all: into the buffer, which is emptied into the file when it is full;
\* only that can fail, and then the line is not written.
WriteLine ==
    /\ Running("write")
    /\ \/ /\ Len(buffer) < BufferSize
          /\ buffer' = Append(buffer, hand)
          /\ curSize' = curSize + 1
          /\ written' = written + 1
          /\ UNCHANGED <<dir, flushed, failed, lost>>
       \/ /\ Len(buffer) = BufferSize
          /\ dir' = Appended(buffer)
          /\ flushed' = flushed \o buffer
          /\ buffer' = <<hand>>
          /\ curSize' = curSize + 1
          /\ written' = written + 1
          /\ UNCHANGED <<failed, lost>>
       \/ /\ Len(buffer) = BufferSize
          /\ "data" \in faults
          /\ failed' = failed + 1
          /\ lost' = lost \cup {hand}
          /\ UNCHANGED <<dir, flushed, buffer, curSize, written>>
    /\ pc' = "drain"
    /\ hand' = Nothing
    /\ UNCHANGED <<ring, channel, next, first, dropped, rotations, misflushed, mode, shift,
                   handle, lifeVars, skipped>>

-----------------------------------------------------------------------------
(* The process. *)

InFlight == Elems(channel) \cup Elems(buffer) \cup ({hand} \ {Nothing})

\* main: shutdown.cancel().
Cancel ==
    /\ process = "up"
    /\ process' = "stopping"
    /\ owed' = InFlight
    /\ UNCHANGED <<ring, channel, next, first, counters, writerVars, fileVars, maxFiles,
                   faults, restarts, widest, lost, skipped>>

\* main returns once the listeners are drained; nothing waits for the writer.
Exit ==
    /\ process = "stopping"
    /\ process' = "gone"
    /\ UNCHANGED <<ring, channel, next, first, counters, writerVars, fileVars, maxFiles,
                   faults, restarts, owed, widest, lost, skipped>>

\* A crash at any point, or a start after an exit; spawn opens the file and
\* takes its length.  query_log_max_files may have been edited.
Restart ==
    /\ restarts < MaxRestarts
    /\ restarts' = restarts + 1
    /\ maxFiles' \in IF "edit" \in faults THEN MaxFiles ELSE {maxFiles}
    /\ widest' = IF maxFiles' > widest THEN maxFiles' ELSE widest
    /\ process' = "up"
    /\ dir' = Opened(dir)
    /\ handle' = 0
    /\ curSize' = Len(dir'[0])
    /\ buffer' = <<>> /\ ring' = <<>> /\ channel' = <<>>
    /\ first' = next
    /\ dropped' = 0 /\ written' = 0 /\ failed' = 0 /\ rotations' = 0
    /\ misflushed' = 0
    /\ pc' = "select" /\ mode' = "batch" /\ hand' = Nothing /\ shift' = 0
    /\ owed' = {}
    /\ UNCHANGED <<next, faults, flushed, lost, skipped>>

WriterStep ==
    \/ SelectEntry \/ SelectShutdown \/ DrainNext \/ EndBatch \/ Stop
    \/ BeginEntry \/ RemoveOldest \/ ShiftBackup \/ RetireBase \/ Reopen
    \/ WriteLine

Next == Record \/ WriterStep \/ Cancel \/ Exit \/ Restart

Spec == Init /\ [][Next]_vars

-----------------------------------------------------------------------------
(* Properties. *)

Numbers == 1..MaxEntries

\* Type invariant; the ring and the channel stay within their capacities.
TypeOK ==
    /\ ring \in Seq(Numbers) /\ Len(ring) <= RingSize
    /\ channel \in Seq(Numbers) /\ Len(channel) <= ChannelCap
    /\ next \in 1..(MaxEntries + 1) /\ first \in 1..next
    /\ dropped \in Nat /\ written \in Nat /\ failed \in Nat /\ rotations \in Nat
    /\ pc \in {"select", "drain", "final", "stopped", "entry", "remove", "shift",
               "open", "write"}
    /\ mode \in {"batch", "drain"}
    /\ hand \in Numbers \cup {Nothing}
    /\ shift \in Nat
    /\ buffer \in Seq(Numbers) /\ Len(buffer) <= BufferSize
    /\ curSize \in Nat
    /\ handle \in Names \cup {Unlinked}
    /\ dir \in [Names -> Seq(Numbers) \cup {Absent}]
    /\ maxFiles \in MaxFiles /\ widest \in MaxFiles
    /\ faults \in FaultSets
    /\ process \in {"up", "stopping", "gone"}
    /\ restarts \in Nat
    /\ flushed \in Seq(Numbers)
    /\ owed \subseteq Numbers /\ lost \subseteq Numbers
    /\ skipped \in Nat /\ misflushed \in Nat

\* No entry vanishes.  Until the writer stops, the counters of this run add up to
\* the entries recorded since the start, but for those on their way to the writer,
\* and one more for every flush that failed: io_errors_total counts "Write/flush
\* errors", so it says how many entries a failing disk cost only together with the
\* number of failed flushes (record, write_entry, flush).  And "drain whatever is
\* already queued, then stop" (run): when it has stopped, every entry that was
\* queued or buffered at the cancellation has reached a file, unless the disk
\* refused it.
Accounted ==
    IF pc = "stopped" THEN owed \subseteq Elems(flushed) \cup lost
    ELSE (next - first) + misflushed
           = dropped + written + failed + Len(channel) + (IF hand = Nothing THEN 0 ELSE 1)

\* The footprint is bounded by max_file_bytes * max_files (module doc, "Rotation";
\* docs/security.md): at every moment, wherever crashes interrupted a rotation,
\* there are at most max_files files, none longer than the limit, and no line goes
\* into a file that has no name, as long as no rotation had to be given up and
\* max_files was not lowered; which never happens while calls succeed and the
\* setting is not edited.  After a call that fails, or with a lower max_files, the
\* documented bound does not hold: rotate gives up, and leaves other files alone.
FootprintBounded ==
    /\ faults = {} => skipped = 0 /\ widest = maxFiles
    /\ skipped = 0 /\ widest = maxFiles =>
          /\ \A n \in Names : dir[n] # Absent => n < maxFiles /\ Len(dir[n]) <= MaxFileSize
          /\ handle = Unlinked => pc = "open"

\* Entries are numbered as they are recorded, so the order of two lines is the
\* order of their numbers.
Ascending(s) == \A i, j \in 1..Len(s) : i < j => s[i] < s[j]
Present == {n \in Names : dir[n] # Absent}
Lines == UNION {Elems(dir[n]) : n \in Present}

\* Rotation loses nothing but the oldest lines, as long as renames and opens
\* succeed and query_log_max_files is not edited: the files, read from the
\* oldest backup to the active one, hold the end of everything that ever
\* reached a file, in order and each line once, wherever a crash interrupted a
\* rotation; and with a backup and a disk that lost nothing, one file at least
\* is full, or nothing is gone at all.
RetainsLatest ==
    faults \subseteq {"data"} =>
        /\ Ascending(flushed)
        /\ \A n \in Present : Ascending(dir[n])
        /\ \A m, n \in Present : m < n =>
              \A x \in Elems(dir[n]), y \in Elems(dir[m]) : x < y
        /\ Lines \subseteq Elems(flushed)
        /\ \A x \in Lines, y \in Elems(flushed) : x <= y => y \in Lines
        /\ maxFiles >= 2 /\ lost = {} =>
              (\E n \in Present : Len(dir[n]) >= MaxFileSize) \/ Lines = Elems(flushed)

\* "On any I/O error we keep writing to the current file rather than losing the
\* stream" (rotate, l.259): with backups kept, the open file has a name.
StreamKept == maxFiles >= 2 => handle # Unlinked
=============================================================================
