------------------------- MODULE QueryLogDiskProofs -------------------------
(***************************************************************************)
(* Proofs about QueryLogDisk for any sizes of the ring, the channel, the   *)
(* buffer and the files, any values of query_log_max_files, any faults and *)
(* any number of queries, crashes and restarts.                            *)
(***************************************************************************)
EXTENDS QueryLogDisk, SequenceTheorems, TLAPS

USE DEF counters, writerVars, fileVars, lifeVars, Flush

Files == Seq(Numbers) \cup {Absent}

-----------------------------------------------------------------------------
(* Names and numbers. *)

\* path and every backup of any query_log_max_files is a name.
LEMMA NamesFact ==
    /\ Names \subseteq Nat /\ 0 \in Names
    /\ \A m \in MaxFiles : \A n \in Nat : n < m => n \in Names
<1> DEFINE Top == CHOOSE m \in MaxFiles : \A n \in MaxFiles : n <= m
<1>1. Top \in MaxFiles /\ MaxFiles \subseteq Nat /\ \A n \in MaxFiles : n <= Top
  BY QueryLogAssumption
<1>2. Names = 0..Top
  BY DEF Names
<1> HIDE DEF Top
<1>3. QED
  BY <1>1, <1>2

\* Numbers of entries are naturals, and the next one is a number.
LEMMA NumbersFact ==
    /\ Numbers \subseteq Nat /\ Nothing \notin Numbers
    /\ \A n \in 1..(MaxEntries + 1) : n <= MaxEntries => n \in Numbers
BY QueryLogAssumption DEF Numbers

-----------------------------------------------------------------------------
(* The entries of a sequence. *)

\* No entry in an empty sequence.
LEMMA ElemsEmpty == Elems(<<>>) = {}
BY DEF Elems

\* The entries of a sequence over S are in S.
LEMMA ElemsType ==
    ASSUME NEW S, NEW s \in Seq(S)
    PROVE  Elems(s) \subseteq S
BY ElementOfSeq DEF Elems

\* A concatenation has the entries of both parts.
LEMMA ElemsConcat ==
    ASSUME NEW S, NEW s \in Seq(S), NEW t \in Seq(S)
    PROVE  Elems(s \o t) = Elems(s) \cup Elems(t)
<1>1. /\ Len(s \o t) = Len(s) + Len(t) /\ Len(s) \in Nat /\ Len(t) \in Nat
      /\ \A i \in 1..Len(s) : (s \o t)[i] = s[i]
      /\ \A i \in 1..Len(t) : (s \o t)[Len(s) + i] = t[i]
      /\ \A i \in 1..(Len(s) + Len(t)) :
            (s \o t)[i] = IF i <= Len(s) THEN s[i] ELSE t[i - Len(s)]
  BY ConcatProperties, LenProperties
<1>2. ASSUME NEW x \in Elems(s \o t) PROVE x \in Elems(s) \cup Elems(t)
  <2>1. PICK i \in 1..(Len(s) + Len(t)) : x = (s \o t)[i]
    BY <1>1, <1>2 DEF Elems
  <2>2. CASE i <= Len(s)
    BY <1>1, <2>1, <2>2 DEF Elems
  <2>3. CASE ~(i <= Len(s))
    <3>1. i - Len(s) \in 1..Len(t) /\ x = t[i - Len(s)]
      BY <1>1, <2>1, <2>3
    <3>2. QED
      BY <3>1 DEF Elems
  <2>4. QED
    BY <2>2, <2>3
<1>3. ASSUME NEW x \in Elems(s) PROVE x \in Elems(s \o t)
  BY <1>1, <1>3 DEF Elems
<1>4. ASSUME NEW x \in Elems(t) PROVE x \in Elems(s \o t)
  <2>1. PICK i \in 1..Len(t) : x = t[i]
    BY <1>4 DEF Elems
  <2>2. Len(s) + i \in 1..Len(s \o t) /\ (s \o t)[Len(s) + i] = x
    BY <1>1, <2>1
  <2>3. QED
    BY <2>2 DEF Elems
<1>5. QED
  BY <1>2, <1>3, <1>4

\* An appended entry is added.
LEMMA ElemsAppend ==
    ASSUME NEW S, NEW s \in Seq(S), NEW e \in S
    PROVE  Elems(Append(s, e)) = Elems(s) \cup {e}
<1>1. /\ Len(Append(s, e)) = Len(s) + 1 /\ Len(s) \in Nat
      /\ \A i \in 1..Len(s) : Append(s, e)[i] = s[i]
      /\ Append(s, e)[Len(s) + 1] = e
  BY AppendProperties, LenProperties
<1>2. \A i \in 1..(Len(s) + 1) : i \in 1..Len(s) \/ i = Len(s) + 1
  BY <1>1
<1>3. QED
  BY <1>1, <1>2 DEF Elems

\* The entries of a sequence are its head and those of its tail.
LEMMA ElemsTail ==
    ASSUME NEW S, NEW s \in Seq(S), s # <<>>
    PROVE  /\ Head(s) \in S /\ Tail(s) \in Seq(S) /\ Len(Tail(s)) = Len(s) - 1
           /\ Len(s) \in Nat \ {0}
           /\ Elems(s) = {Head(s)} \cup Elems(Tail(s))
<1>1. /\ Head(s) \in S /\ Tail(s) \in Seq(S) /\ Len(Tail(s)) = Len(s) - 1
      /\ \A i \in 1..Len(Tail(s)) : Tail(s)[i] = s[i + 1]
      /\ Head(s) = s[1]
  BY HeadTailProperties
<1>2. Len(s) \in Nat \ {0}
  BY EmptySeq, LenProperties
<1>3. \A i \in 1..Len(s) : i = 1 \/ (i - 1 \in 1..Len(Tail(s)) /\ s[i] = Tail(s)[i - 1])
  BY <1>1, <1>2
<1>4. Elems(s) \subseteq {Head(s)} \cup Elems(Tail(s))
  BY <1>1, <1>3 DEF Elems
<1>5. \A i \in 1..Len(Tail(s)) : i + 1 \in 1..Len(s) /\ Tail(s)[i] = s[i + 1]
  BY <1>1, <1>2
<1>6. 1 \in 1..Len(s)
  BY <1>2
<1>7. {Head(s)} \cup Elems(Tail(s)) \subseteq Elems(s)
  BY <1>1, <1>5, <1>6 DEF Elems
<1>8. QED
  BY <1>1, <1>2, <1>4, <1>7

-----------------------------------------------------------------------------
(* Ascending sequences. *)

\* Two ascending sequences, the second above the first.
LEMMA AscendingConcat ==
    ASSUME NEW s \in Seq(Nat), NEW t \in Seq(Nat), Ascending(s), Ascending(t),
           \A x \in Elems(s), y \in Elems(t) : x < y
    PROVE  Ascending(s \o t)
<1>1. /\ Len(s \o t) = Len(s) + Len(t) /\ Len(s) \in Nat /\ Len(t) \in Nat
      /\ \A i \in 1..(Len(s) + Len(t)) :
            (s \o t)[i] = IF i <= Len(s) THEN s[i] ELSE t[i - Len(s)]
  BY ConcatProperties, LenProperties
<1>2. SUFFICES ASSUME NEW i \in 1..(Len(s) + Len(t)), NEW j \in 1..(Len(s) + Len(t)), i < j
               PROVE  (s \o t)[i] < (s \o t)[j]
  BY <1>1 DEF Ascending
<1>3. CASE j <= Len(s)
  BY <1>1, <1>2, <1>3 DEF Ascending
<1>4. CASE i > Len(s)
  <2>1. i - Len(s) \in 1..Len(t) /\ j - Len(s) \in 1..Len(t) /\ i - Len(s) < j - Len(s)
    BY <1>1, <1>2, <1>4
  <2>2. (s \o t)[i] = t[i - Len(s)] /\ (s \o t)[j] = t[j - Len(s)]
    BY <1>1, <1>2, <1>4
  <2>3. QED
    BY <2>1, <2>2 DEF Ascending
<1>5. CASE i <= Len(s) /\ j > Len(s)
  <2>1. i \in 1..Len(s) /\ j - Len(s) \in 1..Len(t)
    BY <1>1, <1>5
  <2>2. (s \o t)[i] = s[i] /\ (s \o t)[j] = t[j - Len(s)]
    BY <1>1, <1>5
  <2>3. s[i] \in Elems(s) /\ t[j - Len(s)] \in Elems(t)
    BY <2>1 DEF Elems
  <2>4. s[i] < t[j - Len(s)]
    BY <2>3, Zenon
  <2>5. QED
    BY <2>2, <2>4, Zenon
<1>6. j <= Len(s) \/ i > Len(s) \/ (i <= Len(s) /\ j > Len(s))
  BY <1>1
<1>7. QED
  BY <1>3, <1>4, <1>5, <1>6, Zenon

\* A larger entry is appended.
LEMMA AscendingAppend ==
    ASSUME NEW s \in Seq(Nat), NEW e \in Nat, Ascending(s), \A x \in Elems(s) : x < e
    PROVE  Ascending(Append(s, e))
<1>1. /\ Len(Append(s, e)) = Len(s) + 1 /\ Len(s) \in Nat
      /\ \A i \in 1..Len(s) : Append(s, e)[i] = s[i] /\ s[i] \in Elems(s)
      /\ Append(s, e)[Len(s) + 1] = e
  BY AppendProperties, LenProperties DEF Elems
<1>2. SUFFICES ASSUME NEW i \in 1..(Len(s) + 1), NEW j \in 1..(Len(s) + 1), i < j
               PROVE  Append(s, e)[i] < Append(s, e)[j]
  BY <1>1 DEF Ascending
<1>3. i \in 1..Len(s) /\ (j \in 1..Len(s) \/ j = Len(s) + 1)
  BY <1>1, <1>2
<1>4. Append(s, e)[i] < e
  BY <1>1, <1>3
<1>5. QED
  BY <1>1, <1>2, <1>3, <1>4 DEF Ascending

\* The head is below the tail, and the tail ascends.
LEMMA AscendingTail ==
    ASSUME NEW s \in Seq(Nat), s # <<>>, Ascending(s)
    PROVE  Ascending(Tail(s)) /\ \A y \in Elems(Tail(s)) : Head(s) < y
<1>1. /\ Len(Tail(s)) = Len(s) - 1 /\ Len(s) \in Nat \ {0}
      /\ \A i \in 1..Len(Tail(s)) : Tail(s)[i] = s[i + 1]
      /\ Head(s) = s[1]
  BY HeadTailProperties, ElemsTail
<1>2. \A i \in 1..Len(Tail(s)) : i + 1 \in 1..Len(s) /\ 1 \in 1..Len(s) /\ 1 < i + 1
  BY <1>1
<1>3. \A i \in 1..Len(Tail(s)) : s[1] < s[i + 1]
  BY <1>2 DEF Ascending
<1>4. \A y \in Elems(Tail(s)) : Head(s) < y
  BY <1>1, <1>3 DEF Elems
<1>5. Ascending(Tail(s))
  BY <1>1, <1>2 DEF Ascending
<1>6. QED
  BY <1>4, <1>5

\* Nothing and a single entry ascend.
LEMMA AscendingShort == Ascending(<<>>) /\ \A e \in Nat : Ascending(<<e>>)
BY DEF Ascending

-----------------------------------------------------------------------------
(* Types.  The writer has an entry in hand from receiving it to writing it,  *)
(* the backup it moves next has a name, and so has the open file, or none.   *)

Handed == (hand = Nothing) <=> pc \in {"select", "drain", "final", "stopped"}
Shifting == pc = "shift" => shift = 0 \/ shift + 1 < maxFiles
Linked == handle # Unlinked => dir[handle] # Absent
TInv == TypeOK /\ Handed /\ Shifting /\ Linked

\* A file that is there is a sequence of entries.
LEMMA FileType ==
    ASSUME TypeOK, NEW n \in Names, dir[n] # Absent
    PROVE  dir[n] \in Seq(Numbers) /\ Len(dir[n]) \in Nat
BY LenProperties DEF TypeOK

\* A sequence of entries is a file that is there.
LEMMA SeqPresent == \A s \in Seq(Numbers) : s # Absent /\ s \in Files
BY QueryLogAssumption DEF Numbers, Files

\* The empty sequences.
LEMMA EmptyFile == <<>> \in Seq(Numbers) /\ Len(<<>>) = 0
BY EmptySeq

\* What appending to the open file does to the directory.
LEMMA AppendedFact ==
    ASSUME TInv, NEW s \in Seq(Numbers)
    PROVE  /\ Appended(s) \in [Names -> Files]
           /\ handle = Unlinked => Appended(s) = dir
           /\ handle # Unlinked =>
                 /\ handle \in Names /\ dir[handle] \in Seq(Numbers)
                 /\ Appended(s)[handle] = dir[handle] \o s
                 /\ dir[handle] \o s \in Seq(Numbers)
                 /\ Len(dir[handle] \o s) = Len(dir[handle]) + Len(s)
           /\ \A n \in Names : n # handle => Appended(s)[n] = dir[n]
           /\ \A n \in Names : Appended(s)[n] = Absent <=> dir[n] = Absent
<1>1. CASE handle = Unlinked
  <2>1. Unlinked \notin Names
    BY NamesFact, QueryLogAssumption
  <2>2. QED
    BY <1>1, <2>1 DEF TInv, TypeOK, Appended, Files
<1>2. CASE handle # Unlinked
  <2>1. handle \in Names /\ dir[handle] \in Seq(Numbers)
    BY <1>2, FileType DEF TInv, TypeOK, Linked
  <2>2. dir[handle] \o s \in Seq(Numbers) /\ Len(dir[handle] \o s) = Len(dir[handle]) + Len(s)
    BY <2>1, ConcatProperties
  <2>3. Appended(s) = [dir EXCEPT ![handle] = dir[handle] \o s]
    BY <1>2 DEF Appended
  <2>4. dir \in [Names -> Files]
    BY DEF TInv, TypeOK, Files
  <2>5. dir[handle] \o s # Absent /\ dir[handle] \o s \in Files /\ dir[handle] # Absent
    BY <2>1, <2>2, SeqPresent
  <2>6. QED
    BY <1>2, <2>1, <2>2, <2>3, <2>4, <2>5
<1>3. QED
  BY <1>1, <1>2

\* What a rename does to the directory and to the name of the open file.
LEMMA RenamedFact ==
    ASSUME TInv, NEW a \in Names, NEW b \in Names, a # b, dir[a] # Absent
    PROVE  /\ Renamed(dir, a, b) \in [Names -> Files]
           /\ Renamed(dir, a, b)[a] = Absent
           /\ Renamed(dir, a, b)[b] = dir[a]
           /\ \A n \in Names \ {a, b} : Renamed(dir, a, b)[n] = dir[n]
           /\ HandleAfterRename(a, b) \in Names \cup {Unlinked}
           /\ HandleAfterRename(a, b) # Unlinked =>
                 /\ handle # Unlinked
                 /\ Renamed(dir, a, b)[HandleAfterRename(a, b)] = dir[handle]
<1>1. Unlinked \notin Names
  BY NamesFact, QueryLogAssumption
<1>2. QED
  BY <1>1 DEF TInv, TypeOK, Files, Renamed, HandleAfterRename

\* What removing a file does to the directory and to the open file.
LEMMA RemovedFact ==
    ASSUME TInv, NEW a \in Names
    PROVE  /\ [dir EXCEPT ![a] = Absent] \in [Names -> Files]
           /\ [dir EXCEPT ![a] = Absent][a] = Absent
           /\ \A n \in Names \ {a} : [dir EXCEPT ![a] = Absent][n] = dir[n]
           /\ HandleAfterRemove(a) \in Names \cup {Unlinked}
           /\ HandleAfterRemove(a) # Unlinked =>
                 /\ handle # Unlinked /\ HandleAfterRemove(a) = handle
                 /\ [dir EXCEPT ![a] = Absent][handle] = dir[handle]
<1>1. Unlinked \notin Names
  BY NamesFact, QueryLogAssumption
<1>2. QED
  BY <1>1 DEF TInv, TypeOK, Files, HandleAfterRemove

\* What opening path for append does to the directory.
LEMMA OpenedFact ==
    ASSUME TInv
    PROVE  /\ Opened(dir) \in [Names -> Files]
           /\ Opened(dir)[0] \in Seq(Numbers) /\ Opened(dir)[0] # Absent
           /\ Opened(dir)[0] = IF dir[0] = Absent THEN <<>> ELSE dir[0]
           /\ \A n \in Names \ {0} : Opened(dir)[n] = dir[n]
<1>1. dir \in [Names -> Files] /\ 0 \in Names
  BY NamesFact DEF TInv, TypeOK, Files
<1>2. dir[0] # Absent => dir[0] \in Seq(Numbers)
  BY <1>1 DEF Files
<1>3. QED
  BY <1>1, <1>2, EmptyFile, SeqPresent DEF Opened

\* A flush that succeeds, or one that loses the buffer, keeps the types.
LEMMA FlushTypes ==
    ASSUME TInv, handle' = handle, FlushOk \/ FlushFails
    PROVE  /\ dir' \in [Names -> Files] /\ flushed' \in Seq(Numbers)
           /\ buffer' \in Seq(Numbers) /\ Len(buffer') <= BufferSize
           /\ lost' \subseteq Numbers
           /\ Linked'
<1>0. buffer \in Seq(Numbers) /\ flushed \in Seq(Numbers) /\ lost \subseteq Numbers
      /\ Len(buffer) <= BufferSize /\ dir \in [Names -> Files] /\ Linked
      /\ handle \in Names \cup {Unlinked}
  BY DEF TInv, TypeOK, Files
<1>e. <<>> \in Seq(Numbers) /\ Len(<<>>) <= BufferSize
  BY EmptyFile, QueryLogAssumption
<1>1. CASE FlushOk
  <2>1. flushed \o buffer \in Seq(Numbers)
    BY <1>0, ConcatProperties
  <2>2. /\ dir' = Appended(buffer) /\ flushed' = flushed \o buffer /\ buffer' = <<>>
        /\ lost' = lost
    BY <1>1 DEF FlushOk
  <2>3. Appended(buffer) \in [Names -> Files]
        /\ \A n \in Names : Appended(buffer)[n] = Absent <=> dir[n] = Absent
    BY <1>0, AppendedFact
  <2>4. QED
    BY <1>0, <1>e, <2>1, <2>2, <2>3 DEF Linked
<1>2. CASE FlushLoses
  <2>1. Elems(buffer) \subseteq Numbers
    BY <1>0, ElemsType
  <2>2. QED
    BY <1>0, <1>2, <1>e, <2>1 DEF FlushLoses, Linked
<1>3. CASE FlushFails /\ ~FlushLoses
  BY <1>0, <1>3 DEF FlushFails, Linked
<1>4. QED
  BY <1>1, <1>2, <1>3

\* Every step keeps the types.
LEMMA TypeStep == TInv /\ [Next]_vars => TInv'
<1> SUFFICES ASSUME TInv, [Next]_vars PROVE TInv'
  OBVIOUS
<1> USE DEF TInv
<1>0. /\ Names \subseteq Nat /\ 0 \in Names /\ Unlinked \notin Names
      /\ \A m \in MaxFiles : \A n \in Nat : n < m => n \in Names
      /\ MaxFiles \subseteq Nat \ {0}
  BY NamesFact, QueryLogAssumption
<1>1. CASE Record
  <2>1. next \in Numbers /\ next' \in 1..(MaxEntries + 1) /\ first' \in 1..next'
    BY <1>1, NumbersFact, QueryLogAssumption DEF Record, TypeOK
  <2>2. ring' \in Seq(Numbers) /\ Len(ring') <= RingSize
    <3>1. ring \in Seq(Numbers) /\ Len(ring) <= RingSize /\ Len(ring) \in Nat
          /\ RingSize \in Nat
      BY LenProperties, QueryLogAssumption DEF TypeOK
    <3>2. CASE Len(ring) = RingSize /\ RingSize # 0
      <4>1. ring # <<>>
        BY <3>1, <3>2, EmptySeq
      <4>2. Tail(ring) \in Seq(Numbers) /\ Len(Tail(ring)) = Len(ring) - 1
        BY <3>1, <4>1, ElemsTail
      <4>3. ring' = Append(Tail(ring), next)
        BY <1>1, <3>2 DEF Record, RingAfter
      <4>4. QED
        BY <2>1, <3>1, <3>2, <4>2, <4>3, AppendProperties
    <3>3. CASE Len(ring) # RingSize /\ RingSize # 0
      <4>1. ring' = Append(ring, next)
        BY <1>1, <3>3 DEF Record, RingAfter
      <4>2. QED
        BY <2>1, <3>1, <3>3, <4>1, AppendProperties
    <3>4. CASE RingSize = 0
      BY <1>1, <3>1, <3>4 DEF Record, RingAfter
    <3>5. QED
      BY <3>2, <3>3, <3>4
  <2>3. channel' \in Seq(Numbers) /\ Len(channel') <= ChannelCap /\ dropped' \in Nat
    <3>1. channel \in Seq(Numbers) /\ Len(channel) <= ChannelCap /\ Len(channel) \in Nat
          /\ ChannelCap \in Nat /\ dropped \in Nat
      BY LenProperties, QueryLogAssumption DEF TypeOK
    <3>2. CASE pc = "stopped" \/ Len(channel) = ChannelCap
      BY <1>1, <3>1, <3>2 DEF Record
    <3>3. CASE ~(pc = "stopped" \/ Len(channel) = ChannelCap)
      <4>1. channel' = Append(channel, next) /\ dropped' = dropped
        BY <1>1, <3>3 DEF Record
      <4>2. QED
        BY <2>1, <3>1, <3>3, <4>1, AppendProperties
    <3>4. QED
      BY <3>2, <3>3
  <2>4. QED
    BY <1>1, <2>1, <2>2, <2>3 DEF Record, TypeOK, Handed, Shifting, Linked
<1>2. CASE SelectEntry \/ DrainNext
  <2>1. PICK m \in {"batch", "drain"} : Receive(m)
    BY <1>2 DEF SelectEntry, DrainNext, TypeOK
  <2>2. channel \in Seq(Numbers) /\ channel # <<>> /\ Len(channel) <= ChannelCap
        /\ ChannelCap \in Nat
    BY <2>1, QueryLogAssumption DEF TypeOK, Receive
  <2>3. /\ Head(channel) \in Numbers /\ Tail(channel) \in Seq(Numbers)
        /\ Len(Tail(channel)) <= ChannelCap
    BY <2>2, ElemsTail
  <2>4. hand' \in Numbers /\ hand' # Nothing /\ channel' = Tail(channel)
    BY <2>1, <2>3, NumbersFact DEF Receive
  <2>5. QED
    BY <2>1, <2>3, <2>4 DEF Receive, TypeOK, Handed, Shifting, Linked
<1>3. CASE SelectShutdown
  BY <1>3 DEF SelectShutdown, Running, TypeOK, Handed, Shifting, Linked
<1>4. CASE EndBatch
  <2>1. /\ dir' \in [Names -> Files] /\ flushed' \in Seq(Numbers)
        /\ buffer' \in Seq(Numbers) /\ Len(buffer') <= BufferSize
        /\ lost' \subseteq Numbers /\ Linked'
    BY <1>4, FlushTypes DEF EndBatch
  <2>2. QED
    BY <1>4, <2>1 DEF EndBatch, Running, TypeOK, Handed, Shifting, Files
<1>5. CASE Stop
  <2>1. /\ dir' \in [Names -> Files] /\ flushed' \in Seq(Numbers)
        /\ buffer' \in Seq(Numbers) /\ Len(buffer') <= BufferSize
        /\ lost' \subseteq Numbers /\ Linked'
    BY <1>5, FlushTypes DEF Stop, FlushFails
  <2>2. channel' \in Seq(Numbers) /\ Len(channel') <= ChannelCap
    BY <1>5, EmptyFile, QueryLogAssumption DEF Stop
  <2>3. QED
    BY <1>5, <2>1, <2>2 DEF Stop, Running, TypeOK, Handed, Shifting, Files
<1>6. CASE BeginEntry
  <2>1. CASE ~MustRotate /\ pc' = "write" /\ UNCHANGED <<dir, flushed, buffer, lost, skipped>>
    BY <1>6, <2>1 DEF BeginEntry, Running, TypeOK, Handed, Shifting, Linked
  <2>2. CASE /\ FlushOk \/ FlushFails
             /\ pc' \in {"remove", "write"} /\ skipped' \in {skipped, skipped + 1}
    <3>1. /\ dir' \in [Names -> Files] /\ flushed' \in Seq(Numbers)
          /\ buffer' \in Seq(Numbers) /\ Len(buffer') <= BufferSize
          /\ lost' \subseteq Numbers /\ Linked'
      BY <1>6, <2>2, FlushTypes DEF BeginEntry
    <3>2. QED
      BY <1>6, <2>2, <3>1 DEF BeginEntry, Running, TypeOK, Handed, Shifting, Files
  <2>3. QED
    BY <1>6, <2>1, <2>2 DEF BeginEntry
<1>7. CASE RemoveOldest
  <2>1. CASE maxFiles >= 2
    <3>1. maxFiles - 1 \in Names /\ maxFiles - 2 \in Nat
      BY <1>0, <2>1 DEF TypeOK
    <3>2. /\ dir' \in [Names -> Files] /\ handle' \in Names \cup {Unlinked} /\ Linked'
          /\ shift' = maxFiles - 2
      BY <1>7, <2>1, <3>1, RemovedFact DEF RemoveOldest, Linked
    <3>3. Shifting'
      BY <1>0, <1>7, <3>2 DEF RemoveOldest, TypeOK, Shifting
    <3>4. QED
      BY <1>7, <3>1, <3>2, <3>3 DEF RemoveOldest, Running, TypeOK, Handed, Files
  <2>2. CASE ~(maxFiles >= 2)
    <3>1. shift' = 0 /\ dir' = dir /\ handle' = handle /\ 0 \in Nat
      BY <1>7, <2>2 DEF RemoveOldest
    <3>2. QED
      BY <1>7, <3>1 DEF RemoveOldest, Running, TypeOK, Handed, Shifting, Linked
  <2>3. QED
    BY <2>1, <2>2
<1>8. CASE ShiftBackup
  <2>1. shift - 1 \in Nat /\ shift' = shift - 1 /\ Shifting' /\ shift \in Names
        /\ shift + 1 \in Names /\ shift # shift + 1
    BY <1>0, <1>8 DEF ShiftBackup, Running, TypeOK, Shifting
  <2>2. dir' \in [Names -> Files] /\ handle' \in Names \cup {Unlinked} /\ Linked'
    <3>1. CASE UNCHANGED <<dir, handle>>
      BY <3>1 DEF TypeOK, Linked, Files
    <3>2. CASE /\ dir[shift] # Absent /\ dir' = Renamed(dir, shift, shift + 1)
               /\ handle' = HandleAfterRename(shift, shift + 1)
      BY <2>1, <3>2, RenamedFact DEF Linked
    <3>3. QED
      BY <1>8, <3>1, <3>2 DEF ShiftBackup
  <2>3. QED
    BY <1>8, <2>1, <2>2 DEF ShiftBackup, Running, TypeOK, Handed, Files
<1>9. CASE RetireBase
  <2>1. pc' \in {"open", "write"} /\ skipped' \in Nat
    BY <1>9 DEF RetireBase, TypeOK
  <2>2. dir' \in [Names -> Files] /\ handle' \in Names \cup {Unlinked} /\ Linked'
    <3>1. CASE UNCHANGED <<dir, handle>>
      BY <3>1 DEF TypeOK, Linked, Files
    <3>2. CASE /\ maxFiles >= 2 /\ dir[0] # Absent /\ dir' = Renamed(dir, 0, 1)
               /\ handle' = HandleAfterRename(0, 1)
      <4>1. 1 \in Names
        BY <1>0, <3>2 DEF TypeOK
      <4>2. QED
        BY <1>0, <3>2, <4>1, RenamedFact DEF Linked
    <3>3. CASE dir' = [dir EXCEPT ![0] = Absent] /\ handle' = HandleAfterRemove(0)
      BY <1>0, <3>3, RemovedFact DEF Linked
    <3>4. QED
      BY <1>9, <3>1, <3>2, <3>3 DEF RetireBase
  <2>3. QED
    BY <1>9, <2>1, <2>2 DEF RetireBase, Running, TypeOK, Handed, Shifting, Files
<1>10. CASE Reopen
  <2>1. /\ dir' \in [Names -> Files] /\ handle' \in Names \cup {Unlinked} /\ Linked'
        /\ curSize' \in Nat /\ rotations' \in Nat /\ skipped' \in Nat
    <3>1. CASE UNCHANGED <<dir, handle, curSize, rotations>> /\ skipped' = skipped + 1
      BY <3>1 DEF TypeOK, Linked, Files
    <3>2. CASE /\ dir' = Opened(dir) /\ handle' = 0 /\ curSize' = 0
               /\ rotations' = rotations + 1 /\ UNCHANGED skipped
      <4>1. dir' \in [Names -> Files] /\ dir'[0] # Absent
        BY <3>2, OpenedFact
      <4>2. QED
        BY <1>0, <3>2, <4>1 DEF TypeOK, Linked
    <3>3. QED
      BY <1>10, <3>1, <3>2 DEF Reopen
  <2>2. QED
    BY <1>10, <2>1 DEF Reopen, Running, TypeOK, Handed, Shifting, Files
<1>11. CASE WriteLine
  <2>1. /\ hand \in Numbers /\ buffer \in Seq(Numbers) /\ flushed \in Seq(Numbers)
        /\ Len(buffer) \in Nat /\ BufferSize \in Nat \ {0} /\ Len(buffer) <= BufferSize
    BY <1>11, LenProperties, QueryLogAssumption DEF WriteLine, Running, TypeOK, Handed
  <2>2. buffer' \in Seq(Numbers) /\ Len(buffer') <= BufferSize
    <3>1. CASE Len(buffer) < BufferSize
      <4>1. buffer' = Append(buffer, hand)
        BY <1>11, <2>1, <3>1 DEF WriteLine
      <4>2. Append(buffer, hand) \in Seq(Numbers) /\ Len(Append(buffer, hand)) = Len(buffer) + 1
        BY <2>1, AppendProperties
      <4>3. QED
        BY <2>1, <3>1, <4>1, <4>2
    <3>2. CASE Len(buffer) = BufferSize
      <4>1. buffer' = <<hand>> \/ buffer' = buffer
        BY <1>11, <2>1, <3>2 DEF WriteLine
      <4>2. <<hand>> \in Seq(Numbers) /\ Len(<<hand>>) = 1
        BY <2>1
      <4>3. 1 <= BufferSize
        BY <2>1
      <4>4. CASE buffer' = <<hand>>
        BY <4>2, <4>3, <4>4
      <4>5. CASE buffer' = buffer
        BY <2>1, <4>5
      <4>6. QED
        BY <4>1, <4>4, <4>5
    <3>3. QED
      BY <2>1, <3>1, <3>2
  <2>3. dir' \in [Names -> Files] /\ flushed' \in Seq(Numbers) /\ Linked'
    <3>1. CASE UNCHANGED <<dir, flushed>>
      BY <1>11, <3>1 DEF WriteLine, TypeOK, Linked, Files
    <3>2. CASE dir' = Appended(buffer) /\ flushed' = flushed \o buffer
      <4>1. flushed \o buffer \in Seq(Numbers)
        BY <2>1, ConcatProperties
      <4>2. Appended(buffer) \in [Names -> Files]
            /\ \A n \in Names : Appended(buffer)[n] = Absent <=> dir[n] = Absent
        BY <2>1, AppendedFact
      <4>3. handle' = handle /\ handle \in Names \cup {Unlinked}
        BY <1>11 DEF WriteLine, TypeOK
      <4>4. QED
        BY <3>2, <4>1, <4>2, <4>3 DEF Linked
    <3>3. QED
      BY <1>11, <3>1, <3>2 DEF WriteLine
  <2>4. curSize' \in Nat /\ written' \in Nat /\ failed' \in Nat /\ lost' \subseteq Numbers
    BY <1>11, <2>1 DEF WriteLine, TypeOK
  <2>5. QED
    BY <1>11, <2>2, <2>3, <2>4 DEF WriteLine, TypeOK, Handed, Shifting, Files
<1>12. CASE Cancel
  <2>1. InFlight \subseteq Numbers
    BY ElemsType DEF InFlight, TypeOK
  <2>2. QED
    BY <1>12, <2>1 DEF Cancel, TypeOK, Handed, Shifting, Linked
<1>13. CASE Exit
  BY <1>13 DEF Exit, TypeOK, Handed, Shifting, Linked
<1>14. CASE Restart
  <2>1. /\ dir' \in [Names -> Files] /\ handle' = 0 /\ dir'[0] # Absent
        /\ curSize' \in Nat
    BY <1>0, <1>14, OpenedFact, LenProperties DEF Restart
  <2>2. Linked' /\ Shifting' /\ Handed'
    BY <1>14, <2>1 DEF Restart, Linked, Shifting, Handed
  <2>3. /\ maxFiles' \in MaxFiles /\ widest' \in MaxFiles
        /\ next' = next /\ first' \in 1..next' /\ restarts' \in Nat
    BY <1>14 DEF Restart, TypeOK
  <2>4. <<>> \in Seq(Numbers) /\ Len(<<>>) <= RingSize /\ Len(<<>>) <= ChannelCap
        /\ Len(<<>>) <= BufferSize
    BY EmptyFile, QueryLogAssumption
  <2>5. QED
    BY <1>0, <1>14, <2>1, <2>2, <2>3, <2>4 DEF Restart, TypeOK, Files
<1>15. CASE UNCHANGED vars
  BY <1>15 DEF vars, TypeOK, Handed, Shifting, Linked
<1>16. QED
  BY <1>1, <1>2, <1>3, <1>4, <1>5, <1>6, <1>7, <1>8, <1>9, <1>10, <1>11, <1>12, <1>13,
     <1>14, <1>15 DEF Next, WriterStep

\* The first state has the types.
LEMMA TypeInit == Init => TInv
<1> SUFFICES ASSUME Init PROVE TInv
  OBVIOUS
<1>1. <<>> \in Seq(Numbers) /\ Len(<<>>) = 0 /\ <<>> # Absent
  BY EmptyFile, SeqPresent
<1>2. 0 \in Names /\ 0 <= RingSize /\ 0 <= ChannelCap /\ 0 <= BufferSize
      /\ MaxEntries \in Nat
  BY NamesFact, QueryLogAssumption
<1>3. TypeOK
  BY <1>1, <1>2 DEF Init, TypeOK
<1>4. Handed /\ Shifting /\ Linked
  BY <1>1, <1>2 DEF Init, Handed, Shifting, Linked
<1>5. QED
  BY <1>3, <1>4 DEF TInv

\* The types of the log, the channel, the writer and the files: the ring, the
\* channel and the buffer never hold more than their capacities.
THEOREM TypeCorrect == Spec => []TypeOK
<1>1. Init => TInv
  BY TypeInit
<1>2. TInv /\ [Next]_vars => TInv'
  BY TypeStep
<1>3. TInv => TypeOK
  BY DEF TInv
<1>4. QED
  BY <1>1, <1>2, <1>3, PTL DEF Spec

-----------------------------------------------------------------------------
(* Accounting.  Until the writer stops, the counters of the run and what is  *)
(* on its way add up; what was accepted before the cancellation is on its    *)
(* way, in the buffer, in a file, or lost.                                   *)

InHand == IF hand = Nothing THEN 0 ELSE 1
CountInv ==
    pc # "stopped" =>
        (next - first) + misflushed = dropped + written + failed + Len(channel) + InHand

OnItsWay == IF pc \in {"final", "stopped"} THEN {} ELSE Elems(channel) \cup {hand}
OwedInv ==
    /\ process = "up" => owed = {} /\ mode = "batch" /\ pc \notin {"final", "stopped"}
    /\ pc = "final" => mode = "drain"
    /\ owed \subseteq Elems(flushed) \cup lost \cup Elems(buffer) \cup OnItsWay
    /\ pc = "stopped" => buffer = <<>> /\ channel = <<>>

\* Nothing that is counted changes.
LEMMA CountFrame ==
    ASSUME CountInv, UNCHANGED <<next, first, counters, channel, hand>>,
           pc = "stopped" => pc' = "stopped"
    PROVE  CountInv'
BY DEF CountInv, InHand

\* Every step keeps the books.
LEMMA CountStep == TInv /\ CountInv /\ [Next]_vars => CountInv'
<1> SUFFICES ASSUME TInv, CountInv, [Next]_vars PROVE CountInv'
  OBVIOUS
<1>0. /\ next \in Nat /\ first \in Nat /\ dropped \in Nat /\ written \in Nat
      /\ failed \in Nat /\ misflushed \in Nat /\ Len(channel) \in Nat /\ InHand \in Nat
      /\ channel \in Seq(Numbers)
  BY LenProperties, QueryLogAssumption DEF TInv, TypeOK, InHand
<1>1. CASE Record
  <2>1. InHand' = InHand
    BY <1>1 DEF Record, InHand
  <2>2. CASE pc = "stopped" \/ Len(channel) = ChannelCap
    BY <1>0, <1>1, <2>1, <2>2 DEF Record, CountInv
  <2>3. CASE ~(pc = "stopped" \/ Len(channel) = ChannelCap)
    <3>1. next \in Numbers
      BY <1>1, NumbersFact DEF Record, TInv, TypeOK
    <3>2. Len(channel') = Len(channel) + 1
      BY <1>0, <1>1, <2>3, <3>1, AppendProperties DEF Record
    <3>3. QED
      BY <1>0, <1>1, <2>1, <2>3, <3>2 DEF Record, CountInv
  <2>4. QED
    BY <2>2, <2>3
<1>2. CASE SelectEntry \/ DrainNext
  <2>1. PICK m \in {"batch", "drain"} : Receive(m)
    BY <1>2 DEF SelectEntry, DrainNext, TInv, TypeOK
  <2>2. /\ Head(channel) \in Numbers /\ Len(Tail(channel)) = Len(channel) - 1
    BY <1>0, <2>1, ElemsTail DEF Receive
  <2>3. InHand = 0 /\ InHand' = 1 /\ pc # "stopped"
    BY <1>2, <2>1, <2>2, NumbersFact DEF Receive, InHand, SelectEntry, DrainNext, Running,
       TInv, Handed
  <2>4. QED
    BY <1>0, <2>1, <2>2, <2>3 DEF Receive, CountInv
<1>3. CASE SelectShutdown
  BY <1>3, CountFrame DEF SelectShutdown, Running
<1>4. CASE EndBatch
  <2>1. /\ \/ UNCHANGED <<failed, misflushed>>
           \/ failed' = failed + 1 /\ misflushed' = misflushed + 1
        /\ UNCHANGED <<next, first, dropped, written, channel, hand>> /\ pc # "stopped"
    BY <1>4 DEF EndBatch, Running
  <2>2. InHand' = InHand
    BY <2>1 DEF InHand
  <2>3. QED
    BY <1>0, <2>1, <2>2 DEF CountInv
<1>5. CASE Stop
  BY <1>5 DEF Stop, CountInv
<1>6. CASE BeginEntry
  BY <1>6, CountFrame DEF BeginEntry, Running
<1>7. CASE RemoveOldest
  BY <1>7, CountFrame DEF RemoveOldest, Running
<1>8. CASE ShiftBackup
  BY <1>8, CountFrame DEF ShiftBackup, Running
<1>9. CASE RetireBase
  BY <1>9, CountFrame DEF RetireBase, Running
<1>10. CASE Reopen
  <2>1. /\ UNCHANGED <<next, first, dropped, written, failed, misflushed, channel, hand>>
        /\ pc # "stopped"
    BY <1>10 DEF Reopen, Running
  <2>2. QED
    BY <2>1 DEF CountInv, InHand
<1>11. CASE WriteLine
  <2>1. InHand = 1 /\ InHand' = 0 /\ pc # "stopped"
    BY <1>11 DEF WriteLine, Running, InHand, TInv, Handed
  <2>2. /\ \/ written' = written + 1 /\ failed' = failed
           \/ written' = written /\ failed' = failed + 1
        /\ UNCHANGED <<next, first, dropped, misflushed, channel>>
    BY <1>11 DEF WriteLine
  <2>3. QED
    BY <1>0, <2>1, <2>2 DEF CountInv
<1>12. CASE Cancel
  BY <1>12, CountFrame DEF Cancel
<1>13. CASE Exit
  BY <1>13, CountFrame DEF Exit
<1>14. CASE Restart
  <2>1. /\ next' = next /\ first' = next /\ dropped' = 0 /\ written' = 0 /\ failed' = 0
        /\ misflushed' = 0 /\ InHand' = 0 /\ Len(channel') = 0
    BY <1>14, EmptyFile DEF Restart, InHand
  <2>2. QED
    BY <1>0, <2>1 DEF CountInv
<1>15. CASE UNCHANGED vars
  BY <1>15, CountFrame DEF vars
<1>16. QED
  BY <1>1, <1>2, <1>3, <1>4, <1>5, <1>6, <1>7, <1>8, <1>9, <1>10, <1>11, <1>12, <1>13,
     <1>14, <1>15 DEF Next, WriterStep

\* A flush leaves every entry in the buffer, in the files or among the lost.
LEMMA FlushKeeps ==
    ASSUME TInv, FlushOk \/ FlushFails
    PROVE  /\ Elems(flushed) \cup lost \cup Elems(buffer)
                \subseteq Elems(flushed') \cup lost' \cup Elems(buffer')
           /\ FlushOk \/ FlushLoses => buffer' = <<>>
<1>1. CASE FlushOk
  <2>1. Elems(flushed \o buffer) = Elems(flushed) \cup Elems(buffer)
    BY ElemsConcat DEF TInv, TypeOK
  <2>2. QED
    BY <1>1, <2>1 DEF FlushOk, FlushLoses
<1>2. CASE FlushLoses
  BY <1>2 DEF FlushLoses, FlushOk
<1>3. CASE FlushFails /\ ~FlushLoses
  BY <1>3, <1>1 DEF FlushFails
<1>4. QED
  BY <1>1, <1>2, <1>3

\* Every step keeps what is owed in sight.
LEMMA OwedStep == TInv /\ OwedInv /\ [Next]_vars => OwedInv'
<1> SUFFICES ASSUME TInv, OwedInv, [Next]_vars PROVE OwedInv'
  OBVIOUS
<1>0. /\ channel \in Seq(Numbers) /\ buffer \in Seq(Numbers) /\ flushed \in Seq(Numbers)
      /\ process \in {"up", "stopping", "gone"}
  BY DEF TInv, TypeOK
<1>1. CASE Record
  <2>1. Elems(channel) \subseteq Elems(channel')
    <3>1. next \in Numbers
      BY <1>1, NumbersFact DEF Record, TInv, TypeOK
    <3>2. Elems(Append(channel, next)) = Elems(channel) \cup {next}
      BY <1>0, <3>1, ElemsAppend
    <3>3. QED
      BY <1>1, <3>2 DEF Record
  <2>2. pc = "stopped" => channel' = channel
    BY <1>1 DEF Record
  <2>3. QED
    BY <1>1, <2>1, <2>2 DEF Record, OwedInv, OnItsWay
<1>2. CASE SelectEntry \/ DrainNext
  <2>1. PICK m \in {"batch", "drain"} :
            Receive(m) /\ (m = "batch" \/ m = mode) /\ pc \in {"select", "drain"}
    BY <1>2 DEF SelectEntry, DrainNext, Running, TInv, TypeOK
  <2>2. Elems(channel) = {hand'} \cup Elems(channel')
    BY <1>0, <2>1, ElemsTail DEF Receive
  <2>3. hand = Nothing /\ Nothing \notin owed
    BY <2>1, NumbersFact DEF TInv, Handed, TypeOK
  <2>4. owed' \subseteq Elems(flushed') \cup lost' \cup Elems(buffer') \cup OnItsWay'
    BY <2>1, <2>2, <2>3 DEF Receive, OwedInv, OnItsWay
  <2>5. QED
    BY <2>1, <2>4 DEF Receive, OwedInv
<1>3. CASE SelectShutdown
  BY <1>3 DEF SelectShutdown, Running, OwedInv, OnItsWay
<1>4. CASE EndBatch
  <2>1. Elems(flushed) \cup lost \cup Elems(buffer)
           \subseteq Elems(flushed') \cup lost' \cup Elems(buffer')
    BY <1>4, FlushKeeps DEF EndBatch
  <2>2. Elems(channel) = {} /\ hand = Nothing /\ Nothing \notin owed
    BY <1>4, ElemsEmpty, NumbersFact DEF EndBatch, Running, TInv, Handed, TypeOK
  <2>3. owed \subseteq Elems(flushed) \cup lost \cup Elems(buffer)
    BY <1>4, <2>2 DEF OwedInv, OnItsWay
  <2>4. QED
    BY <1>4, <2>1, <2>3 DEF EndBatch, Running, OwedInv
<1>5. CASE Stop
  <2>1. /\ buffer' = <<>>
        /\ Elems(flushed) \cup lost \cup Elems(buffer)
              \subseteq Elems(flushed') \cup lost' \cup Elems(buffer')
    BY <1>5, FlushKeeps DEF Stop, FlushFails
  <2>2. owed \subseteq Elems(flushed) \cup lost \cup Elems(buffer)
    BY <1>5 DEF Stop, Running, OwedInv, OnItsWay
  <2>3. QED
    BY <1>5, <2>1, <2>2 DEF Stop, Running, OwedInv
<1>6. CASE BeginEntry
  <2>1. Elems(flushed) \cup lost \cup Elems(buffer)
           \subseteq Elems(flushed') \cup lost' \cup Elems(buffer')
    <3>1. CASE UNCHANGED <<dir, flushed, buffer, lost, skipped>>
      BY <3>1
    <3>2. CASE FlushOk \/ FlushFails
      BY <3>2, FlushKeeps
    <3>3. QED
      BY <1>6, <3>1, <3>2 DEF BeginEntry
  <2>2. pc = "entry" /\ pc' \in {"write", "remove"} /\ OnItsWay' = OnItsWay
    BY <1>6 DEF BeginEntry, Running, OnItsWay
  <2>3. QED
    BY <1>6, <2>1, <2>2 DEF BeginEntry, OwedInv
<1>7. CASE RemoveOldest
  BY <1>7 DEF RemoveOldest, Running, OwedInv, OnItsWay
<1>8. CASE ShiftBackup
  BY <1>8 DEF ShiftBackup, Running, OwedInv, OnItsWay
<1>9. CASE RetireBase
  <2>1. pc' \in {"open", "write"}
    BY <1>9 DEF RetireBase
  <2>2. QED
    BY <1>9, <2>1 DEF RetireBase, Running, OwedInv, OnItsWay
<1>10. CASE Reopen
  BY <1>10 DEF Reopen, Running, OwedInv, OnItsWay
<1>11. CASE WriteLine
  <2>1. hand \in Numbers
    BY <1>11 DEF WriteLine, Running, TInv, TypeOK, Handed
  <2>2. Elems(flushed) \cup lost \cup Elems(buffer) \cup {hand}
           \subseteq Elems(flushed') \cup lost' \cup Elems(buffer')
    <3>1. Elems(Append(buffer, hand)) = Elems(buffer) \cup {hand}
      BY <1>0, <2>1, ElemsAppend
    <3>2. Elems(flushed \o buffer) = Elems(flushed) \cup Elems(buffer)
      BY <1>0, ElemsConcat
    <3>3. Elems(<<hand>>) = {hand}
      BY DEF Elems
    <3>4. QED
      BY <1>11, <3>1, <3>2, <3>3 DEF WriteLine
  <2>3. pc = "write" /\ pc' = "drain" /\ channel' = channel
    BY <1>11 DEF WriteLine, Running
  <2>4. QED
    BY <1>11, <2>2, <2>3 DEF WriteLine, OwedInv, OnItsWay
<1>12. CASE Cancel
  <2>1. pc \notin {"final", "stopped"}
    BY <1>12 DEF Cancel, OwedInv
  <2>2. owed' \subseteq Elems(channel) \cup Elems(buffer) \cup {hand}
    BY <1>12 DEF Cancel, InFlight
  <2>3. QED
    BY <1>12, <2>1, <2>2 DEF Cancel, OwedInv, OnItsWay
<1>13. CASE Exit
  BY <1>13 DEF Exit, OwedInv, OnItsWay
<1>14. CASE Restart
  BY <1>14 DEF Restart, OwedInv
<1>15. CASE UNCHANGED vars
  BY <1>15 DEF vars, OwedInv, OnItsWay
<1>16. QED
  BY <1>1, <1>2, <1>3, <1>4, <1>5, <1>6, <1>7, <1>8, <1>9, <1>10, <1>11, <1>12, <1>13,
     <1>14, <1>15 DEF Next, WriterStep

\* No entry vanishes between record and the files, at any moment of any run:
\* see Accounted.
THEOREM AccountedAlways == Spec => []Accounted
<1> DEFINE AInv == TInv /\ CountInv /\ OwedInv
<1>1. Init => AInv
  <2> SUFFICES ASSUME Init PROVE AInv
    OBVIOUS
  <2>1. CountInv
    BY EmptyFile DEF Init, CountInv, InHand
  <2>2. OwedInv
    BY DEF Init, OwedInv
  <2>3. QED
    BY <2>1, <2>2, TypeInit
<1>2. AInv /\ [Next]_vars => AInv'
  BY TypeStep, CountStep, OwedStep
<1>3. AInv => Accounted
  <2> SUFFICES ASSUME AInv PROVE Accounted
    OBVIOUS
  <2>1. CASE pc = "stopped"
    <3>1. Elems(buffer) = {}
      BY <2>1, ElemsEmpty DEF OwedInv
    <3>2. QED
      BY <2>1, <3>1 DEF OwedInv, OnItsWay, Accounted
  <2>2. CASE pc # "stopped"
    BY <2>2 DEF CountInv, InHand, Accounted
  <2>3. QED
    BY <2>1, <2>2
<1>4. QED
  BY <1>1, <1>2, <1>3, PTL DEF Spec

-----------------------------------------------------------------------------
(* The footprint.  A file may hold Cap lines; the open one, with its buffer, *)
(* has room for one more when a line is about to be written, and is larger   *)
(* than curSize by at most what given-up rotations allow.                    *)

Given == MaxFileSize * skipped
Cap == MaxFileSize * (1 + skipped)
OpenSize == Len(dir[handle]) + Len(buffer)

OpenBounded ==
    handle # Unlinked =>
        /\ OpenSize <= Cap
        /\ OpenSize <= curSize + Given
        /\ pc = "write" => OpenSize + 1 <= Cap
RotationState ==
    /\ maxFiles <= widest
    /\ pc \in {"remove", "shift", "open"} => buffer = <<>>
    /\ pc = "open" /\ dir[0] # Absent => Len(dir[0]) <= Given
\* However many rotations were given up, and whatever max_files was.
FilesBounded ==
    \A n \in Names : dir[n] # Absent =>
        n < widest /\ Len(dir[n]) <= MaxFileSize * (1 + skipped)
SizeInv == FilesBounded /\ OpenBounded /\ RotationState

\* One more rotation given up allows one more file's worth.
LEMMA Allowance ==
    ASSUME TypeOK
    PROVE  /\ MaxFileSize \in Nat \ {0} /\ Given \in Nat /\ Cap \in Nat
           /\ Cap = Given + MaxFileSize
           /\ skipped' = skipped => Given' = Given /\ Cap' = Cap
           /\ skipped' = skipped + 1 => Given' = Cap /\ Cap' = Cap + MaxFileSize
<1>1. MaxFileSize \in Nat \ {0} /\ skipped \in Nat
  BY QueryLogAssumption DEF TypeOK
<1>2. ASSUME NEW m \in Nat, NEW k \in Nat
      PROVE  m * k \in Nat /\ m * (1 + k) = m * k + m /\ m * (1 + (k + 1)) = m * (1 + k) + m
             /\ m * (k + 1) = m * (1 + k)
  BY <1>2
<1>3. QED
  BY <1>1, <1>2 DEF Given, Cap

\* The sizes are numbers.
LEMMA SizeTypes ==
    ASSUME TInv
    PROVE  /\ handle # Unlinked =>
                 /\ handle \in Names /\ dir[handle] \in Seq(Numbers)
                 /\ Len(dir[handle]) \in Nat /\ OpenSize \in Nat
           /\ curSize \in Nat /\ Len(buffer) \in Nat
<1>1. buffer \in Seq(Numbers) /\ Len(buffer) \in Nat /\ curSize \in Nat
  BY LenProperties DEF TInv, TypeOK
<1>2. ASSUME handle # Unlinked
      PROVE  handle \in Names /\ dir[handle] \in Seq(Numbers) /\ Len(dir[handle]) \in Nat
  BY <1>2, FileType DEF TInv, TypeOK, Linked
<1>3. QED
  BY <1>1, <1>2 DEF OpenSize

\* A flush moves lines from the buffer to the open file, or loses them.
LEMMA FlushSizes ==
    ASSUME TInv, handle' = handle, FlushOk \/ FlushFails
    PROVE  /\ \A n \in Names : dir'[n] # Absent <=> dir[n] # Absent
           /\ \A n \in Names : n # handle => dir'[n] = dir[n]
           /\ handle # Unlinked =>
                 /\ OpenSize' \in Nat /\ OpenSize' <= OpenSize
                 /\ Len(dir'[handle]) <= OpenSize
                 /\ lost' = {} => OpenSize' = OpenSize
           /\ FlushOk => buffer' = <<>> /\ Len(buffer') = 0
<1>0. buffer \in Seq(Numbers)
  BY DEF TInv, TypeOK
<1>s. /\ handle # Unlinked =>
           /\ handle \in Names /\ dir[handle] \in Seq(Numbers)
           /\ Len(dir[handle]) \in Nat /\ OpenSize \in Nat
      /\ Len(buffer) \in Nat
  BY SizeTypes
<1>e. Len(<<>>) = 0
  BY EmptyFile
<1>1. CASE FlushOk
  <2>1. dir' = Appended(buffer) /\ buffer' = <<>>
    BY <1>1 DEF FlushOk
  <2>2. /\ handle # Unlinked =>
              /\ Appended(buffer)[handle] = dir[handle] \o buffer
              /\ Len(dir[handle] \o buffer) = Len(dir[handle]) + Len(buffer)
        /\ \A n \in Names : n # handle => Appended(buffer)[n] = dir[n]
        /\ \A n \in Names : Appended(buffer)[n] = Absent <=> dir[n] = Absent
    BY <1>0, AppendedFact
  <2>3. ASSUME handle # Unlinked
        PROVE  Len(dir'[handle]) = OpenSize /\ OpenSize' = OpenSize
    <3>1. Len(dir'[handle]) = OpenSize /\ Len(buffer') = 0
      BY <1>e, <2>1, <2>2, <2>3 DEF OpenSize
    <3>2. OpenSize' = Len(dir'[handle]) + Len(buffer')
      BY DEF OpenSize
    <3>3. QED
      BY <1>s, <2>3, <3>1, <3>2
  <2>4. QED
    BY <1>s, <1>e, <2>1, <2>2, <2>3
<1>2. CASE FlushLoses
  <2>1. dir' = dir /\ buffer' = <<>> /\ Len(buffer') = 0 /\ lost' = lost \cup Elems(buffer)
        /\ buffer # <<>>
    BY <1>2, <1>e DEF FlushLoses
  <2>2. OpenSize' = Len(dir[handle]) + Len(buffer')
    BY <2>1 DEF OpenSize
  <2>3. lost' # {}
    BY <1>0, <2>1, ElemsTail
  <2>4. QED
    BY <1>s, <2>1, <2>2, <2>3 DEF OpenSize
<1>3. CASE FlushFails /\ ~FlushLoses /\ ~FlushOk
  BY <1>s, <1>3 DEF FlushFails, OpenSize
<1>4. QED
  BY <1>1, <1>2, <1>3

\* Only the open file changed, and it is within bounds.
LEMMA FootprintFrame ==
    ASSUME TInv, TInv', FilesBounded, UNCHANGED <<handle, widest>>, Cap <= Cap',
           \A n \in Names : dir'[n] # Absent <=> dir[n] # Absent,
           \A n \in Names : n # handle => dir'[n] = dir[n],
           handle # Unlinked => Len(dir'[handle]) <= Cap'
    PROVE  FilesBounded'
<1> SUFFICES ASSUME NEW n \in Names, dir'[n] # Absent
             PROVE  n < widest /\ Len(dir'[n]) <= Cap'
  BY DEF FilesBounded, Cap
<1>1. n < widest /\ Len(dir[n]) <= Cap /\ Len(dir[n]) \in Nat
  BY FileType DEF FilesBounded, Cap, TInv
<1>2. Cap \in Nat /\ Cap' \in Nat
  <2>1. Cap \in Nat
    BY Allowance DEF TInv
  <2>2. Cap' \in Nat
    <3>1. skipped' \in Nat /\ MaxFileSize \in Nat
      BY QueryLogAssumption DEF TInv, TypeOK
    <3>2. \A m, k \in Nat : m * (1 + k) \in Nat
      OBVIOUS
    <3>3. QED
      BY <3>1, <3>2 DEF Cap
  <2>3. QED
    BY <2>1, <2>2
<1>3. CASE n = handle
  <2>1. handle # Unlinked
    BY <1>3, NamesFact, QueryLogAssumption
  <2>2. QED
    BY <1>1, <1>3, <2>1
<1>4. CASE n # handle
  BY <1>1, <1>2, <1>4
<1>5. QED
  BY <1>3, <1>4

\* Every step keeps the footprint within its bound.
LEMMA SizeStep == TInv /\ SizeInv /\ [Next]_vars => SizeInv'
<1> SUFFICES ASSUME TInv, SizeInv, [Next]_vars PROVE SizeInv'
  OBVIOUS
<1> USE DEF SizeInv
<1>t. TInv'
  BY TypeStep
<1>a. /\ MaxFileSize \in Nat \ {0} /\ Given \in Nat /\ Cap \in Nat
      /\ Cap = Given + MaxFileSize
      /\ skipped' = skipped => Given' = Given /\ Cap' = Cap
      /\ skipped' = skipped + 1 => Given' = Cap /\ Cap' = Cap + MaxFileSize
  BY Allowance DEF TInv
<1>s. /\ handle # Unlinked =>
           /\ handle \in Names /\ dir[handle] \in Seq(Numbers)
           /\ Len(dir[handle]) \in Nat /\ OpenSize \in Nat
      /\ curSize \in Nat /\ Len(buffer) \in Nat
  BY SizeTypes
<1>n. /\ Names \subseteq Nat /\ 0 \in Names /\ Unlinked \notin Names
      /\ \A m \in MaxFiles : \A n \in Nat : n < m => n \in Names
      /\ MaxFiles \subseteq Nat \ {0} /\ maxFiles \in MaxFiles /\ widest \in MaxFiles
  BY NamesFact, QueryLogAssumption DEF TInv, TypeOK
<1>e. Len(<<>>) = 0
  BY EmptyFile
<1>f. \A n \in Names : dir[n] # Absent =>
         n < widest /\ Len(dir[n]) <= Cap /\ Len(dir[n]) \in Nat
  BY FileType DEF FilesBounded, Cap, TInv
<1>u. ASSUME UNCHANGED <<dir, handle, buffer, curSize, skipped, maxFiles, widest>>,
             pc' # "write" \/ pc = "write",
             pc' \in {"remove", "shift", "open"} => pc' = pc
      PROVE  SizeInv'
  BY <1>u DEF FilesBounded, OpenBounded, RotationState, OpenSize, Cap, Given
<1>1. CASE Record
  BY <1>1, <1>u DEF Record
<1>2. CASE SelectEntry \/ DrainNext
  BY <1>2, <1>u DEF SelectEntry, DrainNext, Receive
<1>3. CASE SelectShutdown
  BY <1>3, <1>u DEF SelectShutdown
<1>4. CASE (EndBatch \/ Stop)
  <2>1. /\ FlushOk \/ FlushFails
        /\ UNCHANGED <<handle, curSize, skipped, maxFiles, widest>>
        /\ pc' \in {"final", "select", "stopped"}
    BY <1>4 DEF EndBatch, Stop, FlushFails
  <2>2. /\ \A n \in Names : dir'[n] # Absent <=> dir[n] # Absent
        /\ \A n \in Names : n # handle => dir'[n] = dir[n]
        /\ handle # Unlinked =>
              /\ OpenSize' \in Nat /\ OpenSize' <= OpenSize
              /\ Len(dir'[handle]) <= OpenSize
    BY <2>1, FlushSizes
  <2>3. handle # Unlinked => Len(dir'[handle]) <= Cap'
    <3>1. ASSUME handle # Unlinked PROVE Len(dir'[handle]) <= Cap'
      <4>1. dir'[handle] \in Seq(Numbers) /\ Len(dir'[handle]) \in Nat
        BY <1>t, <2>1, <3>1, LenProperties DEF TInv, TypeOK, Linked
      <4>2. QED
        BY <1>a, <1>s, <2>1, <2>2, <3>1, <4>1 DEF OpenBounded
    <3>2. QED
      BY <3>1
  <2>4. FilesBounded'
    BY <1>a, <1>t, <2>1, <2>2, <2>3, FootprintFrame
  <2>5. OpenBounded'
    BY <1>a, <1>s, <2>1, <2>2 DEF OpenBounded
  <2>6. RotationState'
    BY <2>1 DEF RotationState
  <2>7. QED
    BY <2>4, <2>5, <2>6
<1>6. CASE BeginEntry
  <2>0. UNCHANGED <<handle, curSize, maxFiles, widest>> /\ pc = "entry"
    BY <1>6 DEF BeginEntry, Running
  <2>1. CASE ~MustRotate /\ pc' = "write" /\ UNCHANGED <<dir, flushed, buffer, lost, skipped>>
    <3>1. curSize + 1 <= MaxFileSize \/ curSize = 0
      BY <1>a, <1>s, <2>1 DEF MustRotate
    <3>2. Given' = Given /\ Cap' = Cap /\ OpenSize' = OpenSize
      BY <1>a, <2>0, <2>1 DEF OpenSize
    <3>3. handle # Unlinked => OpenSize + 1 <= Cap
      BY <1>a, <1>s, <3>1 DEF OpenBounded
    <3>4. OpenBounded'
      BY <2>0, <3>2, <3>3 DEF OpenBounded
    <3>5. FilesBounded' /\ RotationState'
      BY <2>0, <2>1 DEF FilesBounded, RotationState
    <3>6. QED
      BY <3>4, <3>5
  <2>2. CASE /\ FlushOk \/ FlushFails
             /\ \/ FlushOk /\ pc' = "remove" /\ skipped' = skipped
                \/ pc' = "write" /\ skipped' = skipped + 1
    <3>1. /\ \A n \in Names : dir'[n] # Absent <=> dir[n] # Absent
          /\ \A n \in Names : n # handle => dir'[n] = dir[n]
          /\ handle # Unlinked =>
                /\ OpenSize' \in Nat /\ OpenSize' <= OpenSize
                /\ Len(dir'[handle]) <= OpenSize
          /\ FlushOk => buffer' = <<>>
      BY <2>0, <2>2, FlushSizes
    <3>2. Cap <= Cap' /\ Given <= Given' /\ Cap' \in Nat /\ Given' \in Nat
      BY <1>a, <2>2
    <3>3. handle # Unlinked => Len(dir'[handle]) <= Cap'
      <4>1. ASSUME handle # Unlinked PROVE Len(dir'[handle]) <= Cap'
        <5>1. dir'[handle] \in Seq(Numbers) /\ Len(dir'[handle]) \in Nat
          BY <1>t, <2>0, <4>1, LenProperties DEF TInv, TypeOK, Linked
        <5>2. QED
          BY <1>a, <1>s, <3>1, <3>2, <4>1, <5>1 DEF OpenBounded
      <4>2. QED
        BY <4>1
    <3>4. FilesBounded'
      BY <1>t, <2>0, <3>1, <3>2, <3>3, FootprintFrame
    <3>5. OpenBounded'
      <4>1. pc' = "write" => Cap' = Cap + MaxFileSize
        BY <1>a, <2>2
      <4>2. QED
        BY <1>a, <1>s, <2>0, <3>1, <3>2, <4>1 DEF OpenBounded
    <3>6. RotationState'
      BY <2>0, <2>2, <3>1 DEF RotationState
    <3>7. QED
      BY <3>4, <3>5, <3>6
  <2>3. QED
    BY <1>6, <2>1, <2>2 DEF BeginEntry
<1>7. CASE RemoveOldest
  <2>1. /\ UNCHANGED <<buffer, curSize, skipped, maxFiles, widest>> /\ pc' = "shift"
        /\ pc = "remove"
    BY <1>7 DEF RemoveOldest, Running
  <2>2. CASE maxFiles >= 2
    <3>1. maxFiles - 1 \in Names
      BY <1>n, <2>2
    <3>2. /\ dir' = [dir EXCEPT ![maxFiles - 1] = Absent]
          /\ handle' = HandleAfterRemove(maxFiles - 1)
      BY <1>7, <2>2 DEF RemoveOldest
    <3>3. /\ dir'[maxFiles - 1] = Absent
          /\ \A n \in Names \ {maxFiles - 1} : dir'[n] = dir[n]
          /\ handle' # Unlinked =>
                /\ handle # Unlinked /\ handle' = handle
                /\ dir'[handle] = dir[handle]
      BY <3>1, <3>2, RemovedFact
    <3>4. FilesBounded'
      BY <1>a, <1>f, <2>1, <3>3 DEF FilesBounded, Cap
    <3>5. OpenBounded'
      BY <1>a, <2>1, <3>3 DEF OpenBounded, OpenSize
    <3>6. RotationState'
      BY <2>1 DEF RotationState
    <3>7. QED
      BY <3>4, <3>5, <3>6
  <2>3. CASE ~(maxFiles >= 2)
    <3>1. UNCHANGED <<dir, handle>>
      BY <1>7, <2>3 DEF RemoveOldest
    <3>2. QED
      BY <2>1, <3>1 DEF FilesBounded, OpenBounded, RotationState, OpenSize, Cap, Given
  <2>4. QED
    BY <2>2, <2>3
<1>8. CASE ShiftBackup
  <2>1. /\ UNCHANGED <<pc, buffer, curSize, skipped, maxFiles, widest>> /\ pc = "shift"
    BY <1>8 DEF ShiftBackup, Running
  <2>2. CASE /\ dir[shift] # Absent /\ dir' = Renamed(dir, shift, shift + 1)
             /\ handle' = HandleAfterRename(shift, shift + 1)
    <3>1. shift \in Names /\ shift + 1 \in Names /\ shift # shift + 1 /\ shift + 1 < maxFiles
      BY <1>n, <1>8 DEF ShiftBackup, Running, TInv, TypeOK, Shifting
    <3>2. /\ dir'[shift] = Absent /\ dir'[shift + 1] = dir[shift]
          /\ \A n \in Names \ {shift, shift + 1} : dir'[n] = dir[n]
          /\ handle' # Unlinked => handle # Unlinked /\ dir'[handle'] = dir[handle]
      BY <2>2, <3>1, RenamedFact
    <3>3. FilesBounded'
      <4>1. shift + 1 < widest
        BY <1>n, <3>1 DEF RotationState
      <4>2. Len(dir[shift]) <= Cap
        BY <1>f, <2>2, <3>1
      <4>3. ASSUME NEW n \in Names, dir'[n] # Absent PROVE n < widest /\ Len(dir'[n]) <= Cap
        <5>1. CASE n = shift + 1
          BY <3>2, <4>1, <4>2, <5>1
        <5>2. CASE n # shift + 1
          BY <1>f, <3>2, <4>3, <5>2
        <5>3. QED
          BY <5>1, <5>2
      <4>4. QED
        BY <2>1, <4>3 DEF FilesBounded, Cap
    <3>4. OpenBounded'
      BY <1>a, <2>1, <3>2 DEF OpenBounded, OpenSize
    <3>5. RotationState'
      BY <2>1 DEF RotationState
    <3>6. QED
      BY <3>3, <3>4, <3>5
  <2>3. CASE UNCHANGED <<dir, handle>>
    BY <1>u, <2>1, <2>3
  <2>4. QED
    BY <1>8, <2>2, <2>3 DEF ShiftBackup
<1>9. CASE RetireBase
  <2>1. /\ UNCHANGED <<buffer, curSize, maxFiles, widest>> /\ pc = "shift" /\ buffer = <<>>
    BY <1>9 DEF RetireBase, Running, RotationState
  <2>2. CASE /\ maxFiles >= 2 /\ dir[0] # Absent /\ dir' = Renamed(dir, 0, 1)
             /\ handle' = HandleAfterRename(0, 1) /\ pc' = "open" /\ skipped' = skipped
    <3>1. 1 \in Names /\ 1 < widest
      BY <1>n, <2>2 DEF RotationState
    <3>2. /\ dir'[0] = Absent /\ dir'[1] = dir[0]
          /\ \A n \in Names \ {0, 1} : dir'[n] = dir[n]
          /\ handle' # Unlinked => handle # Unlinked /\ dir'[handle'] = dir[handle]
      BY <1>n, <2>2, <3>1, RenamedFact
    <3>3. FilesBounded'
      <4>1. ASSUME NEW n \in Names, dir'[n] # Absent PROVE n < widest /\ Len(dir'[n]) <= Cap
        <5>1. CASE n = 1
          BY <1>f, <1>n, <2>2, <3>1, <3>2, <5>1
        <5>2. CASE n # 1
          BY <1>f, <3>2, <4>1, <5>2
        <5>3. QED
          BY <5>1, <5>2
      <4>2. QED
        BY <2>1, <2>2, <4>1 DEF FilesBounded, Cap
    <3>4. OpenBounded'
      BY <1>a, <2>1, <2>2, <3>2 DEF OpenBounded, OpenSize
    <3>5. RotationState'
      BY <2>1, <2>2, <3>2 DEF RotationState
    <3>6. QED
      BY <3>3, <3>4, <3>5
  <2>3. CASE /\ pc' \in {"write", "open"} /\ skipped' = skipped + 1 /\ UNCHANGED <<dir, handle>>
    <3>1. OpenSize' = OpenSize
      BY <2>1, <2>3 DEF OpenSize
    <3>2. Cap' = Cap + MaxFileSize /\ Given' = Cap
      BY <1>a, <2>3
    <3>3. FilesBounded'
      <4>1. ASSUME NEW n \in Names, dir[n] # Absent PROVE n < widest /\ Len(dir[n]) <= Cap'
        BY <1>a, <1>f, <3>2, <4>1
      <4>2. QED
        BY <2>1, <2>3, <4>1 DEF FilesBounded, Cap
    <3>4. OpenBounded'
      BY <1>a, <1>s, <2>1, <2>3, <3>1, <3>2 DEF OpenBounded
    <3>5. RotationState'
      BY <1>f, <1>n, <2>1, <2>3, <3>2 DEF RotationState
    <3>6. QED
      BY <3>3, <3>4, <3>5
  <2>4. CASE /\ dir' = [dir EXCEPT ![0] = Absent] /\ handle' = HandleAfterRemove(0)
             /\ pc' = "open" /\ skipped' = skipped
    <3>1. /\ dir'[0] = Absent
          /\ \A n \in Names \ {0} : dir'[n] = dir[n]
          /\ handle' # Unlinked =>
                /\ handle # Unlinked /\ handle' = handle
                /\ dir'[handle] = dir[handle]
      BY <1>n, <2>4, RemovedFact
    <3>2. FilesBounded'
      BY <1>a, <1>f, <2>1, <2>4, <3>1 DEF FilesBounded, Cap
    <3>3. OpenBounded'
      BY <1>a, <2>1, <2>4, <3>1 DEF OpenBounded, OpenSize
    <3>4. RotationState'
      BY <2>1, <2>4, <3>1 DEF RotationState
    <3>5. QED
      BY <3>2, <3>3, <3>4
  <2>5. QED
    BY <1>9, <2>2, <2>3, <2>4 DEF RetireBase
<1>10. CASE Reopen
  <2>1. UNCHANGED <<buffer, maxFiles, widest>> /\ pc = "open" /\ buffer = <<>> /\ pc' = "write"
    BY <1>10 DEF Reopen, Running, RotationState
  <2>2. CASE /\ dir' = Opened(dir) /\ handle' = 0 /\ curSize' = 0 /\ skipped' = skipped
    <3>1. /\ dir'[0] = IF dir[0] = Absent THEN <<>> ELSE dir[0]
          /\ \A n \in Names \ {0} : dir'[n] = dir[n]
      BY <2>2, OpenedFact
    <3>2. Len(dir'[0]) <= Given /\ Len(dir'[0]) \in Nat
      BY <1>a, <1>e, <1>f, <1>n, <2>1, <3>1 DEF RotationState
    <3>3. OpenSize' = Len(dir'[0])
      BY <1>e, <2>1, <2>2, <3>2 DEF OpenSize
    <3>4. OpenBounded'
      BY <1>a, <2>1, <2>2, <3>2, <3>3 DEF OpenBounded
    <3>5. FilesBounded'
      <4>1. 0 < widest
        BY <1>n
      <4>2. ASSUME NEW n \in Names, dir'[n] # Absent PROVE n < widest /\ Len(dir'[n]) <= Cap
        <5>1. CASE n = 0
          BY <1>a, <3>2, <4>1, <5>1
        <5>2. CASE n # 0
          BY <1>f, <3>1, <4>2, <5>2
        <5>3. QED
          BY <5>1, <5>2
      <4>3. QED
        BY <2>1, <2>2, <4>2 DEF FilesBounded, Cap
    <3>6. QED
      BY <2>1, <3>4, <3>5 DEF RotationState
  <2>3. CASE UNCHANGED <<dir, handle, curSize>> /\ skipped' = skipped + 1
    <3>1. OpenSize' = OpenSize
      BY <2>1, <2>3 DEF OpenSize
    <3>2. Cap' = Cap + MaxFileSize /\ Given' = Cap
      BY <1>a, <2>3
    <3>3. FilesBounded'
      <4>1. ASSUME NEW n \in Names, dir[n] # Absent PROVE n < widest /\ Len(dir[n]) <= Cap'
        BY <1>a, <1>f, <3>2, <4>1
      <4>2. QED
        BY <2>1, <2>3, <4>1 DEF FilesBounded, Cap
    <3>4. OpenBounded'
      BY <1>a, <1>s, <2>1, <2>3, <3>1, <3>2 DEF OpenBounded
    <3>5. QED
      BY <2>1, <3>3, <3>4 DEF RotationState
  <2>4. QED
    BY <1>10, <2>2, <2>3 DEF Reopen
<1>11. CASE WriteLine
  <2>1. /\ UNCHANGED <<handle, skipped, maxFiles, widest>> /\ pc = "write" /\ pc' = "drain"
        /\ hand \in Numbers /\ buffer \in Seq(Numbers)
    BY <1>11 DEF WriteLine, Running, TInv, TypeOK, Handed
  <2>2. /\ Len(Append(buffer, hand)) = Len(buffer) + 1 /\ Len(<<hand>>) = 1
    BY <2>1, AppendProperties
  <2>3. CASE /\ buffer' = Append(buffer, hand) /\ curSize' = curSize + 1 /\ dir' = dir
    <3>1. handle # Unlinked => OpenSize' = OpenSize + 1
      <4>1. Len(buffer') = Len(buffer) + 1
        BY <2>2, <2>3
      <4>2. /\ OpenSize' = Len(dir[handle]) + Len(buffer')
            /\ OpenSize = Len(dir[handle]) + Len(buffer)
        BY <2>1, <2>3 DEF OpenSize
      <4>3. \A a, b \in Nat : a + (b + 1) = (a + b) + 1
        OBVIOUS
      <4>4. handle # Unlinked => Len(dir[handle]) \in Nat /\ Len(buffer) \in Nat
        BY <1>s
      <4>5. QED
        BY <4>1, <4>2, <4>3, <4>4, Zenon
    <3>2. OpenBounded'
      BY <1>a, <1>s, <2>1, <2>3, <3>1 DEF OpenBounded
    <3>3. FilesBounded' /\ RotationState'
      BY <2>1, <2>3 DEF FilesBounded, RotationState
    <3>4. QED
      BY <3>2, <3>3
  <2>4. CASE dir' = Appended(buffer) /\ buffer' = <<hand>> /\ curSize' = curSize + 1
    <3>1. /\ handle # Unlinked =>
                /\ dir'[handle] = dir[handle] \o buffer
                /\ Len(dir'[handle]) = Len(dir[handle]) + Len(buffer)
          /\ \A n \in Names : n # handle => dir'[n] = dir[n]
          /\ \A n \in Names : dir'[n] = Absent <=> dir[n] = Absent
      BY <2>1, <2>4, AppendedFact
    <3>2. handle # Unlinked => OpenSize' = OpenSize + 1 /\ Len(dir'[handle]) = OpenSize
      BY <1>s, <2>1, <2>2, <2>4, <3>1 DEF OpenSize
    <3>3. OpenBounded'
      BY <1>a, <1>s, <2>1, <2>4, <3>2 DEF OpenBounded
    <3>4. FilesBounded'
      <4>1. handle # Unlinked => Len(dir'[handle]) <= Cap'
        BY <1>a, <2>1, <3>2 DEF OpenBounded
      <4>2. QED
        BY <1>a, <1>t, <2>1, <3>1, <4>1, FootprintFrame
    <3>5. QED
      BY <2>1, <3>3, <3>4 DEF RotationState
  <2>5. CASE UNCHANGED <<dir, buffer, curSize>>
    BY <1>u, <2>1, <2>5
  <2>6. QED
    BY <1>11, <2>3, <2>4, <2>5 DEF WriteLine
<1>12. CASE Cancel
  BY <1>12, <1>u DEF Cancel
<1>13. CASE Exit
  BY <1>13, <1>u DEF Exit
<1>14. CASE Restart
  <2>1. /\ dir' = Opened(dir) /\ handle' = 0 /\ buffer' = <<>> /\ skipped' = skipped
        /\ curSize' = Len(dir'[0]) /\ pc' = "select"
    BY <1>14 DEF Restart
  <2>2. widest <= widest' /\ maxFiles' <= widest' /\ widest' \in MaxFiles
    BY <1>n, <1>14 DEF Restart
  <2>3. /\ dir'[0] = IF dir[0] = Absent THEN <<>> ELSE dir[0]
        /\ \A n \in Names \ {0} : dir'[n] = dir[n]
    BY <2>1, OpenedFact
  <2>4. Len(dir'[0]) <= Cap /\ Len(dir'[0]) \in Nat
    BY <1>a, <1>e, <1>f, <1>n, <2>3
  <2>5. OpenSize' = Len(dir'[0])
    BY <1>e, <2>1, <2>4 DEF OpenSize
  <2>6. OpenBounded'
    BY <1>a, <2>1, <2>4, <2>5 DEF OpenBounded
  <2>7. FilesBounded'
    <3>1. ASSUME NEW n \in Names, dir'[n] # Absent PROVE n < widest' /\ Len(dir'[n]) <= Cap
      <4>1. CASE n = 0
        BY <1>n, <2>2, <2>4, <4>1
      <4>2. CASE n # 0
        BY <1>f, <1>n, <2>2, <2>3, <3>1, <4>2
      <4>3. QED
        BY <4>1, <4>2
    <3>2. QED
      BY <2>1, <3>1 DEF FilesBounded, Cap
  <2>8. QED
    BY <2>1, <2>2, <2>6, <2>7 DEF RotationState
<1>15. CASE UNCHANGED vars
  BY <1>15, <1>u DEF vars
<1>16. QED
  BY <1>1, <1>2, <1>3, <1>4, <1>6, <1>7, <1>8, <1>9, <1>10, <1>11, <1>12, <1>13,
     <1>14, <1>15 DEF Next, WriterStep

\* The first state is within the bound.
LEMMA SizeInit == Init => SizeInv
<1> SUFFICES ASSUME Init PROVE SizeInv
  OBVIOUS
<1>1. TInv
  BY TypeInit
<1>2. Given = 0 /\ Cap = MaxFileSize /\ MaxFileSize \in Nat \ {0}
  BY QueryLogAssumption DEF Init, Given, Cap
<1>3. 0 \in Names /\ Len(<<>>) = 0 /\ maxFiles \in Nat \ {0} /\ widest = maxFiles
      /\ 0 # Unlinked
  BY NamesFact, EmptyFile, QueryLogAssumption DEF Init
<1>4. \A n \in Names : dir[n] # Absent => n = 0 /\ dir[n] = <<>>
  BY DEF Init
<1>5. FilesBounded
  BY <1>2, <1>3, <1>4 DEF FilesBounded, Cap
<1>6. OpenSize = 0
  BY <1>3 DEF Init, OpenSize
<1>7. OpenBounded
  BY <1>2, <1>6 DEF Init, OpenBounded
<1>8. RotationState
  BY <1>3 DEF Init, RotationState
<1>9. QED
  BY <1>5, <1>7, <1>8 DEF SizeInv

\* What may fail is fixed for a behaviour.
LEMMA FaultsFixed == [Next]_vars => faults' = faults
<1> SUFFICES ASSUME [Next]_vars PROVE faults' = faults
  OBVIOUS
<1>1. CASE Record \/ Cancel \/ Exit \/ Restart
  BY <1>1 DEF Record, Cancel, Exit, Restart
<1>2. CASE SelectEntry \/ SelectShutdown \/ DrainNext \/ EndBatch \/ Stop
  BY <1>2 DEF SelectEntry, SelectShutdown, DrainNext, Receive, EndBatch, Stop
<1>3. CASE BeginEntry \/ RemoveOldest \/ ShiftBackup
  BY <1>3 DEF BeginEntry, RemoveOldest, ShiftBackup
<1>4. CASE RetireBase \/ Reopen \/ WriteLine
  BY <1>4 DEF RetireBase, Reopen, WriteLine
<1>5. CASE UNCHANGED vars
  BY <1>5 DEF vars
<1>6. QED
  BY <1>1, <1>2, <1>3, <1>4, <1>5 DEF Next, WriterStep

\* Nothing is given up while every call succeeds; and until something is, the
\* open file is path, but for the moment between its renaming and the next open.
SteadyInv ==
    /\ faults = {} => skipped = 0 /\ widest = maxFiles
    /\ skipped = 0 /\ pc # "open" => handle = 0

\* Every step keeps it so.
LEMMA SteadyStep == TInv /\ SteadyInv /\ [Next]_vars => SteadyInv'
<1> SUFFICES ASSUME TInv, SteadyInv, [Next]_vars PROVE SteadyInv'
  OBVIOUS
<1>n. /\ Names \subseteq Nat /\ 0 \in Names /\ Unlinked \notin Nat
      /\ maxFiles \in Nat \ {0} /\ widest \in Nat /\ skipped \in Nat /\ shift \in Nat
  BY NamesFact, QueryLogAssumption DEF TInv, TypeOK
<1>c. faults' = faults
  BY FaultsFixed
<1>0. skipped = 0 /\ pc # "open" => handle = 0 /\ dir[0] # Absent
  BY <1>n DEF SteadyInv, TInv, Linked
<1>u. ASSUME UNCHANGED <<handle, skipped, maxFiles, widest>>, pc' # "open" => pc # "open"
      PROVE  SteadyInv'
  BY <1>c, <1>u DEF SteadyInv
<1>1. CASE Record \/ Cancel \/ Exit
  BY <1>1, <1>u DEF Record, Cancel, Exit
<1>2. CASE SelectEntry \/ SelectShutdown \/ DrainNext
  BY <1>2, <1>u DEF SelectEntry, SelectShutdown, DrainNext, Receive, Running
<1>3. CASE EndBatch \/ Stop
  BY <1>3, <1>u DEF EndBatch, Stop, Running
<1>4. CASE BeginEntry
  <2>1. /\ UNCHANGED <<handle, maxFiles, widest>> /\ pc = "entry"
        /\ skipped' = skipped \/ (skipped' = skipped + 1 /\ faults # {})
    BY <1>4 DEF BeginEntry, Running, FlushFails, FlushLoses
  <2>2. QED
    BY <1>c, <1>n, <2>1 DEF SteadyInv
<1>5. CASE RemoveOldest
  <2>1. /\ UNCHANGED <<skipped, maxFiles, widest>> /\ pc = "remove" /\ pc' = "shift"
        /\ handle' \in {handle, HandleAfterRemove(maxFiles - 1)}
        /\ handle' = HandleAfterRemove(maxFiles - 1) => handle' = handle \/ maxFiles >= 2
    BY <1>5 DEF RemoveOldest, Running
  <2>2. skipped = 0 => handle' = 0
    BY <1>0, <1>n, <2>1 DEF HandleAfterRemove
  <2>3. QED
    BY <1>c, <2>1, <2>2 DEF SteadyInv
<1>6. CASE ShiftBackup
  <2>1. /\ UNCHANGED <<pc, skipped, maxFiles, widest>> /\ pc = "shift" /\ shift >= 1
        /\ handle' = handle \/ handle' = HandleAfterRename(shift, shift + 1)
    BY <1>6 DEF ShiftBackup, Running
  <2>2. skipped = 0 => handle' = 0
    BY <1>0, <1>n, <2>1 DEF HandleAfterRename
  <2>3. QED
    BY <1>c, <2>1, <2>2 DEF SteadyInv
<1>7. CASE RetireBase
  <2>1. /\ UNCHANGED <<maxFiles, widest>> /\ pc = "shift"
        /\ \/ pc' = "open" /\ skipped' = skipped
           \/ skipped' = skipped + 1 /\ (dir[0] = Absent \/ faults # {})
    BY <1>7 DEF RetireBase, Running
  <2>2. QED
    BY <1>0, <1>c, <1>n, <2>1 DEF SteadyInv
<1>8. CASE Reopen
  <2>1. /\ UNCHANGED <<maxFiles, widest>>
        /\ \/ handle' = 0 /\ skipped' = skipped
           \/ skipped' = skipped + 1 /\ faults # {}
    BY <1>8 DEF Reopen
  <2>2. QED
    BY <1>c, <1>n, <2>1 DEF SteadyInv
<1>9. CASE WriteLine
  BY <1>9, <1>u DEF WriteLine, Running
<1>10. CASE Restart
  <2>1. /\ handle' = 0 /\ skipped' = skipped
        /\ faults = {} => maxFiles' = maxFiles
        /\ widest' = IF maxFiles' > widest THEN maxFiles' ELSE widest
    BY <1>10 DEF Restart
  <2>2. faults = {} => widest' = maxFiles'
    BY <1>n, <2>1 DEF SteadyInv
  <2>3. QED
    BY <1>c, <2>1, <2>2 DEF SteadyInv
<1>11. CASE UNCHANGED vars
  BY <1>11, <1>u DEF vars
<1>12. QED
  BY <1>1, <1>2, <1>3, <1>4, <1>5, <1>6, <1>7, <1>8, <1>9, <1>10, <1>11 DEF Next, WriterStep

\* At most max_files files of at most max_file_bytes, through crashes at any point
\* of a rotation, until a call fails inside one or max_files is lowered, and for
\* ever when neither happens: see FootprintBounded.
THEOREM FootprintAlways == Spec => []FootprintBounded
<1> DEFINE FInv == TInv /\ SizeInv /\ SteadyInv
<1>1. Init => FInv
  BY TypeInit, SizeInit DEF Init, SteadyInv
<1>2. FInv /\ [Next]_vars => FInv'
  BY TypeStep, SizeStep, SteadyStep
<1>3. FInv => FootprintBounded
  <2> SUFFICES ASSUME FInv, skipped = 0, widest = maxFiles
               PROVE  /\ \A n \in Names : dir[n] # Absent =>
                            n < maxFiles /\ Len(dir[n]) <= MaxFileSize
                      /\ handle = Unlinked => pc = "open"
    BY DEF SteadyInv, FootprintBounded
  <2>1. MaxFileSize * (1 + skipped) = MaxFileSize /\ Unlinked # 0
    BY QueryLogAssumption
  <2>2. QED
    BY <2>1 DEF SizeInv, FilesBounded, SteadyInv
<1>4. QED
  BY <1>1, <1>2, <1>3, PTL DEF Spec

-----------------------------------------------------------------------------
(* Order.  Entries are written in the order of their numbers: what is in the *)
(* files comes before what is buffered, that before the entry in hand, that  *)
(* before what is queued, and all before the next query.                     *)

OrderInv ==
    /\ Ascending(flushed) /\ Ascending(buffer) /\ Ascending(channel)
    /\ \A x \in Elems(flushed), y \in Elems(buffer) : x < y
    /\ \A x \in Elems(flushed) \cup Elems(buffer) :
          /\ x < next
          /\ hand # Nothing => x < hand
          /\ \A y \in Elems(channel) : x < y
    /\ \A y \in Elems(channel) : y < next /\ (hand # Nothing => hand < y)
    /\ hand # Nothing => hand < next

\* Entries are naturals.
LEMMA SeqNat == \A s \in Seq(Numbers) : s \in Seq(Nat) /\ Elems(s) \subseteq Nat
<1>1. Numbers \subseteq Nat
  BY NumbersFact
<1>2. QED
  BY <1>1, SeqMonotonic, ElemsType

\* A flush keeps the order.
LEMMA FlushOrder ==
    ASSUME TInv, OrderInv, FlushOk \/ FlushFails
    PROVE  /\ Ascending(flushed') /\ Ascending(buffer')
           /\ \A x \in Elems(flushed'), y \in Elems(buffer') : x < y
           /\ Elems(flushed') \cup Elems(buffer') \subseteq Elems(flushed) \cup Elems(buffer)
<1>0. /\ buffer \in Seq(Numbers) /\ flushed \in Seq(Numbers)
      /\ buffer \in Seq(Nat) /\ flushed \in Seq(Nat)
  BY SeqNat DEF TInv, TypeOK
<1>1. CASE FlushOk
  <2>1. Elems(flushed \o buffer) = Elems(flushed) \cup Elems(buffer)
    BY <1>0, ElemsConcat
  <2>2. Ascending(flushed \o buffer)
    BY <1>0, AscendingConcat DEF OrderInv
  <2>3. QED
    BY <1>1, <2>1, <2>2, ElemsEmpty, AscendingShort DEF FlushOk
<1>2. CASE FlushLoses
  BY <1>2, ElemsEmpty, AscendingShort DEF FlushLoses, OrderInv
<1>3. CASE FlushFails /\ ~FlushLoses
  BY <1>3 DEF FlushFails, OrderInv
<1>4. QED
  BY <1>1, <1>2, <1>3

\* Every step keeps the order.
LEMMA OrderStep == TInv /\ OrderInv /\ [Next]_vars => OrderInv'
<1> SUFFICES ASSUME TInv, OrderInv, [Next]_vars PROVE OrderInv'
  OBVIOUS
<1>0. /\ channel \in Seq(Numbers) /\ buffer \in Seq(Numbers) /\ flushed \in Seq(Numbers)
      /\ channel \in Seq(Nat) /\ buffer \in Seq(Nat) /\ flushed \in Seq(Nat)
      /\ Elems(channel) \subseteq Nat /\ Elems(buffer) \subseteq Nat
      /\ Elems(flushed) \subseteq Nat
      /\ next \in Nat /\ hand \in Nat \cup {Nothing}
  BY SeqNat, NumbersFact, QueryLogAssumption DEF TInv, TypeOK
<1>u. ASSUME UNCHANGED <<flushed, buffer, channel, next, hand>> PROVE OrderInv'
  BY <1>u DEF OrderInv
<1>f. ASSUME FlushOk \/ FlushFails, UNCHANGED <<next, hand>>, channel' = channel \/ channel' = <<>>
      PROVE  OrderInv'
  <2>1. /\ Ascending(flushed') /\ Ascending(buffer')
        /\ \A x \in Elems(flushed'), y \in Elems(buffer') : x < y
        /\ Elems(flushed') \cup Elems(buffer') \subseteq Elems(flushed) \cup Elems(buffer)
    BY <1>f, FlushOrder
  <2>2. Ascending(channel') /\ Elems(channel') \subseteq Elems(channel)
    BY <1>f, AscendingShort, ElemsEmpty DEF OrderInv
  <2>3. QED
    BY <1>f, <2>1, <2>2 DEF OrderInv
<1>1. CASE Record
  <2>1. CASE UNCHANGED channel
    BY <1>0, <1>1, <2>1 DEF Record, OrderInv
  <2>2. CASE channel' = Append(channel, next)
    <3>1. next \in Numbers /\ next' = next + 1
      BY <1>1, NumbersFact DEF Record, TInv, TypeOK
    <3>2. Elems(channel') = Elems(channel) \cup {next}
      BY <1>0, <2>2, <3>1, ElemsAppend
    <3>3. Ascending(channel')
      BY <1>0, <2>2, AscendingAppend DEF OrderInv
    <3>4. UNCHANGED <<flushed, buffer, hand>>
      BY <1>1 DEF Record
    <3>5. QED
      BY <1>0, <3>1, <3>2, <3>3, <3>4 DEF OrderInv
  <2>3. QED
    BY <1>1, <2>1, <2>2 DEF Record
<1>2. CASE SelectEntry \/ DrainNext
  <2>1. PICK m \in {"batch", "drain"} : Receive(m)
    BY <1>2 DEF SelectEntry, DrainNext, TInv, TypeOK
  <2>2. Elems(channel) = {hand'} \cup Elems(channel') /\ channel # <<>>
    BY <1>0, <2>1, ElemsTail DEF Receive
  <2>3. Ascending(channel') /\ \A y \in Elems(channel') : hand' < y
    BY <1>0, <2>1, <2>2, AscendingTail DEF Receive, OrderInv
  <2>4. UNCHANGED <<flushed, buffer, next>>
    BY <2>1 DEF Receive
  <2>5. QED
    BY <2>2, <2>3, <2>4 DEF OrderInv
<1>3. CASE SelectShutdown
  BY <1>3, <1>u DEF SelectShutdown
<1>4. CASE EndBatch
  BY <1>4, <1>f DEF EndBatch
<1>5. CASE Stop
  BY <1>5, <1>f DEF Stop, FlushFails
<1>6. CASE BeginEntry
  BY <1>6, <1>f, <1>u DEF BeginEntry
<1>7. CASE RemoveOldest
  BY <1>7, <1>u DEF RemoveOldest
<1>8. CASE ShiftBackup
  BY <1>8, <1>u DEF ShiftBackup
<1>9. CASE RetireBase
  BY <1>9, <1>u DEF RetireBase
<1>10. CASE Reopen
  BY <1>10, <1>u DEF Reopen
<1>11. CASE WriteLine
  <2>1. hand \in Numbers /\ hand \in Nat /\ hand # Nothing /\ hand' = Nothing
        /\ UNCHANGED <<channel, next>>
    BY <1>11, NumbersFact DEF WriteLine, Running, TInv, TypeOK, Handed
  <2>2. /\ Ascending(flushed') /\ Ascending(buffer')
        /\ \A x \in Elems(flushed'), y \in Elems(buffer') : x < y
        /\ Elems(flushed') \cup Elems(buffer')
              \subseteq Elems(flushed) \cup Elems(buffer) \cup {hand}
    <3>1. CASE buffer' = Append(buffer, hand) /\ flushed' = flushed
      <4>1. Elems(buffer') = Elems(buffer) \cup {hand}
        BY <1>0, <2>1, <3>1, ElemsAppend
      <4>2. Ascending(buffer')
        BY <1>0, <2>1, <3>1, AscendingAppend DEF OrderInv
      <4>3. QED
        BY <2>1, <3>1, <4>1, <4>2 DEF OrderInv
    <3>2. CASE buffer' = <<hand>> /\ flushed' = flushed \o buffer
      <4>1. Elems(flushed') = Elems(flushed) \cup Elems(buffer)
        BY <1>0, <3>2, ElemsConcat
      <4>2. Ascending(flushed')
        BY <1>0, <3>2, AscendingConcat DEF OrderInv
      <4>3. Elems(buffer') = {hand} /\ Ascending(buffer')
        BY <2>1, <3>2, AscendingShort DEF Elems
      <4>4. QED
        BY <2>1, <4>1, <4>2, <4>3 DEF OrderInv
    <3>3. CASE buffer' = buffer /\ flushed' = flushed
      BY <3>3 DEF OrderInv
    <3>4. QED
      BY <1>11, <3>1, <3>2, <3>3 DEF WriteLine
  <2>3. QED
    BY <2>1, <2>2 DEF OrderInv
<1>12. CASE Cancel
  BY <1>12, <1>u DEF Cancel
<1>13. CASE Exit
  BY <1>13, <1>u DEF Exit
<1>14. CASE Restart
  BY <1>14, ElemsEmpty, AscendingShort DEF Restart, OrderInv
<1>15. CASE UNCHANGED vars
  BY <1>15, <1>u DEF vars
<1>16. QED
  BY <1>1, <1>2, <1>3, <1>4, <1>5, <1>6, <1>7, <1>8, <1>9, <1>10, <1>11, <1>12, <1>13,
     <1>14, <1>15 DEF Next, WriterStep

-----------------------------------------------------------------------------
(* Retention.  Kept is what RetainsLatest says of the files; each operation  *)
(* on the directory keeps it.                                                *)

Full == \E n \in Present : Len(dir[n]) >= MaxFileSize
Kept ==
    /\ \A n \in Present : Ascending(dir[n])
    /\ \A m, n \in Present : m < n =>
          \A x \in Elems(dir[n]), y \in Elems(dir[m]) : x < y
    /\ Lines \subseteq Elems(flushed)
    /\ \A x \in Lines, y \in Elems(flushed) : x <= y => y \in Lines
    /\ maxFiles >= 2 /\ lost = {} => Full \/ Lines = Elems(flushed)

\* The lines are those of the files that are there.
LEMMA LinesFact == \A x : x \in Lines <=> \E n \in Present : x \in Elems(dir[n])
BY DEF Lines

\* A file moves to the next name, which is free.
LEMMA KeptMove ==
    ASSUME TInv, Kept, NEW a \in Names, NEW b \in Names, b = a + 1,
           dir[a] # Absent, dir[b] = Absent, dir' = Renamed(dir, a, b),
           UNCHANGED <<flushed, maxFiles, lost>>
    PROVE  Kept'
<1>0. Names \subseteq Nat /\ a # b
  BY NamesFact
<1>1. /\ dir'[a] = Absent /\ dir'[b] = dir[a]
      /\ \A n \in Names \ {a, b} : dir'[n] = dir[n]
  BY <1>0, RenamedFact
<1>2. Present' = (Present \ {a}) \cup {b} /\ a \in Present /\ b \notin Present
      /\ Present \subseteq Names
  BY <1>0, <1>1 DEF Present
<1> DEFINE From(n) == IF n = b THEN a ELSE n
<1>3. \A n \in Present' : From(n) \in Present /\ dir'[n] = dir[From(n)]
  BY <1>0, <1>1, <1>2
<1>4. \A n \in Present : \E k \in Present' : n = From(k)
  BY <1>0, <1>2
<1>5. \A m, n \in Present' : m < n => From(m) < From(n)
  <2>1. \A m, n \in Nat : m # a /\ n # a /\ m < n => From(m) < From(n)
    BY <1>0
  <2>2. \A n \in Present' : n \in Nat /\ n # a
    BY <1>0, <1>2
  <2> HIDE DEF From
  <2>3. QED
    BY <2>1, <2>2
<1> HIDE DEF From
<1>6. Lines' = Lines
  <2>1. \A x : x \in Lines' <=> \E n \in Present' : x \in Elems(dir'[n])
    BY DEF Lines
  <2>2. \A x : x \in Lines <=> \E n \in Present : x \in Elems(dir[n])
    BY LinesFact
  <2>3. \A x : x \in Lines' => x \in Lines
    BY <1>3, <2>1, <2>2, Zenon
  <2>4. ASSUME NEW x, x \in Lines PROVE x \in Lines'
    <3>1. PICK n \in Present : x \in Elems(dir[n])
      BY <2>2, <2>4
    <3>2. PICK k \in Present' : n = From(k)
      BY <1>4
    <3>3. dir'[k] = dir[n]
      BY <1>3, <3>2
    <3>4. QED
      BY <2>1, <3>1, <3>2, <3>3
  <2>5. QED
    BY <2>3, <2>4
<1>7. Full => Full'
  BY <1>3, <1>4 DEF Full
<1>8. \A n \in Present' : Ascending(dir'[n])
  BY <1>3 DEF Kept
<1>9. \A m, n \in Present' : m < n =>
         \A x \in Elems(dir'[n]), y \in Elems(dir'[m]) : x < y
  BY <1>3, <1>5 DEF Kept
<1>10. QED
  BY <1>6, <1>7, <1>8, <1>9 DEF Kept

\* The oldest file is removed, and a full one is left.
LEMMA KeptDrop ==
    ASSUME TInv, Kept, NEW a \in Names, \A n \in Present : n <= a,
           dir' = [dir EXCEPT ![a] = Absent], UNCHANGED <<flushed, maxFiles, lost>>,
           maxFiles >= 2 /\ lost = {} => 0 # a /\ 0 \in Present /\ Len(dir[0]) >= MaxFileSize
    PROVE  Kept'
<1>0. Names \subseteq Nat /\ 0 \in Names
  BY NamesFact
<1>1. dir'[a] = Absent /\ \A n \in Names \ {a} : dir'[n] = dir[n]
  BY RemovedFact
<1>2. Present' = Present \ {a} /\ Present \subseteq Names
  BY <1>1 DEF Present
<1>3. \A n \in Present' : n \in Present /\ dir'[n] = dir[n] /\ n < a
  BY <1>0, <1>1, <1>2
<1>4. /\ \A x : x \in Lines' <=> \E n \in Present' : x \in Elems(dir'[n])
      /\ \A x : x \in Lines <=> \E n \in Present : x \in Elems(dir[n])
  BY DEF Lines
<1>5. Lines' \subseteq Lines
  BY <1>3, <1>4, Zenon
<1>6. ASSUME NEW x \in Lines', NEW y \in Elems(flushed), x <= y PROVE y \in Lines'
  <2>1. PICK n \in Present' : x \in Elems(dir'[n])
    BY <1>4
  <2>2. y \in Lines
    BY <1>5, <1>6 DEF Kept
  <2>3. PICK k \in Present : y \in Elems(dir[k])
    BY <1>4, <2>2
  <2>4. k # a
    <3>1. SUFFICES ASSUME k = a PROVE FALSE
      OBVIOUS
    <3>2. n \in Present /\ x \in Elems(dir[n]) /\ n < k
      BY <1>3, <2>1, <3>1
    <3>3. y < x
      BY <2>3, <3>2, Zenon DEF Kept
    <3>4. x \in Nat /\ y \in Nat
      <4>1. flushed \in Seq(Numbers)
        BY DEF TInv, TypeOK
      <4>2. x \in Elems(flushed) /\ Elems(flushed) \subseteq Nat
        BY <1>5, <1>6, <4>1, SeqNat DEF Kept
      <4>3. QED
        BY <4>2
    <3>5. QED
      BY <1>6, <3>3, <3>4
  <2>5. k \in Present' /\ dir'[k] = dir[k]
    BY <1>2, <1>3, <2>3, <2>4
  <2>6. QED
    BY <1>4, <2>3, <2>5
<1>7. maxFiles >= 2 /\ lost = {} => Full'
  <2>1. SUFFICES ASSUME maxFiles >= 2, lost = {} PROVE Full'
    OBVIOUS
  <2>2. 0 \in Present' /\ dir'[0] = dir[0] /\ Len(dir[0]) >= MaxFileSize
    BY <1>2, <1>3, <2>1
  <2>3. QED
    BY <2>2 DEF Full
<1>8. \A n \in Present' : Ascending(dir'[n])
  BY <1>3 DEF Kept
<1>9. \A m, n \in Present' : m < n =>
         \A x \in Elems(dir'[n]), y \in Elems(dir'[m]) : x < y
  BY <1>3 DEF Kept
<1>10. QED
  BY <1>5, <1>6, <1>7, <1>8, <1>9 DEF Kept

\* The active file is opened.
LEMMA KeptOpen ==
    ASSUME TInv, Kept, dir' = Opened(dir), UNCHANGED <<flushed, maxFiles, lost>>
    PROVE  Kept'
<1>0. 0 \in Names
  BY NamesFact
<1>1. /\ dir'[0] # Absent
      /\ dir'[0] = IF dir[0] = Absent THEN <<>> ELSE dir[0]
      /\ \A n \in Names \ {0} : dir'[n] = dir[n]
  BY OpenedFact
<1>2. CASE dir[0] # Absent
  <2>1. /\ Present' = Present /\ \A n \in Present : dir'[n] = dir[n]
    BY <1>0, <1>1, <1>2 DEF Present
  <2>2. Lines' = Lines /\ (Full => Full')
    BY <2>1 DEF Lines, Full
  <2>3. QED
    BY <2>1, <2>2 DEF Kept
<1>3. CASE dir[0] = Absent
  <2>1. /\ Present' = Present \cup {0} /\ dir'[0] = <<>>
        /\ \A n \in Present : n # 0 /\ dir'[n] = dir[n]
    BY <1>0, <1>1, <1>3 DEF Present
  <2>2. Elems(dir'[0]) = {} /\ Ascending(dir'[0])
    BY <2>1, ElemsEmpty, AscendingShort
  <2>3. Lines' = Lines /\ (Full => Full')
    BY <2>1, <2>2 DEF Lines, Full
  <2>4. \A n \in Present' : Ascending(dir'[n])
    BY <2>1, <2>2 DEF Kept
  <2>5. \A m, n \in Present' : m < n =>
           \A x \in Elems(dir'[n]), y \in Elems(dir'[m]) : x < y
    BY <2>1, <2>2 DEF Kept
  <2>6. QED
    BY <2>3, <2>4, <2>5 DEF Kept
<1>4. QED
  BY <1>2, <1>3

\* The buffer is appended to the active file.
LEMMA KeptAppend ==
    ASSUME TInv, OrderInv, Kept, handle = 0, dir' = Appended(buffer),
           flushed' = flushed \o buffer, UNCHANGED <<maxFiles, lost>>
    PROVE  Kept'
<1>0. /\ 0 \in Names /\ Names \subseteq Nat /\ handle # Unlinked
      /\ buffer \in Seq(Numbers) /\ flushed \in Seq(Numbers)
  BY NamesFact, QueryLogAssumption DEF TInv, TypeOK
<1>1. /\ dir[0] \in Seq(Numbers) /\ dir'[0] = dir[0] \o buffer
      /\ Len(dir'[0]) = Len(dir[0]) + Len(buffer)
      /\ \A n \in Names : n # 0 => dir'[n] = dir[n]
      /\ \A n \in Names : dir'[n] = Absent <=> dir[n] = Absent
  BY <1>0, AppendedFact
<1>2. Present' = Present /\ Present \subseteq Names /\ 0 \in Present
  BY <1>0, <1>1, SeqPresent DEF Present
<1>3. /\ Elems(dir'[0]) = Elems(dir[0]) \cup Elems(buffer)
      /\ Elems(flushed') = Elems(flushed) \cup Elems(buffer)
  BY <1>0, <1>1, ElemsConcat
<1>4. /\ \A x : x \in Lines' <=> \E n \in Present' : x \in Elems(dir'[n])
      /\ \A x : x \in Lines <=> \E n \in Present : x \in Elems(dir[n])
  BY DEF Lines
<1>5. Lines' = Lines \cup Elems(buffer)
  <2>1. \A x : x \in Lines' => x \in Lines \cup Elems(buffer)
    BY <1>1, <1>2, <1>3, <1>4
  <2>2. \A x : x \in Lines \cup Elems(buffer) => x \in Lines'
    BY <1>1, <1>2, <1>3, <1>4
  <2>3. QED
    BY <2>1, <2>2
<1>6. \A n \in Present : Elems(dir[n]) \subseteq Elems(flushed)
  BY <1>4 DEF Kept
<1>7. \A n \in Present' : Ascending(dir'[n])
  <2>1. Ascending(dir'[0])
    <3>1. dir[0] \in Seq(Nat) /\ buffer \in Seq(Nat)
      BY <1>0, <1>1, SeqNat
    <3>2. Ascending(dir[0]) /\ Ascending(buffer)
          /\ \A x \in Elems(dir[0]), y \in Elems(buffer) : x < y
      BY <1>2, <1>6 DEF Kept, OrderInv
    <3>3. QED
      BY <1>1, <3>1, <3>2, AscendingConcat
  <2>2. QED
    BY <1>1, <1>2, <2>1 DEF Kept
<1>8. ASSUME NEW m \in Present', NEW n \in Present', m < n,
             NEW x \in Elems(dir'[n]), NEW y \in Elems(dir'[m])
      PROVE  x < y
  <2>1. n # 0 /\ dir'[n] = dir[n]
    BY <1>0, <1>1, <1>2, <1>8
  <2>2. CASE y \in Elems(dir[m])
    BY <1>2, <1>8, <2>1, <2>2 DEF Kept
  <2>3. CASE y \in Elems(buffer)
    BY <1>2, <1>6, <2>1, <2>3 DEF OrderInv
  <2>4. QED
    BY <1>1, <1>2, <1>3, <2>2, <2>3
<1>9. ASSUME NEW x \in Lines', NEW y \in Elems(flushed'), x <= y PROVE y \in Lines'
  <2>1. CASE y \in Elems(buffer)
    BY <1>5, <2>1
  <2>2. CASE y \in Elems(flushed) /\ x \in Lines
    BY <1>5, <1>9, <2>2 DEF Kept
  <2>3. CASE y \in Elems(flushed) /\ x \in Elems(buffer)
    <3>1. y < x /\ x \in Nat /\ y \in Nat
      BY <1>0, <2>3, SeqNat DEF OrderInv
    <3>2. QED
      BY <1>9, <3>1
  <2>4. QED
    BY <1>3, <1>5, <2>1, <2>2, <2>3
<1>10. Full => Full'
  <2>1. SUFFICES ASSUME Full PROVE Full'
    OBVIOUS
  <2>2. PICK n \in Present : Len(dir[n]) >= MaxFileSize
    BY <2>1 DEF Full
  <2>3. Len(dir'[n]) >= MaxFileSize
    <3>1. CASE n = 0
      <4>1. Len(dir[0]) \in Nat /\ Len(buffer) \in Nat /\ MaxFileSize \in Nat
        BY <1>0, <1>1, LenProperties, QueryLogAssumption
      <4>2. QED
        BY <1>1, <2>2, <3>1, <4>1
    <3>2. CASE n # 0
      BY <1>1, <1>2, <2>2, <3>2
    <3>3. QED
      BY <3>1, <3>2
  <2>4. QED
    BY <1>2, <2>3 DEF Full
<1>11. QED
  <2>1. Lines' \subseteq Elems(flushed')
    BY <1>3, <1>5 DEF Kept
  <2>2. Lines = Elems(flushed) => Lines' = Elems(flushed')
    BY <1>3, <1>5
  <2>3. QED
    BY <1>7, <1>8, <1>9, <1>10, <2>1, <2>2 DEF Kept

\* Where a rotation is when renames and opens succeed: the open file is path
\* but for the moment between its renaming and the next open, the name a backup
\* moves to is free, and a rotation starts from a full file.
Calm == faults \subseteq {"data"}
Placed ==
    /\ widest = maxFiles
    /\ pc # "open" => handle = 0
    /\ pc = "open" => IF maxFiles >= 2 THEN dir[0] = Absent ELSE Present = {}
    /\ pc = "shift" /\ maxFiles >= 2 => dir[shift + 1] = Absent
    /\ lost = {} /\ pc # "open" => curSize = OpenSize
    /\ lost = {} /\ pc \in {"remove", "shift"} => Len(dir[0]) >= MaxFileSize
RetainInv == Calm => Placed /\ Kept

\* Every step keeps the files in their places and the latest lines in them.
LEMMA RetainStep == TInv /\ SizeInv /\ OrderInv /\ RetainInv /\ [Next]_vars => RetainInv'
<1> SUFFICES ASSUME TInv, SizeInv, OrderInv, RetainInv, [Next]_vars PROVE RetainInv'
  OBVIOUS
<1> SUFFICES ASSUME Calm PROVE Placed' /\ Kept'
  BY FaultsFixed DEF RetainInv, Calm
<1>t. TInv'
  BY TypeStep
<1>p. Placed /\ Kept /\ {"rename", "open", "edit"} \cap faults = {}
  BY DEF RetainInv, Calm
<1>n. /\ Names \subseteq Nat /\ 0 \in Names /\ Unlinked \notin Names
      /\ \A m \in MaxFiles : \A n \in Nat : n < m => n \in Names
      /\ MaxFiles \subseteq Nat \ {0} /\ maxFiles \in MaxFiles
      /\ Present \subseteq Names
      /\ \A n \in Present : n < maxFiles
  BY <1>p, NamesFact, QueryLogAssumption
     DEF TInv, TypeOK, Present, SizeInv, FilesBounded, Placed
<1>s. /\ curSize \in Nat /\ Len(buffer) \in Nat /\ MaxFileSize \in Nat \ {0}
      /\ handle # Unlinked => OpenSize \in Nat /\ Len(dir[handle]) \in Nat
  BY SizeTypes, QueryLogAssumption
<1>0. pc # "open" => 0 \in Present /\ handle = 0 /\ handle # Unlinked /\ dir[0] # Absent
  BY <1>n, <1>p DEF Placed, TInv, Linked, Present
<1>u. ASSUME UNCHANGED <<dir, handle, buffer, curSize, maxFiles, widest, flushed>>,
             lost \subseteq lost',
             pc' \notin {"remove", "shift", "open"}, pc # "open"
      PROVE  Placed' /\ Kept'
  <2>1. Kept'
    BY <1>p, <1>u DEF Kept, Full, Lines, Present
  <2>2. Placed'
    BY <1>p, <1>u DEF Placed, OpenSize
  <2>3. QED
    BY <2>1, <2>2
<1>v. ASSUME UNCHANGED <<dir, handle, buffer, curSize, maxFiles, widest, flushed, lost, pc, shift>>
      PROVE  Placed' /\ Kept'
  BY <1>p, <1>v DEF Placed, OpenSize, Kept, Full, Lines, Present
<1>f. ASSUME FlushOk \/ FlushFails, pc # "open", UNCHANGED <<handle, maxFiles>>
      PROVE  /\ Kept'
             /\ lost' = {} => lost = {} /\ OpenSize' = OpenSize
  <2>1. Kept'
    <3>1. CASE FlushOk
      BY <1>0, <1>f, <1>p, <3>1, KeptAppend DEF FlushOk
    <3>2. CASE FlushFails
      <4>1. dir' = dir /\ flushed' = flushed /\ lost \subseteq lost'
        BY <3>2 DEF FlushFails, FlushLoses
      <4>2. QED
        BY <1>f, <1>p, <4>1 DEF Kept, Full, Lines, Present
    <3>3. QED
      BY <1>f, <3>1, <3>2
  <2>2. lost' = {} => OpenSize' = OpenSize
    BY <1>0, <1>f, FlushSizes
  <2>3. lost \subseteq lost'
    BY <1>f DEF FlushOk, FlushFails, FlushLoses
  <2>4. QED
    BY <2>1, <2>2, <2>3
<1>1. CASE Record
  BY <1>1, <1>v DEF Record
<1>2. CASE SelectEntry \/ DrainNext
  <2>1. PICK m \in {"batch", "drain"} : Receive(m) /\ pc # "open"
    BY <1>2 DEF SelectEntry, DrainNext, Running, TInv, TypeOK
  <2>2. QED
    BY <1>u, <2>1 DEF Receive
<1>3. CASE SelectShutdown
  BY <1>3, <1>u DEF SelectShutdown, Running
<1>4. CASE EndBatch \/ Stop
  <2>1. /\ FlushOk \/ FlushFails
        /\ UNCHANGED <<handle, curSize, maxFiles, widest>>
        /\ pc' \in {"final", "select", "stopped"} /\ pc # "open"
    BY <1>4 DEF EndBatch, Stop, FlushFails, Running
  <2>2. Kept' /\ (lost' = {} => lost = {} /\ OpenSize' = OpenSize)
    BY <1>f, <2>1
  <2>3. QED
    BY <1>p, <2>1, <2>2 DEF Placed
<1>6. CASE BeginEntry
  <2>0. UNCHANGED <<handle, curSize, maxFiles, widest>> /\ pc = "entry"
    BY <1>6 DEF BeginEntry, Running
  <2>1. CASE pc' = "write" /\ UNCHANGED <<dir, flushed, buffer, lost, skipped>>
    BY <1>u, <2>0, <2>1
  <2>2. CASE MustRotate /\ FlushOk /\ pc' = "remove"
    <3>1. Kept' /\ (lost' = {} => lost = {} /\ OpenSize' = OpenSize)
      BY <1>f, <2>0, <2>2
    <3>2. lost' = {} => Len(dir'[0]) >= MaxFileSize
      <4>1. SUFFICES ASSUME lost' = {} PROVE Len(dir'[0]) >= MaxFileSize
        OBVIOUS
      <4>2. OpenSize' = curSize /\ curSize + 1 > MaxFileSize
        BY <1>p, <2>0, <2>2, <3>1, <4>1 DEF Placed, MustRotate
      <4>3. Len(buffer') = 0 /\ handle' = 0
        BY <1>0, <2>0, <2>2, EmptyFile DEF FlushOk
      <4>4. Len(dir'[0]) \in Nat
        <5>1. dir'[0] \in Seq(Numbers)
          BY <1>n, <1>t, <4>3 DEF TInv, TypeOK, Linked
        <5>2. QED
          BY <5>1, LenProperties
      <4>5. OpenSize' = Len(dir'[0]) + Len(buffer')
        BY <4>3 DEF OpenSize
      <4>6. QED
        BY <1>s, <4>2, <4>3, <4>4, <4>5
    <3>3. QED
      BY <1>p, <2>0, <2>2, <3>1, <3>2 DEF Placed
  <2>3. CASE FlushFails /\ pc' = "write"
    <3>1. Kept' /\ (lost' = {} => lost = {} /\ OpenSize' = OpenSize)
      BY <1>f, <2>0, <2>3
    <3>2. QED
      BY <1>p, <2>0, <2>3, <3>1 DEF Placed
  <2>4. QED
    BY <1>6, <2>1, <2>2, <2>3 DEF BeginEntry
<1>7. CASE RemoveOldest
  <2>1. /\ UNCHANGED <<buffer, curSize, maxFiles, widest, flushed, lost>> /\ pc' = "shift"
        /\ pc = "remove"
    BY <1>7 DEF RemoveOldest, Running
  <2>2. CASE maxFiles >= 2
    <3>1. maxFiles - 1 \in Names /\ maxFiles - 1 # 0 /\ \A n \in Present : n <= maxFiles - 1
      BY <1>n, <2>2
    <3>2. /\ dir' = [dir EXCEPT ![maxFiles - 1] = Absent]
          /\ handle' = HandleAfterRemove(maxFiles - 1)
          /\ shift' = maxFiles - 2
      BY <1>7, <2>2 DEF RemoveOldest
    <3>3. Kept'
      <4>1. lost = {} => Len(dir[0]) >= MaxFileSize
        BY <1>p, <2>1 DEF Placed
      <4>2. QED
        BY <1>0, <1>p, <2>1, <3>1, <3>2, <4>1, KeptDrop
    <3>4. handle' = 0 /\ dir'[0] = dir[0] /\ dir'[shift' + 1] = Absent
      <4>1. handle' = 0
        BY <1>0, <2>1, <3>1, <3>2 DEF HandleAfterRemove
      <4>2. dir'[maxFiles - 1] = Absent /\ \A n \in Names \ {maxFiles - 1} : dir'[n] = dir[n]
        BY <3>1, <3>2, RemovedFact
      <4>3. shift' + 1 = maxFiles - 1
        BY <1>n, <3>2
      <4>4. QED
        BY <1>n, <3>1, <4>1, <4>2, <4>3
    <3>5. OpenSize' = OpenSize
      BY <1>0, <2>1, <3>4 DEF OpenSize
    <3>6. QED
      BY <1>p, <2>1, <3>3, <3>4, <3>5 DEF Placed
  <2>3. CASE ~(maxFiles >= 2)
    <3>1. UNCHANGED <<dir, handle>>
      BY <1>7, <2>3 DEF RemoveOldest
    <3>2. Kept'
      BY <1>p, <2>1, <3>1 DEF Kept, Full, Lines, Present
    <3>3. OpenSize' = OpenSize
      BY <2>1, <3>1 DEF OpenSize
    <3>4. QED
      BY <1>p, <2>1, <2>3, <3>1, <3>2, <3>3 DEF Placed
  <2>4. QED
    BY <2>2, <2>3
<1>8. CASE ShiftBackup
  <2>1. /\ UNCHANGED <<pc, buffer, curSize, maxFiles, widest, flushed, lost>> /\ pc = "shift"
        /\ shift \in Nat \ {0} /\ shift + 1 < maxFiles /\ shift' = shift - 1
        /\ maxFiles >= 2
    BY <1>n, <1>8 DEF ShiftBackup, Running, TInv, TypeOK, Shifting
  <2>2. shift \in Names /\ shift + 1 \in Names /\ dir[shift + 1] = Absent /\ shift' + 1 = shift
        /\ shift # 0
    BY <1>n, <1>p, <2>1 DEF Placed
  <2>3. CASE /\ dir[shift] # Absent /\ dir' = Renamed(dir, shift, shift + 1)
             /\ handle' = HandleAfterRename(shift, shift + 1)
    <3>1. shift # shift + 1 /\ shift + 1 # 0
      BY <2>1
    <3>2. Kept'
      BY <1>p, <2>1, <2>2, <2>3, KeptMove
    <3>3. /\ dir'[shift] = Absent
          /\ \A n \in Names \ {shift, shift + 1} : dir'[n] = dir[n]
      BY <2>2, <2>3, <3>1, RenamedFact
    <3>4. handle' = 0 /\ dir'[0] = dir[0] /\ handle = 0
      BY <1>0, <1>n, <2>1, <2>2, <2>3, <3>1, <3>3 DEF HandleAfterRename
    <3>5. OpenSize' = OpenSize
      BY <2>1, <3>4 DEF OpenSize
    <3>6. QED
      BY <1>p, <2>1, <2>2, <3>2, <3>3, <3>4, <3>5 DEF Placed
  <2>4. CASE dir[shift] = Absent /\ UNCHANGED <<dir, handle>>
    <3>1. Kept'
      BY <1>p, <2>1, <2>4 DEF Kept, Full, Lines, Present
    <3>2. OpenSize' = OpenSize
      BY <2>1, <2>4 DEF OpenSize
    <3>3. QED
      BY <1>p, <2>1, <2>2, <2>4, <3>1, <3>2 DEF Placed
  <2>5. QED
    BY <1>8, <1>p, <2>3, <2>4 DEF ShiftBackup
<1>9. CASE RetireBase
  <2>1. /\ UNCHANGED <<buffer, curSize, maxFiles, widest, flushed, lost>> /\ pc = "shift"
        /\ shift = 0
    BY <1>9 DEF RetireBase, Running
  <2>2. CASE /\ maxFiles >= 2 /\ dir[0] # Absent /\ dir' = Renamed(dir, 0, 1)
             /\ pc' = "open"
    <3>1. 1 \in Names /\ dir[1] = Absent /\ 1 = 0 + 1
      BY <1>n, <1>p, <2>1, <2>2 DEF Placed
    <3>2. Kept'
      BY <1>n, <1>p, <2>1, <2>2, <3>1, KeptMove
    <3>3. dir'[0] = Absent
      BY <1>n, <2>2, <3>1, RenamedFact
    <3>4. QED
      BY <1>p, <2>1, <2>2, <3>2, <3>3 DEF Placed
  <2>3. CASE maxFiles = 1 /\ dir' = [dir EXCEPT ![0] = Absent] /\ pc' = "open"
    <3>1. \A n \in Present : n <= 0
      BY <1>n, <2>3
    <3>2. ~(maxFiles >= 2)
      BY <2>3
    <3>3. Kept'
      BY <1>n, <1>p, <2>1, <2>3, <3>1, <3>2, KeptDrop
    <3>4. Present' = {}
      <4>1. dir'[0] = Absent /\ \A n \in Names \ {0} : dir'[n] = dir[n]
        BY <1>n, <2>3, RemovedFact
      <4>2. \A n \in Names \ {0} : dir[n] = Absent
        BY <1>n, <3>1 DEF Present
      <4>3. QED
        BY <4>1, <4>2 DEF Present
    <3>5. QED
      BY <1>p, <2>1, <2>3, <3>2, <3>3, <3>4 DEF Placed
  <2>4. QED
    BY <1>0, <1>9, <1>p, <2>1, <2>2, <2>3 DEF RetireBase
<1>10. CASE Reopen
  <2>1. /\ dir' = Opened(dir) /\ handle' = 0 /\ curSize' = 0 /\ pc = "open" /\ pc' = "write"
        /\ UNCHANGED <<buffer, maxFiles, widest, flushed, lost>>
    BY <1>10, <1>p DEF Reopen, Running
  <2>2. Kept'
    BY <1>p, <2>1, KeptOpen
  <2>3. dir[0] = Absent
    BY <1>n, <1>p, <2>1 DEF Placed, Present
  <2>4. dir'[0] = <<>> /\ buffer' = <<>>
    BY <2>1, <2>3, OpenedFact DEF SizeInv, RotationState
  <2>5. OpenSize' = 0
    BY <2>1, <2>4, EmptyFile DEF OpenSize
  <2>6. QED
    BY <1>p, <2>1, <2>2, <2>5 DEF Placed
<1>11. CASE WriteLine
  <2>1. /\ UNCHANGED <<handle, maxFiles, widest>> /\ pc = "write" /\ pc' = "drain"
        /\ hand \in Numbers /\ buffer \in Seq(Numbers)
    BY <1>11 DEF WriteLine, Running, TInv, TypeOK, Handed
  <2>2. /\ Len(Append(buffer, hand)) = Len(buffer) + 1 /\ Len(<<hand>>) = 1
    BY <2>1, AppendProperties
  <2>i. \A a, b \in Nat : a + (b + 1) = (a + b) + 1
    OBVIOUS
  <2>3. CASE /\ buffer' = Append(buffer, hand) /\ curSize' = curSize + 1 /\ dir' = dir
             /\ flushed' = flushed /\ lost' = lost
    <3>1. Kept'
      BY <1>p, <2>1, <2>3 DEF Kept, Full, Lines, Present
    <3>2. OpenSize' = OpenSize + 1
      <4>1. /\ OpenSize' = Len(dir[handle]) + Len(buffer')
            /\ OpenSize = Len(dir[handle]) + Len(buffer)
            /\ Len(buffer') = Len(buffer) + 1
        BY <2>1, <2>2, <2>3 DEF OpenSize
      <4>2. Len(dir[handle]) \in Nat /\ Len(buffer) \in Nat
        BY <1>0, <1>s, <2>1
      <4>3. QED
        BY <2>i, <4>1, <4>2, Zenon
    <3>3. QED
      BY <1>p, <2>1, <2>3, <3>1, <3>2 DEF Placed
  <2>4. CASE /\ dir' = Appended(buffer) /\ buffer' = <<hand>> /\ curSize' = curSize + 1
             /\ flushed' = flushed \o buffer /\ lost' = lost
    <3>1. Kept'
      BY <1>0, <1>p, <2>1, <2>4, KeptAppend
    <3>2. Len(dir'[handle]) = OpenSize
      BY <1>0, <2>1, <2>4, AppendedFact DEF OpenSize
    <3>3. OpenSize' = OpenSize + 1
      BY <1>0, <1>s, <2>1, <2>2, <2>4, <3>2 DEF OpenSize
    <3>4. QED
      BY <1>p, <2>1, <2>4, <3>1, <3>3 DEF Placed
  <2>5. CASE UNCHANGED <<dir, buffer, curSize, flushed>> /\ lost \subseteq lost'
    BY <1>u, <2>1, <2>5
  <2>6. QED
    BY <1>11, <2>3, <2>4, <2>5 DEF WriteLine
<1>12. CASE Cancel
  BY <1>12, <1>v DEF Cancel
<1>13. CASE Exit
  BY <1>13, <1>v DEF Exit
<1>14. CASE Restart
  <2>1. /\ dir' = Opened(dir) /\ handle' = 0 /\ curSize' = Len(dir'[0]) /\ pc' = "select"
        /\ buffer' = <<>> /\ UNCHANGED <<flushed, lost>>
    BY <1>14 DEF Restart
  <2>2. maxFiles' = maxFiles /\ widest' = widest
    BY <1>14, <1>n, <1>p DEF Restart, Placed
  <2>3. Kept'
    BY <1>p, <2>1, <2>2, KeptOpen
  <2>4. OpenSize' = curSize'
    <3>1. dir'[0] \in Seq(Numbers)
      BY <2>1, OpenedFact
    <3>2. Len(dir'[0]) \in Nat /\ Len(buffer') = 0
      BY <2>1, <3>1, LenProperties, EmptyFile
    <3>3. OpenSize' = Len(dir'[0]) + Len(buffer')
      BY <2>1 DEF OpenSize
    <3>4. QED
      BY <2>1, <3>2, <3>3
  <2>5. QED
    BY <1>p, <2>1, <2>2, <2>3, <2>4 DEF Placed
<1>15. CASE UNCHANGED vars
  BY <1>15, <1>v DEF vars
<1>16. QED
  BY <1>1, <1>2, <1>3, <1>4, <1>6, <1>7, <1>8, <1>9, <1>10, <1>11, <1>12, <1>13,
     <1>14, <1>15 DEF Next, WriterStep

\* In the first state there is one file, empty.
LEMMA RetainInit == Init => OrderInv /\ RetainInv
<1> SUFFICES ASSUME Init PROVE OrderInv /\ RetainInv
  OBVIOUS
<1>0. 0 \in Names /\ Len(<<>>) = 0 /\ <<>> # Absent
  BY NamesFact, EmptyFile, SeqPresent
<1>1. OrderInv
  BY ElemsEmpty, AscendingShort DEF Init, OrderInv
<1>2. Present = {0} /\ dir[0] = <<>>
  BY <1>0 DEF Init, Present
<1>3. Lines = {} /\ Elems(flushed) = {}
  BY <1>2, ElemsEmpty DEF Init, Lines
<1>4. Kept
  BY <1>2, <1>3, ElemsEmpty, AscendingShort DEF Kept
<1>5. OpenSize = 0
  BY <1>0, <1>2 DEF Init, OpenSize
<1>6. Placed
  BY <1>5 DEF Init, Placed
<1>7. QED
  BY <1>1, <1>4, <1>6 DEF RetainInv

\* Rotation, interrupted by crashes anywhere, loses nothing but the oldest
\* lines: see RetainsLatest.
THEOREM RetainsAlways == Spec => []RetainsLatest
<1> DEFINE RInv == TInv /\ SizeInv /\ OrderInv /\ RetainInv
<1>1. Init => RInv
  BY TypeInit, SizeInit, RetainInit
<1>2. RInv /\ [Next]_vars => RInv'
  BY TypeStep, SizeStep, OrderStep, RetainStep
<1>3. RInv => RetainsLatest
  BY DEF RetainInv, OrderInv, Calm, Kept, Full, RetainsLatest
<1>4. QED
  BY <1>1, <1>2, <1>3, PTL DEF Spec
=============================================================================
