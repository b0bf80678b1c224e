----------------------------- MODULE LogCursor ------------------------------
(***************************************************************************)
(* The text cursor of one rule and path (internal/daemon: scanRule,        *)
(* readNewLines, fileID) against a log that is written piece by piece,     *)
(* rotated, removed and truncated.  Daemon takes a log for a sequence of   *)
(* lines; this module is about the bytes below it.  A file is a sequence   *)
(* of units, some number of bytes each; the last unit of a record holds    *)
(* its newline.                                                            *)
(***************************************************************************)
EXTENDS Integers, Sequences, FiniteSets

CONSTANTS
    StartAtEnd,      \* start_at_end
    Buf,             \* units the reader's buffer holds (64 KiB)
    Limit,           \* units one poll reads before it stops (4 MiB)
    Sizes,           \* how long records may be; more than Buf is oversized
    LateRotation,    \* may the file be replaced between fileID and os.Open
    Legacy,          \* offsets an older version may have left for the path
    MaxFiles, MaxRecords, MaxTruncations  \* bounds

VARIABLES
    files, path,     \* environment: what the files hold; which one is at the path, or None
    open,            \* environment: the units the record being written has still to get
    sizes,           \* environment: the sizes of the records so far
    truncations,     \* environment: truncations so far
    id, offset,      \* the state file: FileIDs and Offsets of the cursor
    pc,
    start,           \* ghost: up to where in which file the cursor answers for nothing
    reads            \* ghost: how often a line with the end of each record was handed on

log  == <<files, path, open, sizes, truncations>>
vars == <<log, id, offset, pc, start, reads>>

None   == 0
Unseen == -1
Files  == 1..MaxFiles
Unit   == [rec : Nat, end : BOOLEAN]

CursorAssumption ==
    /\ StartAtEnd \in BOOLEAN /\ LateRotation \in BOOLEAN
    /\ Buf \in Nat \ {0} /\ Limit \in Nat \ {0} /\ Sizes \subseteq Nat \ {0} /\ Legacy \subseteq Nat
    /\ MaxFiles \in Nat \ {0} /\ MaxRecords \in Nat /\ MaxTruncations \in Nat

-----------------------------------------------------------------------------
\* readNewLines.

Ends(c, o) == {i \in o + 1 .. Len(c) : c[i].end}
NextEnd(c, o) == CHOOSE i \in Ends(c, o) : \A j \in Ends(c, o) : i <= j

\* One ReadSlice up to the newline, within the buffer.
HasLine(c, o) == Ends(c, o) # {} /\ NextEnd(c, o) - o <= Buf

\* The buffer is full without one: the record is discarded up to its newline, or to the end of file.
Discards(c, o) == ~HasLine(c, o) /\ Len(c) - o >= Buf
DiscardTo(c, o) == IF Ends(c, o) = {} THEN Len(c) ELSE NextEnd(c, o)

\* Mutant: a truncated file is taken for read.
BeginAtEnd(c, o) == IF o > Len(c) THEN Len(c) ELSE o
\* A cursor beyond the end means the file was truncated.
BeginAt(c, o) == IF o > Len(c) THEN 0 ELSE o

\* The records whose end is handed on as part of a line, and the new cursor.
ReadNewLines(c, o) ==
    LET from == BeginAt(c, o)
        read[x \in from..Len(c)] ==
            IF x - from >= Limit THEN [to |-> x, recs |-> {}]
            ELSE IF HasLine(c, x)
                 THEN LET rest == read[NextEnd(c, x)]
                      IN  [rest EXCEPT !.recs = @ \cup {c[NextEnd(c, x)].rec}]
                 ELSE IF Discards(c, x) THEN read[DiscardTo(c, x)]
                      ELSE [to |-> x, recs |-> {}]
    IN  read[from]

-----------------------------------------------------------------------------
\* scanRule.

Replaced == id # None /\ id # path

FirstSight(o) == StartAtEnd /\ o = Unseen

From == IF offset = Unseen THEN 0 ELSE offset

\* fileID; a path without a file is passed over.  Without a cursor of its own the rule takes the
\* offset an older version left for the path, which knows nothing of the file.
Stat ==
    /\ pc = "idle" /\ path # None
    /\ id' = path
    /\ offset' = IF Replaced THEN 0 ELSE offset
    /\ start' = IF id = path THEN start ELSE <<path, IF Replaced THEN 0 ELSE From>>
    /\ pc' = IF FirstSight(offset') THEN "size" ELSE "read"
    /\ UNCHANGED <<log, reads>>

\* The file went away meanwhile.
Gone ==
    /\ pc \in {"size", "read"} /\ path = None /\ pc' = "idle"
    /\ UNCHANGED <<log, id, offset, start, reads>>

SkipToEnd ==
    /\ pc = "size" /\ path # None /\ pc' = "idle"
    /\ offset' = Len(files[path]) /\ start' = <<path, Len(files[path])>>
    /\ UNCHANGED <<log, id, reads>>

\* Mutant: the cursor only moves when lines were found.
ReadLinesFound ==
    LET result == ReadNewLines(files[path], From)
    IN  /\ pc = "read" /\ path # None /\ pc' = "idle"
        /\ offset' = IF result.recs = {} THEN BeginAt(files[path], From) ELSE result.to
        /\ start' = IF From > Len(files[path]) THEN <<path, 0>> ELSE start
        /\ reads' = [r \in 1..MaxRecords |-> IF r \in result.recs THEN reads[r] + 1 ELSE reads[r]]
        /\ UNCHANGED <<log, id>>

ReadLines ==
    LET result == ReadNewLines(files[path], From)
    IN  /\ pc = "read" /\ path # None /\ pc' = "idle"
        /\ offset' = result.to
        /\ start' = IF From > Len(files[path]) THEN <<path, 0>> ELSE start
        /\ reads' = [r \in 1..MaxRecords |-> IF r \in result.recs THEN reads[r] + 1 ELSE reads[r]]
        /\ UNCHANGED <<log, id>>

-----------------------------------------------------------------------------
\* The environment: whoever writes the log, and logrotate.

\* A record appears one unit at a time, its newline last.
WriteUnit(size) ==
    /\ path # None
    /\ IF open = 0
       THEN Len(sizes) < MaxRecords /\ sizes' = Append(sizes, size) /\ open' = size - 1
       ELSE sizes' = sizes /\ open' = open - 1
    /\ files' = [files EXCEPT ![path] = Append(@, [rec |-> Len(sizes'), end |-> open' = 0])]
    /\ UNCHANGED <<path, truncations, id, offset, pc, start, reads>>

Remove ==
    /\ path # None /\ open = 0
    /\ path' = None
    /\ UNCHANGED <<files, open, sizes, truncations, id, offset, pc, start, reads>>

\* The next file appears at the path, in place of the old one or of none.
Replace(f) ==
    /\ files[f] = <<>> /\ f # path /\ (\A g \in 1..f - 1 : g = path \/ files[g] # <<>>)
    /\ open = 0 /\ (LateRotation \/ pc = "idle")
    /\ path' = f
    /\ UNCHANGED <<files, open, sizes, truncations, id, offset, pc, start, reads>>

\* What grows up to the cursor before the next poll cannot be told from what was there.
Truncate ==
    /\ path # None /\ open = 0 /\ truncations < MaxTruncations
    /\ files[path] # <<>>
    /\ files' = [files EXCEPT ![path] = <<>>]
    /\ truncations' = truncations + 1
    /\ start' = IF id = path THEN <<path, From>> ELSE start
    /\ UNCHANGED <<path, open, sizes, id, offset, pc, reads>>

Init ==
    /\ files = [f \in Files |-> <<>>] /\ path = None /\ open = 0 /\ sizes = <<>> /\ truncations = 0
    /\ id = None /\ offset \in {Unseen} \cup Legacy /\ pc = "idle"
    /\ start = <<None, 0>> /\ reads = [r \in 1..MaxRecords |-> 0]

Scan == Stat \/ Gone \/ SkipToEnd \/ ReadLines
Next == \/ Scan \/ Remove \/ Truncate
        \/ \E size \in Sizes : WriteUnit(size)
        \/ \E f \in Files : Replace(f)

Spec == Init /\ [][Next]_vars
FairSpec == Spec /\ WF_vars(Scan)

-----------------------------------------------------------------------------
\* Properties.

TypeOK ==
    /\ files \in [Files -> Seq(Unit)] /\ path \in Files \cup {None}
    /\ open \in Nat /\ sizes \in Seq(Sizes) /\ truncations \in Nat
    /\ id \in Files \cup {None} /\ offset \in Nat \cup {Unseen}
    /\ pc \in {"idle", "size", "read"}
    /\ pc = "size" => offset = Unseen
    /\ start \in (Files \cup {None}) \X Nat /\ reads \in [1..MaxRecords -> Nat]

\* No line is counted twice: neither rotation nor truncation, nor reading a record in
\* pieces, sends the cursor back over lines it passed.
OnceEach == \A r \in 1..MaxRecords : reads[r] <= 1

Behind(f) == {i \in DOMAIN files[f] : i <= offset /\ (start[1] = f => i > start[2])}

\* In the file it was last seen in, the cursor passes over no line: what lies behind it was handed
\* on, but for oversized records, what was there when start_at_end or an older version's offset set
\* the cursor, and what a truncated log has regrown up to the cursor before a poll saw it shorter.
\* Once a poll sees it shorter, everything written since is read.
NothingSkipped ==
    id # None =>
        \A i \in Behind(id) : files[id][i].end /\ sizes[files[id][i].rec] <= Buf =>
            reads[files[id][i].rec] >= 1

\* A log that is left alone is read to its last newline, oversized records included.
ReadToEnd ==
    <>[][FALSE]_log =>
        <>[](path # None => offset \in 0..Len(files[path]) /\ Ends(files[path], offset) = {})

-----------------------------------------------------------------------------
\* What the documentation says of the cursor and the code does not keep.

\* Oversized records are discarded.
OversizedDiscarded == \A r \in DOMAIN sizes : sizes[r] > Buf => reads[r] = 0
=============================================================================
