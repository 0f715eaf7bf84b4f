-------------------------- MODULE TelemetryRecorder --------------------------
(***************************************************************************)
(* The telemetry recorder: the log of a simulation is kept in memory, in a *)
(* queue of chunks of about MinBufferSize bytes.  The first one starts     *)
(* with the header; a line, the snapshot of the telemetry data, takes      *)
(* recordedBytesDataLine bytes, and a new chunk is created once the        *)
(* current one is exactly full.  A memory device writes no more than it    *)
(* has room for, and the recorder does not look at what it returns.        *)
(*                                                                         *)
(* Sizes and positions are in bytes.  What is in the header, and the time, *)
(* integers and floats of a line, are abstracted to one value per line.    *)
(***************************************************************************)
EXTENDS Integers, SequencesExt

CONSTANTS
    MinBufferSize,      \* TELEMETRY_MIN_BUFFER_SIZE
    Layouts,            \* sizes of the header and of a line in the simulations of a run
    Values,             \* contents of the telemetry data
    NoFile,
    Cut,                \* a line that is not whole
    MaxTaken            \* bound of a run: snapshots per simulation

ASSUME LayoutAssumption ==
    /\ MinBufferSize \in Nat
    /\ Layouts \subseteq [header : Nat \ {0}, line : Nat \ {0}]
    /\ Layouts # {}

ASSUME ValuesAssumption == Values # {} /\ Cut \notin Values

Min2(x, y) == IF x <= y THEN x ELSE y
Max2(x, y) == IF x <= y THEN y ELSE x

VARIABLES
    data,                   \* the registries of the telemetry data, the same all along
    flows,                  \* flows_: the chunks
    isInitialized, layout,  \* isInitialized_; headerSize_ and recordedBytesDataLine_
    recordedBytes, recordedBytesLimits,
    taken,                  \* history: the snapshots since `initialize'
    file                    \* the log last written to the disk, as it is read back

sizes == <<layout, recordedBytes, recordedBytesLimits>>
vars == <<data, flows, isInitialized, sizes, taken, file>>

Init ==
    /\ data \in Values /\ flows = <<>> /\ isInitialized = FALSE
    /\ layout \in Layouts /\ recordedBytes = 0 /\ recordedBytesLimits = 0
    /\ taken = 0 /\ file = NoFile

-----------------------------------------------------------------------------
(* Memory devices *)

Room(flow) == flow.size - flow.pos

\* The token, the time and the data one after the other: what does not fit is dropped.
Write(flow, line, bytes) ==
    [flow EXCEPT !.pos = @ + Min2(bytes, Room(flow)),
                 !.lines = IF bytes <= Room(flow) THEN Append(@, line)
                           ELSE IF Room(flow) > 0 THEN Append(@, Cut) ELSE @]

\* Variant: the cursor stays where it is.
SeekNowhere(flow, pos) == flow

Seek(flow, pos) == IF 0 <= pos /\ pos <= flow.size THEN [flow EXCEPT !.pos = pos] ELSE flow

\* A device is read to its end, or to the first byte that does not start a line.
ReadThrough(flow) == [flow EXCEPT !.pos = @ + Room(flow)]

\* Each device is read from its beginning, and its cursor restored.
AllRestored == [i \in DOMAIN flows |-> Seek(ReadThrough(Seek(flows[i], 0)), flows[i].pos)]

ReadBack(chunks) == FlattenSeq([i \in DOMAIN chunks |-> chunks[i].lines])

-----------------------------------------------------------------------------
(* Chunks *)

\* The first chunk, and only it, has a header.
Limit(header, line) == header + ((Max2(MinBufferSize, header) - header) \div line) * line

NewChunk(header, line) == [size |-> Limit(header, line), pos |-> 0, lines |-> <<>>]

Initialize(newLayout) ==
    /\ ~isInitialized
    /\ isInitialized' = TRUE
    /\ layout' = newLayout /\ data' \in Values
    /\ flows' = <<[NewChunk(newLayout.header, newLayout.line) EXCEPT !.pos = newLayout.header]>>
    /\ recordedBytesLimits' = Limit(newLayout.header, newLayout.line)
    /\ recordedBytes' = newLayout.header
    /\ taken' = 0
    /\ UNCHANGED file

UpdateValue == isInitialized /\ data' \in Values
               /\ UNCHANGED <<flows, isInitialized, sizes, taken, file>>

IsChunkFull == recordedBytes = recordedBytesLimits

Chunks == IF IsChunkFull THEN Append(flows, NewChunk(0, layout.line)) ELSE flows

\* Variant: the bytes recorded are not reset with a new chunk.
RecordedWithoutReset == recordedBytes + layout.line

Recorded == (IF IsChunkFull THEN 0 ELSE recordedBytes) + layout.line

FlushDataSnapshot ==
    /\ isInitialized /\ taken < MaxTaken
    /\ flows' = [Chunks EXCEPT ![Len(Chunks)] = Write(@, data, layout.line)]
    /\ recordedBytesLimits' = IF IsChunkFull THEN Limit(0, layout.line) ELSE recordedBytesLimits
    /\ recordedBytes' = Recorded
    /\ taken' = taken + 1
    /\ UNCHANGED <<data, isInitialized, layout, file>>

GetLog ==
    /\ flows' = AllRestored
    /\ UNCHANGED <<data, isInitialized, sizes, taken, file>>

\* Each device up to its cursor, one after the other: read back as a single device.
WriteLog ==
    /\ file' = ReadBack(flows)
    /\ flows' = AllRestored
    /\ UNCHANGED <<data, isInitialized, sizes, taken>>

\* The log can still be read.
ResetRecorder == isInitialized' = FALSE /\ UNCHANGED <<data, flows, sizes, taken, file>>

Next == \/ \E newLayout \in Layouts : Initialize(newLayout)
        \/ UpdateValue \/ FlushDataSnapshot \/ GetLog \/ WriteLog \/ ResetRecorder

Spec == Init /\ [][Next]_vars

-----------------------------------------------------------------------------
(* Properties *)

Chunk == [size : Nat, pos : Nat, lines : Seq(Values \cup {Cut})]

\* The type of the registers of the recorder; no device is written past its end.
TypeOK ==
    /\ data \in Values /\ isInitialized \in BOOLEAN
    /\ layout \in Layouts /\ recordedBytes \in Nat /\ recordedBytesLimits \in Nat
    /\ flows \in Seq(Chunk) /\ \A i \in DOMAIN flows : flows[i].pos <= flows[i].size
    /\ taken \in Nat

\* The return codes of the devices are ignored, so that everything rests on the accounting:
\* whatever the sizes of the header and of a line, a snapshot that reaches a chunk fits in it
\* exactly or finds it full, and no line is ever cut.
NoLineIsCut == \A i \in DOMAIN flows : Cut \notin Range(flows[i].lines)

\* The accounting itself: what the recorder counts is where the device is, and it never
\* exceeds the limit it is compared with by equality.
Fits(l) == l.line <= MinBufferSize
CountsWhatIsWritten ==
    isInitialized /\ Fits(layout) =>
        /\ recordedBytes = Last(flows).pos
        /\ recordedBytesLimits = Last(flows).size
        /\ recordedBytes <= recordedBytesLimits

\* What `initialize', `flushDataSnapshot', "Create a new line in the record with the current
\* telemetry data.", `getLog' and `writeLog' promise together: across the chunks, whatever
\* is read in between, the log is the sequence of the snapshots.
Log == INSTANCE TelemetryLog WITH log <- ReadBack(flows)
LogIsSnapshots == Log!Spec

=============================================================================
