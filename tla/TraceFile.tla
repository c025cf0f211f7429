----------------------------- MODULE TraceFile -----------------------------
(***************************************************************************)
(* The files of a trace (FMtrace): instr, sys and mem_ref.  The tracer, an *)
(* external program, writes frames through a TraceHandle per file; a       *)
(* TraceLoader or FMTraceReader reads them, possibly while it does.  A     *)
(* frame waits in the buffer of its handle, then in that of stdio, before  *)
(* it is in the file; stdio cuts the file anywhere, so a frame is two      *)
(* halves here.  The frames of a file are numbered from 1.                 *)
(***************************************************************************)
EXTENDS Integers, Sequences, SequencesExt

CONSTANTS
  BUFFER_SIZE,  \* frames in the buffer of a handle
  MaxFrames     \* bound: MaxFrames[k] frames are written to file k

Kind == {"instr", "sys", "mem_ref"}

ASSUME TraceFileAssumption ==
  BUFFER_SIZE \in Nat \ {0} /\ MaxFrames \in [Kind -> Nat]

VARIABLES
  disk,     \* disk[k]: the halves in file k
  exists,   \* the files that have been created
  sent,     \* sent[k]: frames given to WriteTrace since file k was created
  tracer,   \* what the tracer does: "none", "create", "write", "close", "done"
  loader,   \* what the reading program does: "none", "read", "close"
  todo,     \* todo[p]: the handles p's function has still to visit
  live,     \* live[p]: the handles of p whose pointers are not NULL
  freed,    \* freed[p][k]: how often p has deleted the buffer of k
  buffer,   \* buffer[k]: the tracer's buffer
  stdio,    \* stdio[k]: the halves fwrite has taken and not written yet
  frames,   \* frames[k]: the loader's buffer, from buffer_head on
  pos, eof, \* pos[k], eof[k]: the loader's position in the file, and feof
  got,      \* got[k]: what ReadNext has returned
  ended     \* the files for which ReadNext has returned 0

tracerVars == <<sent, tracer, buffer, stdio>>
loaderVars == <<loader, frames, pos, eof, got, ended>>
fileVars == <<disk, exists, todo, live, freed, tracerVars, loaderVars>>

Process == {"tracer", "loader"}

Halves(s) == [i \in 1..(2 * Len(s)) |-> <<s[(i + 1) \div 2], i % 2>>]

(* Two halves that do not belong together make a frame of garbage.         *)
Garbage == 0
Frame(first, second) == IF first[1] = second[1] /\ first[2] = 1 THEN first[1] ELSE Garbage

Sent(k) == [i \in 1..sent[k] |-> i]

TypeOK ==
  /\ exists \subseteq Kind /\ ended \subseteq Kind
  /\ tracer \in {"none", "create", "write", "close", "done"}
  /\ loader \in {"none", "read", "close"}
  /\ \A p \in Process : todo[p] \in Seq(Kind) /\ live[p] \subseteq Kind
  /\ freed \in [Process -> [Kind -> Nat]]
  /\ \A k \in Kind :
       /\ sent[k] \in 0..MaxFrames[k]
       /\ disk[k] \in Seq((1..MaxFrames[k]) \X {0, 1})
       /\ stdio[k] \in Seq((1..MaxFrames[k]) \X {0, 1})
       /\ Len(buffer[k]) < BUFFER_SIZE /\ Len(frames[k]) <= BUFFER_SIZE
       /\ pos[k] \in 0..(2 * MaxFrames[k]) /\ eof[k] \in BOOLEAN

Empty == [k \in Kind |-> <<>>]
Zero == [k \in Kind |-> 0]

Init ==
  /\ disk = Empty /\ exists = {} /\ sent = Zero
  /\ tracer = "none" /\ loader = "none"
  /\ todo = [p \in Process |-> <<>>] /\ live = [p \in Process |-> {}]
  /\ freed = [p \in Process |-> Zero]
  /\ buffer = Empty /\ stdio = Empty /\ frames = Empty
  /\ pos = Zero /\ eof = [k \in Kind |-> FALSE]
  /\ got = Empty /\ ended = {}

-----------------------------------------------------------------------------
(* The tracer *)

(* Trace::CreateTrace.  A trace is not overwritten while it is read.       *)
CreateTrace ==
  /\ tracer \in {"none", "done"} /\ loader = "none"
  /\ tracer' = "create"
  /\ todo' = [todo EXCEPT !["tracer"] = <<"instr", "sys", "mem_ref">>]
  /\ UNCHANGED <<disk, exists, live, freed, sent, buffer, stdio, loaderVars>>

(* TraceHandle::CreateTrace: fopen with "wb" truncates the file.           *)
OpenForWriting ==
  /\ tracer = "create" /\ loader = "none"
  /\ LET k == Head(todo["tracer"]) IN
     /\ disk' = [disk EXCEPT ![k] = <<>>] /\ exists' = exists \cup {k}
     /\ sent' = [sent EXCEPT ![k] = 0]
     /\ buffer' = [buffer EXCEPT ![k] = <<>>]
     /\ live' = [live EXCEPT !["tracer"] = @ \cup {k}]
     /\ freed' = [freed EXCEPT !["tracer"][k] = 0]
  /\ todo' = [todo EXCEPT !["tracer"] = Tail(@)]
  /\ tracer' = IF todo'["tracer"] = <<>> THEN "write" ELSE "create"
  /\ UNCHANGED <<stdio, loaderVars>>

(* A slip: the buffer is compared with its size after the next frame.      *)
Full_Late(filled) == Len(filled) > BUFFER_SIZE

Full(filled) == Len(filled) >= BUFFER_SIZE

(* WriteTrace, with the FlushBuffer of a full buffer.                      *)
WriteTrace(k) ==
  /\ tracer = "write" /\ sent[k] < MaxFrames[k]
  /\ sent' = [sent EXCEPT ![k] = @ + 1]
  /\ LET filled == Append(buffer[k], sent'[k])
         flush == Full(filled)
     IN  /\ buffer' = [buffer EXCEPT ![k] = IF flush THEN <<>> ELSE filled]
         /\ stdio' = [stdio EXCEPT ![k] = IF flush THEN @ \o Halves(filled) ELSE @]
  /\ UNCHANGED <<disk, exists, todo, live, freed, tracer, loaderVars>>

(* stdio writes some of what it has (external).                            *)
StdioWrites(k) ==
  /\ \E n \in 1..Len(stdio[k]) :
       /\ disk' = [disk EXCEPT ![k] = @ \o SubSeq(stdio[k], 1, n)]
       /\ stdio' = [stdio EXCEPT ![k] = SubSeq(@, n + 1, Len(@))]
  /\ UNCHANGED <<exists, todo, live, freed, sent, tracer, buffer, loaderVars>>

-----------------------------------------------------------------------------
(* CloseTrace *)

(* A slip: mem_ref_set is left to a destructor that nobody calls.          *)
ClosingOrder_NoDelete == <<"instr", "sys">>

(* Trace::CloseTrace closes two handles; the destructor of the struct then *)
(* closes all three, the last member first.                                *)
ClosingOrder == <<"instr", "sys", "mem_ref", "sys", "instr">>

StillLive(handles, k) == handles \ {k}

BeginClose(p) ==
  /\ \/ p = "tracer" /\ tracer = "write" /\ tracer' = "close" /\ UNCHANGED loader
     \/ p = "loader" /\ loader = "read" /\ loader' = "close" /\ UNCHANGED tracer
  /\ todo' = [todo EXCEPT ![p] = ClosingOrder]
  /\ UNCHANGED <<disk, exists, live, freed, sent, buffer, stdio, frames, pos, eof, got, ended>>

(* TraceHandle::CloseTrace: flush if it was writing, delete the buffer and *)
(* close the file.  With NULL pointers nothing happens.                    *)
CloseHandle(p) ==
  /\ \/ p = "tracer" /\ tracer = "close"
     \/ p = "loader" /\ loader = "close"
  /\ todo[p] # <<>>
  /\ LET k == Head(todo[p])
         writes == p = "tracer" /\ k \in live[p]
     IN  /\ freed' = [freed EXCEPT ![p][k] = IF k \in live[p] THEN @ + 1 ELSE @]
         /\ live' = [live EXCEPT ![p] = StillLive(@, k)]
         /\ disk' = [disk EXCEPT ![k] = IF writes THEN @ \o stdio[k] \o Halves(buffer[k]) ELSE @]
         /\ stdio' = [stdio EXCEPT ![k] = IF writes THEN <<>> ELSE @]
         /\ buffer' = [buffer EXCEPT ![k] = IF writes THEN <<>> ELSE @]
  /\ todo' = [todo EXCEPT ![p] = Tail(@)]
  /\ tracer' = IF p = "tracer" /\ todo'[p] = <<>> THEN "done" ELSE tracer
  /\ loader' = IF p = "loader" /\ todo'[p] = <<>> THEN "none" ELSE loader
  /\ UNCHANGED <<exists, sent, frames, pos, eof, got, ended>>

(* The tracer is killed: what has not reached the file is gone.            *)
Crash ==
  /\ tracer \in {"create", "write", "close"}
  /\ tracer' = "none"
  /\ todo' = [todo EXCEPT !["tracer"] = <<>>]
  /\ live' = [live EXCEPT !["tracer"] = {}]
  /\ buffer' = Empty /\ stdio' = Empty
  /\ UNCHANGED <<disk, exists, freed, sent, loaderVars>>

-----------------------------------------------------------------------------
(* The reading program *)

(* Trace::LoadTrace.  A missing file ends the program.                     *)
LoadTrace ==
  /\ loader = "none" /\ exists = Kind /\ tracer # "create"
  /\ loader' = "read"
  /\ live' = [live EXCEPT !["loader"] = Kind]
  /\ freed' = [freed EXCEPT !["loader"] = Zero]
  /\ frames' = Empty /\ pos' = Zero /\ eof' = [k \in Kind |-> FALSE]
  /\ got' = Empty /\ ended' = {}
  /\ UNCHANGED <<disk, exists, todo, tracerVars>>

(* A slip: the end of the file is cleared, to follow a running tracer.     *)
LoadBuffer_Follows(k) ==
  LET left == Len(disk[k]) - pos[k]
      n == IF left \div 2 < BUFFER_SIZE THEN left \div 2 ELSE BUFFER_SIZE
  IN  [frames |-> [i \in 1..n |-> Frame(disk[k][pos[k] + 2 * i - 1], disk[k][pos[k] + 2 * i])],
       pos |-> IF n < BUFFER_SIZE THEN Len(disk[k]) ELSE pos[k] + 2 * n, eof |-> FALSE]

(* LoadBuffer.  fread counts whole frames; at the end of the file it has   *)
(* taken a half that is there, too, and it will return nothing more.       *)
LoadBuffer(k) ==
  LET left == IF eof[k] THEN 0 ELSE Len(disk[k]) - pos[k]
      n == IF left \div 2 < BUFFER_SIZE THEN left \div 2 ELSE BUFFER_SIZE
  IN  [frames |-> [i \in 1..n |-> Frame(disk[k][pos[k] + 2 * i - 1], disk[k][pos[k] + 2 * i])],
       pos |-> IF n < BUFFER_SIZE THEN pos[k] + left ELSE pos[k] + 2 * n,
       eof |-> n < BUFFER_SIZE]

AtEnd(available) == available = <<>>

(* A slip: a loop goes on at 0.                                            *)
Stopped_Retries(k) == ended

Stopped(k) == ended \cup {k}

(* ReadNext.  The loops over a file stop at the first 0.                   *)
ReadNext(k) ==
  /\ loader = "read" /\ k \notin ended
  /\ LET loaded == LoadBuffer(k)
         load == frames[k] = <<>>
         available == IF load THEN loaded.frames ELSE frames[k]
     IN  /\ pos' = [pos EXCEPT ![k] = IF load THEN loaded.pos ELSE @]
         /\ eof' = [eof EXCEPT ![k] = IF load THEN loaded.eof ELSE @]
         /\ IF load /\ AtEnd(available)
            THEN ended' = Stopped(k) /\ UNCHANGED <<frames, got>>
            ELSE /\ got' = [got EXCEPT ![k] = Append(@, Head(available))]
                 /\ frames' = [frames EXCEPT ![k] = Tail(available)]
                 /\ UNCHANGED ended
  /\ UNCHANGED <<disk, exists, todo, live, freed, tracerVars, loader>>

-----------------------------------------------------------------------------
Read == \/ \E k \in Kind : ReadNext(k)
        \/ (ended = Kind /\ BeginClose("loader"))
        \/ CloseHandle("loader")

Next ==
  \/ CreateTrace \/ OpenForWriting \/ Crash
  \/ \E k \in Kind : WriteTrace(k) \/ StdioWrites(k) \/ ReadNext(k)
  \/ LoadTrace
  \/ \E p \in Process : BeginClose(p) \/ CloseHandle(p)

(* A program that reads a trace goes on until it has.                      *)
Spec == Init /\ [][Next]_fileVars /\ WF_fileVars(Read)
-----------------------------------------------------------------------------
(* Properties *)

(* ReadsPrefix: what is read from a file is what was written to it, in     *)
(* order, from the first frame on, whether the tracer is still running,    *)
(* has closed the file or was killed in the middle of a frame; and at the  *)
(* end of a file every whole frame it had when the end was met has been    *)
(* returned (the loops stop at the first 0).                               *)
ReadsPrefix ==
  loader # "none" => /\ \A k \in Kind : IsPrefix(got[k], Sent(k))
                     /\ \A k \in ended : Len(got[k]) = pos[k] \div 2

(* WholeWhenClosed: when CloseTrace has returned, every frame is in its    *)
(* file and every buffer has been deleted, those of the handle it does not *)
(* close itself included; and no buffer is deleted twice, although two     *)
(* handles are closed by CloseTrace and again by their destructors.        *)
WholeWhenClosed ==
  /\ tracer = "done" =>
       \A k \in Kind : disk[k] = Halves(Sent(k)) /\ freed["tracer"][k] = 1
  /\ \A p \in Process, k \in Kind : freed[p][k] <= 1

(* ReadingEnds: a program that has opened a trace reads it and closes it.  *)
ReadingEnds == (loader = "read") ~> (loader = "none")
=============================================================================
