----------------------------- MODULE SyncEngine -----------------------------
(***************************************************************************)
(* Incremental upload of one Cline conversation (runSync and syncChunks of *)
(* cline-sync).  A run lists the history file, reads it, cuts what the     *)
(* cursor does not cover into chunks, uploads one after the other and      *)
(* saves the cursor after each.  Cline rewrites the file meanwhile,        *)
(* answers are lost, the user cancels, the daemon crashes.                 *)
(*                                                                         *)
(* A message is its (redacted) text, so equal messages have equal hashes;  *)
(* Length gives the number of its UTF-16 units and High the units that are *)
(* the first half of a surrogate pair.                                     *)
(***************************************************************************)
EXTENDS Naturals, Sequences, FiniteSets

CONSTANTS Message,
          Length, High,
          Limit,        \* LIMIT of a chunk
          NoMessage,    \* no messageHash
          MaxMessages,  \* bound on the conversation
          MaxEdits,     \* bound on rewrites of the file
          MaxFaults     \* bound on failures, cancels and crashes

ASSUME EngineAssumption ==
    /\ NoMessage \notin Message
    /\ Length \in [Message -> Nat]
    /\ High \in [Message -> SUBSET Nat]
    /\ \A m \in Message : \A p \in High[m] : p + 1 <= Length[m] /\ p + 1 \notin High[m]
    /\ Limit \in Nat /\ Limit > 3
    /\ MaxMessages \in Nat
    /\ MaxEdits \in Nat
    /\ MaxFaults \in Nat

Separator == 2

VARIABLES file, version,     \* the conversation and the fingerprint of its file
          saved,             \* cursors.json
          cursor,            \* the cursors object of the run
          stage,             \* where the run stands
          listed,            \* the fingerprint the run listed
          messages, stable,  \* what it read, and whether it may certify it
          from,
          index, position, buffer, completed,  \* locals of syncChunks
          chunk,             \* the chunk it yielded
          cancelled, faults,
          server,            \* history: the units the server has extracted
          covered,           \* history: the messages the saved cursor was written for
          covering,          \* history: the same for the run's cursor
          repeated,          \* history: a unit was extracted twice
          rewritten          \* history: a message was changed or removed

disk   == <<file, version, rewritten>>
reads  == <<listed, messages, stable, from>>
cutter == <<index, position, buffer, completed>>
engineVars   == <<disk, saved, cursor, stage, reads, cutter, chunk, cancelled, faults, server, covered, covering, repeated>>

NoCursor == [count |-> 0, offset |-> 0, hash |-> NoMessage, certified |-> 0]
Nothing  == [size |-> 0, units |-> {}]
NoChunk  == [text |-> Nothing, count |-> 0, offset |-> 0, hash |-> NoMessage]

EngineInit ==
    /\ \E n \in 0 .. MaxMessages : file \in [1 .. n -> Message]
    /\ version = 1
    /\ saved = NoCursor /\ cursor = NoCursor
    /\ stage = "idle"
    /\ listed = 0 /\ messages = << >> /\ stable = FALSE /\ from = 0
    /\ index = 0 /\ position = 0 /\ buffer = Nothing /\ completed = 0
    /\ chunk = NoChunk
    /\ cancelled = FALSE /\ faults = 0
    /\ server = {} /\ covered = << >> /\ covering = << >>
    /\ repeated = FALSE /\ rewritten = FALSE

Least(a, b) == IF a < b THEN a ELSE b
Fault == faults < MaxFaults /\ faults' = faults + 1

-----------------------------------------------------------------------------
(* Cline.  Cutting a chunk involves no wait, so nothing happens during it. *)

Waiting == stage # "cut"

Rewrite(new) ==
    /\ Waiting
    /\ version <= MaxEdits
    /\ file' = new
    /\ version' = version + 1
    /\ UNCHANGED <<saved, cursor, stage, reads, cutter, chunk, cancelled, faults, server, covered, covering, repeated>>

AppendMessage(m) ==
    /\ Len(file) < MaxMessages
    /\ Rewrite(Append(file, m))
    /\ UNCHANGED rewritten

ChangeMessage(i, m) ==
    /\ Rewrite([file EXCEPT ![i] = m])
    /\ rewritten' = TRUE

RestoreCheckpoint(n) ==
    /\ Rewrite(SubSeq(file, 1, n))
    /\ rewritten' = TRUE

-----------------------------------------------------------------------------
(* Reading.                                                                *)

Unchanged(c) == c.certified = version /\ c.offset = 0 /\ c.certified > 0

\* loadCursors and listTasks; a certified history is not read.
List ==
    /\ stage = "idle"
    /\ cursor' = saved
    /\ covering' = covered
    /\ listed' = version
    /\ stage' = IF Unchanged(saved) THEN "idle" ELSE "read"
    /\ cancelled' = FALSE
    /\ UNCHANGED <<disk, saved, messages, stable, from, cutter, chunk, faults, server, covered, repeated>>

Read ==
    /\ stage = "read"
    /\ messages' = file
    /\ stage' = "certify"
    /\ UNCHANGED <<disk, saved, cursor, listed, stable, from, cutter, chunk, cancelled, faults, server, covered, covering, repeated>>

\* Mutation: the file that is certified is the one there is now.
CertifyNow(c) == [c EXCEPT !.certified = version]

\* What the run certifies is what it listed, if the file did not change since.
Certify(c) == [c EXCEPT !.certified = listed]

\* Mutation: a run waits for a second message before it uploads one.
FewerThanTwo(n) == n < 2

\* MIN_NEW_MESSAGES: one new message is enough.
NothingNew(n) == n = 0

\* The second stat; then the messages the cursor does not cover are cut.
Compare ==
    /\ stage = "certify"
    /\ stable' = (version = listed)
    /\ from' = IF cursor.count > Len(messages) THEN 0 ELSE cursor.count
    /\ IF NothingNew(Len(messages) - from')
       THEN /\ cursor' = IF cursor # NoCursor /\ stable' /\ cursor.offset = 0 THEN Certify(cursor) ELSE cursor
            /\ stage' = "finish"
            /\ UNCHANGED cutter
       ELSE /\ stage' = "cut"
            /\ index' = from' + 1
            /\ position' = 0
            /\ buffer' = Nothing
            /\ completed' = from'
            /\ UNCHANGED cursor
    /\ UNCHANGED <<disk, saved, listed, messages, chunk, cancelled, faults, server, covered, covering, repeated>>

-----------------------------------------------------------------------------
(* syncChunks: the steps of its loops, from one yield to the next.         *)

CutterStep(step) ==
    /\ stage = "cut"
    /\ step
    /\ UNCHANGED <<disk, saved, cursor, reads, cancelled, faults, server, covered, covering, repeated>>

Yield(text, count, offset, hash) ==
    /\ chunk' = [text |-> text, count |-> count, offset |-> offset, hash |-> hash]
    /\ stage' = "upload"

Continue == UNCHANGED <<chunk, stage>>

\* A partly sent message goes on at its offset if it is still the same.
Resumed(m) ==
    IF index = from + 1 /\ cursor.count = from /\ cursor.hash = m
    THEN Least(cursor.offset, Length[m]) ELSE 0

\* completed = index - 1 marks the beginning of a message's iteration.
BeginMessage ==
    /\ index <= Len(messages)
    /\ position = 0 /\ completed = index - 1
    /\ LET m == messages[index] IN
       /\ position' = 1 + Resumed(m)
       /\ IF buffer # Nothing /\ Length[m] > Resumed(m)
          THEN IF buffer.size + Separator > Limit
               THEN Yield(buffer, completed, 0, NoMessage) /\ buffer' = Nothing
               ELSE buffer' = [buffer EXCEPT !.size = @ + Separator] /\ Continue
          ELSE UNCHANGED buffer /\ Continue
    /\ UNCHANGED <<index, completed>>

\* position is one more than the code's, 0 between two messages.
Taken == position - 1
InMessage == index <= Len(messages) /\ position > 0

\* Leave room for a separator: flush a completed-message boundary.
Flush ==
    /\ InMessage
    /\ Taken < Length[messages[index]]
    /\ buffer.size >= Limit - Separator
    /\ Yield(buffer, completed, 0, NoMessage)
    /\ buffer' = Nothing
    /\ UNCHANGED <<index, position, completed>>

Cut(m) ==
    LET end == Least(Length[m], Taken + Limit - buffer.size)
    IN  IF end < Length[m] /\ end \in High[m] THEN end - 1 ELSE end

Take ==
    /\ InMessage
    /\ LET m == messages[index]
           taken == [size  |-> buffer.size + (Cut(m) - Taken),
                     units |-> buffer.units \cup {<<m, p>> : p \in (Taken + 1) .. Cut(m)}]
       IN  /\ Taken < Length[m]
           /\ buffer.size < Limit - Separator
           /\ position' = 1 + Cut(m)
           /\ IF Cut(m) < Length[m]
              THEN Yield(taken, index - 1, Cut(m), m) /\ buffer' = Nothing
              ELSE buffer' = taken /\ Continue
    /\ UNCHANGED <<index, completed>>

EndMessage ==
    /\ InMessage
    /\ Taken = Length[messages[index]]
    /\ completed' = index
    /\ index' = index + 1
    /\ position' = 0
    /\ UNCHANGED <<buffer, chunk, stage>>

\* The last yield, at least one message being new; the generator returns when it
\* is asked again.
EndCut ==
    /\ index = Len(messages) + 1
    /\ index' = index + 1
    /\ Yield(buffer, completed, 0, NoMessage)
    /\ UNCHANGED <<position, buffer, completed>>

EndTask ==
    /\ index = Len(messages) + 2
    /\ stage' = "finish"
    /\ UNCHANGED <<cutter, chunk>>

CutterNext == CutterStep(BeginMessage \/ Flush \/ Take \/ EndMessage \/ EndCut \/ EndTask)

-----------------------------------------------------------------------------
(* Uploading.                                                              *)

Blank(text) == text.units = {}

\* memory_extract_and_remember on the server.
Extract ==
    /\ server' = server \cup chunk.text.units
    /\ repeated' = (repeated \/ server \cap chunk.text.units # {})

\* Mutation: the cursor holds the index of the last message, not the count.
ConfirmedOneShort ==
    [count |-> IF chunk.count = 0 THEN 0 ELSE chunk.count - 1,
     offset |-> chunk.offset, hash |-> chunk.hash, certified |-> 0]

\* The cursor after a confirmed chunk; the last one of a stable snapshot
\* certifies it.
Confirmed ==
    LET reached == [count |-> chunk.count, offset |-> chunk.offset, hash |-> chunk.hash, certified |-> 0]
    IN  IF stable /\ chunk.count = Len(messages) /\ chunk.offset = 0 THEN Certify(reached) ELSE reached

Confirm ==
    /\ cursor' = Confirmed
    /\ covering' = [i \in DOMAIN messages |-> IF i <= from THEN covering[i] ELSE messages[i]]
    /\ stage' = "save"

\* Mutation: the cursor is advanced before the answer is known.
UploadAhead ==
    /\ stage = "upload"
    /\ \/ Extract
       \/ UNCHANGED <<server, repeated>>
    /\ Confirm
    /\ UNCHANGED <<disk, saved, reads, cutter, chunk, cancelled, faults, covered>>

Upload ==
    /\ stage = "upload"
    /\ IF Blank(chunk.text) THEN UNCHANGED <<server, repeated>> ELSE Extract
    /\ Confirm
    /\ UNCHANGED <<disk, saved, reads, cutter, chunk, cancelled, faults, covered>>

\* The server refused, or its answer was lost or late: the task is left.
UploadFails ==
    /\ stage = "upload"
    /\ ~Blank(chunk.text)
    /\ Fault
    /\ Extract \/ UNCHANGED <<server, repeated>>
    /\ stage' = "finish"
    /\ UNCHANGED <<disk, saved, cursor, reads, cutter, chunk, cancelled, covered, covering>>

\* Each confirmed chunk is on disk before the next is cut.
Save ==
    /\ stage = "save"
    /\ saved' = cursor
    /\ covered' = covering
    /\ stage' = IF cancelled THEN "finish" ELSE "cut"
    /\ UNCHANGED <<disk, cursor, reads, cutter, chunk, cancelled, faults, server, covering, repeated>>

\* The run's last save.
Finish ==
    /\ stage = "finish"
    /\ saved' = cursor
    /\ covered' = covering
    /\ stage' = "idle"
    /\ UNCHANGED <<disk, cursor, reads, cutter, chunk, cancelled, faults, server, covering, repeated>>

\* The signal: a request in flight is given up, a confirmed one is saved.
Cancel ==
    /\ stage \in {"read", "certify", "upload", "save"}
    /\ ~cancelled
    /\ Fault
    /\ cancelled' = TRUE
    /\ stage' = IF stage = "save" THEN "save" ELSE "finish"
    /\ IF stage = "upload" /\ ~Blank(chunk.text)
       THEN Extract \/ UNCHANGED <<server, repeated>>
       ELSE UNCHANGED <<server, repeated>>
    /\ UNCHANGED <<disk, saved, cursor, reads, cutter, chunk, covered, covering>>

\* The daemon stops, or a save fails and ends the run with an error.
EngineCrash ==
    /\ stage # "idle" /\ Waiting
    /\ Fault
    /\ stage' = "idle"
    /\ UNCHANGED <<disk, saved, cursor, reads, cutter, chunk, cancelled, server, covered, covering, repeated>>

RunStep == List \/ Read \/ Compare \/ CutterNext \/ Upload \/ Save \/ Finish

EngineNext ==
    \/ RunStep
    \/ UploadFails \/ Cancel \/ EngineCrash
    \/ \E m \in Message : AppendMessage(m)
    \/ \E i \in DOMAIN file, m \in Message : ChangeMessage(i, m)
    \/ \E n \in 0 .. Len(file) - 1 : RestoreCheckpoint(n)

EngineSpec == EngineInit /\ [][EngineNext]_engineVars

\* Scans are repeated and their requests answered.
EngineFairSpec == EngineSpec /\ WF_engineVars(RunStep)

-----------------------------------------------------------------------------
Cursors == [count: 0 .. MaxMessages, offset: Nat, hash: Message \cup {NoMessage}, certified: Nat]

EngineTypeOK ==
    /\ file \in Seq(Message) /\ Len(file) <= MaxMessages
    /\ version \in 1 .. MaxEdits + 1 /\ listed \in 0 .. MaxEdits + 1
    /\ saved \in Cursors /\ cursor \in Cursors
    /\ stage \in {"idle", "read", "certify", "cut", "upload", "save", "finish"}
    /\ messages \in Seq(Message)
    /\ {stable, cancelled, repeated, rewritten} \subseteq BOOLEAN
    /\ from \in 0 .. MaxMessages
    /\ index \in Nat /\ position \in Nat /\ completed \in Nat
    /\ stage = "cut" => completed <= Len(messages)
    /\ buffer.size \in Nat /\ chunk.text.size \in Nat
    /\ faults \in 0 .. MaxFaults

Units(m) == {<<m, p>> : p \in 1 .. Length[m]}

\* The cursor never runs ahead of the server: everything it covers, up to the
\* offset in a long message, was extracted, whatever answers, cancels, crashes
\* and rewrites came between (README of cline-sync: 33, 173).
CursorNeverAhead ==
    /\ \A i \in 1 .. saved.count : Units(covered[i]) \subseteq server
    /\ \A p \in 1 .. saved.offset : <<saved.hash, p>> \in server

\* A file is skipped unread only if all of it was extracted, for a
\* conversation that only grew, also while it was being read (sync.ts:77).
SkippedIsExtracted ==
    Unchanged(saved) /\ ~rewritten => \A i \in DOMAIN file : Units(file[i]) \subseteq server

\* Nothing is extracted twice without a fault: edits of the file alone, other
\* than a rewrite, cost no second extraction (sync.ts:10-11).  Messages are
\* compared by their text, so a conversation has each at most once here.
Distinct == \A i, j \in DOMAIN file : file[i] = file[j] => i = j
NoSecondExtraction == repeated => faults > 0 \/ rewritten \/ ~Distinct

\* Once Cline stops writing and faults stop, the whole conversation arrives.
AllArrives ==
    <>[](\A i \in DOMAIN file : Units(file[i]) \subseteq server) \/ <>rewritten
=============================================================================
