---------------------------- MODULE ExportClients ----------------------------
(***************************************************************************)
(* The command-line programs that fetch a file through the daemon: dfget   *)
(* (one file, or every file of a directory), dfcache export and dfstore    *)
(* export.  The daemon answers a download with a stream: the download has  *)
(* started, a piece has finished (with its content when the program writes *)
(* the file itself), the end or an error.  Pieces come in any order.  The  *)
(* daemon falls back on the source when its scheduler fails and then sends *)
(* pieces again that it has sent already; a stream may also end early      *)
(* without an error, when the error could not be sent.                     *)
(*                                                                         *)
(* Every piece has length 1.  The progress bar, the printing of errors and *)
(* the options that are only passed on to the daemon are left out.         *)
(***************************************************************************)
EXTENDS Naturals, FiniteSets

CONSTANTS
    Files,          \* files of the directory; a single download takes one
    Dirs,           \* directories below the one that is downloaded
    ParentOf,       \* file -> its directory, Base for the one that is downloaded
    Base,
    Pieces,         \* the pieces of every file
    Setups,         \* programs and what they meet
    MaxConcurrent,  \* --max-concurrent-requests
    MaxFiles,       \* --max-files
    MaxMessages     \* bound: pieces that one stream brings

VARIABLES
    command,    \* the setup: fixed for good
    main,       \* where the program is
    entries,    \* files and directories still to be looked at
    listed,     \* the entries of the directory
    dirs,       \* directories made
    fetch,      \* file -> its download
    given,      \* file -> pieces the daemon has delivered
    output      \* file -> what is at its output path

vars == <<command, main, entries, listed, dirs, fetch, given, output>>

Idle == [pc |-> "idle", initialized |-> FALSE, remaining_pieces |-> {}, downloaded |-> 0]
NoFile == [exists |-> FALSE, written |-> {}, buffer |-> {}]

Init ==
    /\ command \in Setups
    /\ main = "start"
    /\ entries = {} /\ listed = {} /\ dirs = {}
    /\ fetch = [f \in Files |-> Idle]
    /\ given = [f \in Files |-> {}]
    /\ output = [f \in Files |-> NoFile]

Goto(f, pc) == fetch' = [fetch EXCEPT ![f].pc = pc]
Running == {f \in Files : fetch[f].pc \in {"request", "open", "stream", "flush"}}

-----------------------------------------------------------------------------
(* One download.                                                           *)

download_task(f) ==
    /\ fetch[f].pc = "request"
    /\ Goto(f, "open") \/ Goto(f, "err")
    /\ UNCHANGED <<command, main, entries, listed, dirs, given, output>>

\* Only a program that writes the file itself opens it, and truncates it.
OpenOutput(f) ==
    /\ fetch[f].pc = "open"
    /\ IF command.transfer
       THEN \/ /\ output' = [output EXCEPT ![f] = [NoFile EXCEPT !.exists = TRUE]]
               /\ Goto(f, "stream")
            \/ Goto(f, "err") /\ UNCHANGED output
       ELSE Goto(f, "stream") /\ UNCHANGED output
    /\ UNCHANGED <<command, main, entries, listed, dirs, given>>

\* Mutant: the file is left where it is.
FailKeepsFile(f) == Goto(f, "err") /\ UNCHANGED output
\* Every error on the way removes the output; that the removal fails is left out.
RemoveAndFail(f) ==
    /\ output' = [output EXCEPT ![f] = NoFile]
    /\ Goto(f, "err")

DownloadTaskStarted(f) ==
    /\ fetch[f].pc = "stream" /\ ~fetch[f].initialized
    /\ \/ /\ fetch' = [fetch EXCEPT ![f].initialized = TRUE, ![f].remaining_pieces = Pieces]
          /\ UNCHANGED output
       \/ command.transfer /\ RemoveAndFail(f)
    /\ UNCHANGED <<command, main, entries, listed, dirs, given>>

\* Seeking flushes what is buffered; the content of the piece is buffered.
Seek(f) == output[f].written \cup output[f].buffer

DownloadPieceFinished(f, p) ==
    /\ fetch[f].pc = "stream" /\ fetch[f].initialized
    /\ fetch[f].downloaded < MaxMessages
    /\ p \in given[f] => command.repeats
    /\ given' = [given EXCEPT ![f] = @ \cup {p}]
    /\ \/ /\ output' = IF command.transfer
                       THEN [output EXCEPT ![f].written = Seek(f), ![f].buffer = {p}]
                       ELSE output
          /\ fetch' = [fetch EXCEPT ![f].remaining_pieces = @ \ {p}, ![f].downloaded = @ + 1]
       \/ command.transfer /\ RemoveAndFail(f)
    /\ UNCHANGED <<command, main, entries, listed, dirs>>

\* dfget knows which pieces are missing, dfcache and dfstore count bytes.
dfget_incomplete(f) == ~fetch[f].initialized \/ fetch[f].remaining_pieces # {}
\* Mutant: a stream that brought anything is complete.
dfcache_any(f) == ~fetch[f].initialized \/ fetch[f].downloaded = 0
dfcache_incomplete(f) == ~fetch[f].initialized \/ fetch[f].downloaded # Cardinality(Pieces)
dfstore_incomplete(f) == ~fetch[f].initialized \/ fetch[f].downloaded # Cardinality(Pieces)

Incomplete(f) ==
    \/ command.program = "dfget" /\ dfget_incomplete(f)
    \/ command.program = "dfcache" /\ dfcache_incomplete(f)
    \/ command.program = "dfstore" /\ dfstore_incomplete(f)

\* Without a transfer the daemon links the file, or copies it before the end of the
\* stream: an error of that copy that is lost after every piece was sent is left out.
StreamEnds(f) ==
    /\ fetch[f].pc = "stream"
    /\ given[f] = Pieces \/ command.cuts
    /\ IF Incomplete(f)
       THEN RemoveAndFail(f)
       ELSE /\ Goto(f, "flush")
            /\ output' = IF command.transfer THEN output
                         ELSE [output EXCEPT ![f] = [exists |-> TRUE, written |-> given[f], buffer |-> {}]]
    /\ UNCHANGED <<command, main, entries, listed, dirs, given>>

\* The daemon reports an error, or sends a message that makes no sense.
StreamFails(f) ==
    /\ fetch[f].pc = "stream"
    /\ RemoveAndFail(f)
    /\ UNCHANGED <<command, main, entries, listed, dirs, given>>

\* Mutant: the last piece stays in the buffer.
FlushSkipped(f) ==
    /\ fetch[f].pc = "flush"
    /\ Goto(f, "ok")
    /\ UNCHANGED <<command, main, entries, listed, dirs, given, output>>
Flush(f) ==
    /\ fetch[f].pc = "flush"
    /\ \/ /\ output' = [output EXCEPT ![f].written = Seek(f), ![f].buffer = {}]
          /\ Goto(f, "ok")
       \/ command.transfer /\ RemoveAndFail(f)
    /\ UNCHANGED <<command, main, entries, listed, dirs, given>>

Transfer(f) ==
    \/ download_task(f) \/ OpenOutput(f) \/ DownloadTaskStarted(f)
    \/ \E p \in Pieces : DownloadPieceFinished(f, p)
    \/ StreamEnds(f) \/ StreamFails(f) \/ Flush(f)

\* Three copies of the same loop.
download(f) == command.program = "dfget" /\ Transfer(f)
dfcache_export(f) == command.program = "dfcache" /\ Transfer(f)
dfstore_export(f) == command.program = "dfstore" /\ Transfer(f)

-----------------------------------------------------------------------------
(* The program around it.                                                  *)

Exit(res) == main' = res

\* The arguments are refused, or the daemon cannot be reached.
Refuse(program) ==
    /\ main = "start" /\ command.program = program
    /\ Exit("err")
    /\ UNCHANGED <<command, entries, listed, dirs, fetch, given, output>>

dfget_refuses == Refuse("dfget")
dfcache_refuses == Refuse("dfcache")
dfstore_refuses == Refuse("dfstore")

\* One file: dfget, dfcache export, dfstore export.
RunSingle(f) ==
    /\ main = "start" /\ ~command.directory
    /\ main' = "single"
    /\ Goto(f, "request")
    /\ UNCHANGED <<command, entries, listed, dirs, given, output>>

SingleEnds ==
    /\ main = "single"
    /\ \E f \in Files : fetch[f].pc \in {"ok", "err"} /\ Exit(fetch[f].pc)
    /\ UNCHANGED <<command, entries, listed, dirs, fetch, given, output>>

RunDirectory ==
    /\ main = "start" /\ command.directory
    /\ main' = "list"
    /\ UNCHANGED <<command, entries, listed, dirs, fetch, given, output>>

\* What the daemon may list.
get_entries == SUBSET (Files \cup Dirs)

\* The directory of every file is an entry, whether it is listed or not.
get_all_entries(found) == found \cup ({ParentOf[f] : f \in found \cap Files} \ {Base})

download_dir ==
    /\ main = "list"
    /\ \/ Exit("err") /\ UNCHANGED <<entries, listed>>
       \/ \E found \in get_entries :
             /\ listed' = get_all_entries(found)
             /\ IF Cardinality(found \cap Files) > MaxFiles
                THEN Exit("err") /\ UNCHANGED entries
                ELSE /\ entries' = listed'
                     /\ main' = IF listed' = {} THEN "ok" ELSE "spawn"
    /\ UNCHANGED <<command, dirs, fetch, given, output>>

\* Downloads that are aborted stop where they are; what they wrote stays.
AbortAll ==
    fetch' = [f \in Files |-> IF f \in Running THEN [fetch[f] EXCEPT !.pc = "aborted"] ELSE fetch[f]]

\* Mutant: the entries are not sorted.
MayComeUnsorted(e) == TRUE
\* Directories come first, files after them.
MayCome(e) == e \in Dirs \/ entries \cap Dirs = {}

CreateDir(d) ==
    /\ main = "spawn" /\ d \in entries /\ MayCome(d)
    /\ \/ /\ dirs' = dirs \cup {d}
          /\ entries' = entries \ {d}
          /\ UNCHANGED <<main, fetch>>
       \/ /\ AbortAll
          /\ Exit("err")
          /\ UNCHANGED <<dirs, entries>>
    /\ UNCHANGED <<command, listed, given, output>>

\* The semaphore holds the loop up until a download gives its permit back.
Spawn(f) ==
    /\ main = "spawn" /\ f \in entries /\ MayCome(f)
    /\ Cardinality(Running) < MaxConcurrent
    /\ Goto(f, "request")
    /\ entries' = entries \ {f}
    /\ UNCHANGED <<command, main, listed, dirs, given, output>>

Spawned ==
    /\ main = "spawn" /\ entries = {}
    /\ main' = "join"
    /\ UNCHANGED <<command, entries, listed, dirs, fetch, given, output>>

\* Mutant: a failure is logged and the others are waited for.
JoinGoesOn ==
    /\ main = "join" /\ Running = {}
    /\ Exit("ok")
    /\ UNCHANGED <<command, entries, listed, dirs, fetch, given, output>>
\* The first failure shuts the others down; errors are looked at only here.
join_next ==
    /\ main = "join"
    /\ \/ (\E f \in Files : fetch[f].pc = "err") /\ AbortAll /\ Exit("err")
       \/ /\ \A f \in listed \cap Files : fetch[f].pc = "ok"
          /\ Exit("ok")
          /\ UNCHANGED fetch
    /\ UNCHANGED <<command, entries, listed, dirs, given, output>>

Next ==
    \/ dfget_refuses \/ dfcache_refuses \/ dfstore_refuses
    \/ RunDirectory \/ SingleEnds
    \/ download_dir \/ Spawned \/ join_next
    \/ \E d \in Dirs : CreateDir(d)
    \/ \E f \in Files : \/ RunSingle(f) \/ Spawn(f)
                       \/ download(f) \/ dfcache_export(f) \/ dfstore_export(f)

Spec == Init /\ [][Next]_vars

-----------------------------------------------------------------------------
(* Every variable keeps its type.                                          *)
TypeOK ==
    /\ command \in Setups
    /\ main \in {"start", "single", "list", "spawn", "join", "ok", "err"}
    /\ entries \subseteq listed /\ listed \subseteq Files \cup Dirs /\ dirs \subseteq Dirs
    /\ fetch \in [Files -> [pc : {"idle", "request", "open", "stream", "flush", "ok", "err", "aborted"},
                             initialized : BOOLEAN, remaining_pieces : SUBSET Pieces,
                             downloaded : 0..MaxMessages]]
    /\ given \in [Files -> SUBSET Pieces]
    /\ output \in [Files -> [exists : BOOLEAN, written : SUBSET Pieces, buffer : SUBSET Pieces]]

\* Bytes are counted, pieces repeated and streams cut short: a repeated piece may
\* stand in the count for one that is missing.
CountFooled == command.program # "dfget" /\ command.repeats /\ command.cuts

(* A download that is reported as done has in the file what was delivered, *)
(* and that is every piece, over pieces in any order, repeated ones and    *)
(* streams that end early (but for both at once where bytes are counted);  *)
(* one that failed leaves no file that looks like the real one.            *)
OutputIsWhole ==
    \A f \in Files :
        /\ fetch[f].pc = "ok" =>
            /\ output[f].exists /\ output[f].written = given[f]
            /\ given[f] = Pieces \/ CountFooled
        /\ fetch[f].pc = "err" => ~output[f].exists

(* dfget reports a directory as done when every file it listed is; a file  *)
(* is asked for only after its directory was made, as the comment on the   *)
(* order of the entries says; and nothing goes on behind its back.         *)
DirectoryIsWhole ==
    /\ main = "ok" /\ command.directory =>
            \A e \in listed : IF e \in Dirs THEN e \in dirs ELSE fetch[e].pc = "ok"
    /\ command.directory =>
            \A f \in Files : fetch[f].pc # "idle" => ParentOf[f] \in dirs \cup {Base}
    /\ main \in {"ok", "err"} => Running = {}

\* The program has ended.
ProgramEnded == main \in {"ok", "err"}
=============================================================================
