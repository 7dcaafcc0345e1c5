-------------------------------- MODULE Shell --------------------------------
(***************************************************************************)
(* The shell (userland/shell.c) and the commands it starts (touch, rm, cp, *)
(* cat, write, echo and halt of userland/), at the grain of their system   *)
(* calls.  The shell reads a line over the one before, splits it in place, *)
(* and Exec copies the arguments (module Arguments); a command in the      *)
(* background starts when the shell may be reading the next line.          *)
(*                                                                         *)
(* The calls on files are those of module Processes, with the contents of  *)
(* the files; the disk has room for what is written.  A call is one step.  *)
(* While a process is at a call, another one may begin one: the code of    *)
(* the file system "assumes there is no concurrent access"                 *)
(* (file_system.cc:185), and this model stops (CallsOverlap); FileRemoval  *)
(* and FileData follow such calls further.  The contents of an executable  *)
(* begin with a code of its program.  What the shell writes and the        *)
(* statuses, which it ignores, are left out.                               *)
(***************************************************************************)
EXTENDS Arguments

CONSTANTS
  MAX_LINE_SIZE,
  FILE_NAME_MAX_LEN,
  SEPARATOR, AMPERSAND, NEWLINE,   \* ' ', '&' and '\n'
  Aliases,        \* the names that ExecuteAlias replaces, with the programs
  MaxProcesses,   \* bound: commands started
  Sessions,       \* records: the files, and the lines that may be typed,
                  \* first, second and so on
  None

ASSUME ShellConstants ==
  MAX_LINE_SIZE \in Nat /\ MAX_LINE_SIZE <= MAX_ARG_LENGTH

VARIABLES
  session,
  machine,     \* "on", "halted", "aborted", "undefined" once the shell
               \* reads past the end of its line, or "overlap"
  shell,       \* where the shell is
  entered,     \* how many lines have been typed
  typed,       \* the last one of them
  line, argv,  \* the shell's variables; line[k] is at address k
  proc,        \* proc[p]: the process of the p-th command
  dropped,     \* ready threads that Thread::Join took from the ready list
  contents,    \* contents[f]: what file f holds
  removing,    \* the files that are being removed
  display

shellVars == <<shell, entered, typed, line, argv>>
fileVars == <<contents, removing>>
vars == <<session, machine, shellVars, proc, dropped, fileVars, display>>

Procs == 1 .. MaxProcesses

(* The codes of the programs. *)
Code == [halt |-> 301, touch |-> 302, rm |-> 303, cp |-> 304, cat |-> 305,
         write |-> 306, echo |-> 307]

(* The program in a file of these contents. *)
ProgramsIn(text) == {c \in DOMAIN Code : text # <<>> /\ text[1] = Code[c]}

Unborn ==
  [at |-> "unborn", program |-> None, exe |-> None, joinable |-> FALSE, typed |-> <<>>,
   saved |-> NullArgs, argv |-> <<>>, i |-> 1, from |-> None, to |-> None,
   char |-> NUL, n |-> 1]

ShellInit ==
  /\ session \in Sessions
  /\ machine = "on"
  /\ shell = "prompt"
  /\ entered = 0
  /\ typed = <<>>
  /\ line = [k \in 1 .. MAX_LINE_SIZE |-> NUL]
  /\ argv = [k \in 1 .. MAX_ARG_COUNT |-> 0]
  /\ proc = [p \in Procs |-> Unborn]
  /\ dropped = {}
  /\ contents = session.files
  /\ removing = {}
  /\ display = <<>>

-----------------------------------------------------------------------------
(* The shell *)

(* ReadLine: a line that is as long as the buffer has no '\0'. *)
ReadLine(buffer, text) ==
  [k \in 1 .. MAX_LINE_SIZE |->
     IF k <= Len(text) THEN text[k] ELSE IF k = Len(text) + 1 THEN NUL ELSE buffer[k]]

Split(how, buffer, args) == [how |-> how, line |-> buffer, argv |-> args]

(* The first position after i that does not hold a separator. *)
PastSeparators(buffer, i) ==
  Min({k \in i + 1 .. MAX_LINE_SIZE : buffer[k] # SEPARATOR} \cup {MAX_LINE_SIZE + 1})

(* The loop of PrepareArguments from position i, with `count` arguments so *)
(* far.  After separators that end the line, it goes on past the '\0'.     *)
RECURSIVE SplitFrom(_, _, _, _)
SplitFrom(buffer, args, i, count) ==
  LET j == PastSeparators(buffer, i)
  IN  CASE i > MAX_LINE_SIZE -> Split("past", buffer, args)
        [] i <= MAX_LINE_SIZE /\ buffer[i] = NUL ->
             Split("ok", buffer, [args EXCEPT ![count + 1] = 0])
        [] i <= MAX_LINE_SIZE /\ buffer[i] \notin {NUL, SEPARATOR} ->
             SplitFrom(buffer, args, i + 1, count)
        [] OTHER ->
             CASE count = MAX_ARG_COUNT - 1 -> Split("issues", buffer, args)
               [] count # MAX_ARG_COUNT - 1 /\ j > MAX_LINE_SIZE ->
                    Split("past", [buffer EXCEPT ![i] = NUL], args)
               [] OTHER ->
                    IF buffer[j] = NUL
                    THEN SplitFrom([buffer EXCEPT ![i] = NUL], args, j + 1, count)
                    ELSE SplitFrom([buffer EXCEPT ![i] = NUL],
                                   [args EXCEPT ![count + 1] = j], j + 1, count + 1)

PrepareArguments(buffer, args) == SplitFrom(buffer, args, 1, 0)

(* A line is typed; main reads it and splits it, unless it is empty. *)
EnterLine(text) ==
  /\ machine = "on" /\ shell = "prompt"
  /\ entered' = entered + 1
  /\ typed' = text
  /\ LET read == ReadLine(line, text)
         split == PrepareArguments(read, argv)
     IN  IF text = <<>>
         THEN line' = read /\ UNCHANGED <<machine, shell, argv>>
         ELSE /\ line' = split.line
              /\ argv' = split.argv
              /\ shell' = IF split.how = "ok" THEN "execute" ELSE "prompt"
              /\ machine' = IF split.how = "past" THEN "undefined" ELSE "on"
  /\ UNCHANGED <<session, proc, dropped, fileVars, display>>

InBackground == line[1] = AMPERSAND

(* The name that ExecuteAlias gives to Exec, if it is not too long. *)
ProgramName ==
  LET start == IF InBackground THEN 2 ELSE 1
      word == ReadStringFromUser(line, start, MAX_LINE_SIZE)
  IN  IF word \in DOMAIN Aliases THEN Aliases[word]
      ELSE ReadStringFromUser(line, start, FILE_NAME_MAX_LEN + 1)

(* The arguments that Exec saves: none if argv has none. *)
SavedArguments == IF argv[1] = 0 THEN NullArgs ELSE SaveArgs(line, argv)

(* FileSystem::Open finds the file. *)
CanOpen(name) ==
  /\ Len(name) <= FILE_NAME_MAX_LEN
  /\ name \in DOMAIN contents /\ name \notin removing

NextUnborn == {p \in Procs : proc[p].at = "unborn" /\ \A q \in 1 .. p - 1 : proc[q].at # "unborn"}

(* ExecuteAlias and the system call Exec; then Join, of a command in the   *)
(* foreground.                                                             *)
ExecuteAlias ==
  /\ machine = "on" /\ shell = "execute"
  /\ \E p \in NextUnborn :
       /\ CanOpen(ProgramName) /\ ProgramsIn(contents[ProgramName]) # {}
       /\ proc' = [proc EXCEPT ![p] =
            [Unborn EXCEPT !.at = "new", !.exe = ProgramName,
                           !.program = CHOOSE c \in ProgramsIn(contents[ProgramName]) : TRUE,
                           !.joinable = ~InBackground, !.typed = typed,
                           !.saved = SavedArguments]]
       /\ shell' = IF InBackground THEN "prompt" ELSE "join"
  /\ UNCHANGED <<session, machine, entered, typed, line, argv, dropped, fileVars, display>>

(* Exec of a name that is not there, and of a file that is no executable,  *)
(* as AddressSpace asserts.                                                *)
ExecuteError ==
  /\ machine = "on" /\ shell = "execute"
  /\ shell' = "prompt"
  /\ machine' = IF CanOpen(ProgramName) THEN "aborted" ELSE "on"
  /\ CanOpen(ProgramName) => ProgramsIn(contents[ProgramName]) = {}
  /\ UNCHANGED <<session, entered, typed, line, argv, proc, dropped, fileVars, display>>

-----------------------------------------------------------------------------
(* Processes *)

At(p, places) == machine = "on" /\ p \notin dropped /\ proc[p].at \in places

Runs(p, programs, place) == At(p, {place}) /\ proc[p].program \in programs

(* The first steps of a new process. *)
Start(p) ==
  /\ At(p, {"new"})
  /\ proc' = [proc EXCEPT ![p].at = "main", ![p].saved = NullArgs,
       ![p].argv = MainArguments(MainStoresArguments(RutinaHiloSCExec(proc[p].saved)))]
  /\ UNCHANGED <<session, machine, shellVars, dropped, fileVars, display>>

(* Process p goes on as r. *)
Becomes(p, r) ==
  /\ proc' = [proc EXCEPT ![p] = r]
  /\ UNCHANGED <<session, machine, shellVars, dropped>>

(* The state of p when main returns, or calls Exit: Thread::Finish waits   *)
(* for the process that joins.                                             *)
Ended(p) == [proc[p] EXCEPT !.at = IF proc[p].joinable THEN "exit" ELSE "sent"]

(* Mutant: a process that writes a file does not count. *)
Holders_Readers(f) == {q \in Procs : f \in {proc[q].exe, proc[q].from}}

(* The processes that have file f open; an executable stays open. *)
Holders(f) == {q \in Procs : f \in {proc[q].exe, proc[q].from, proc[q].to}}

(* Processes that are on the ready list when another one runs. *)
Ready ==
  {p \in Procs \ dropped :
     \/ proc[p].at \notin {"unborn", "exit", "removing", "gone"}
     \/ proc[p].at = "removing" /\ Holders(proc[p].argv[proc[p].i]) = {}}

(* Join: the command that has ended sends its status to the shell. *)
Join ==
  /\ machine = "on" /\ shell = "join"
  /\ \E child \in Procs :
       /\ At(child, {"exit"})
       /\ proc' = [proc EXCEPT ![child].at = "sent"]
  /\ shell' = "joined"
  /\ UNCHANGED <<session, machine, entered, typed, line, argv, dropped, fileVars, display>>

(* The end of Thread::Join takes a thread from the ready list, if there is *)
(* one.                                                                    *)
JoinReturn ==
  /\ machine = "on" /\ shell = "joined"
  /\ \/ Ready = {} /\ UNCHANGED dropped
     \/ \E q \in Ready : dropped' = dropped \cup {q}
  /\ shell' = "prompt"
  /\ UNCHANGED <<session, machine, entered, typed, line, argv, proc, fileVars, display>>

(* The destructor of Thread closes the open files. *)
Destroy(p) ==
  /\ At(p, {"sent"})
  /\ Becomes(p, [proc[p] EXCEPT !.at = "gone", !.from = None, !.to = None])
  /\ UNCHANGED <<fileVars, display>>

-----------------------------------------------------------------------------
(* Commands *)

Argc(p) == Len(proc[p].argv)
Argument(p) == proc[p].argv[proc[p].i]

(* The call Create; it may find no room on the disk.  Process p goes on as *)
(* `done` or as `failed`.                                                  *)
Create(p, name, done, failed) ==
  /\ \/ /\ Len(name) <= FILE_NAME_MAX_LEN /\ name \notin DOMAIN contents
        /\ contents' = [f \in DOMAIN contents \cup {name} |->
                          IF f = name THEN <<>> ELSE contents[f]]
        /\ Becomes(p, done)
     \/ Becomes(p, failed) /\ UNCHANGED contents
  /\ UNCHANGED <<removing, display>>

(* A step of p that changes no file. *)
Moves(p, r) == Becomes(p, r) /\ UNCHANGED <<fileVars, display>>

(* touch *)
Touch(p) ==
  /\ Runs(p, {"touch"}, "main")
  /\ LET next == [proc[p] EXCEPT !.i = @ + 1]
     IN  IF proc[p].i > Argc(p) THEN Moves(p, Ended(p)) ELSE Create(p, Argument(p), next, next)

RemoveFile(f) == contents' = [g \in DOMAIN contents \ {f} |-> contents[g]]

(* rm: Remove waits for the processes that have the file open, and for     *)
(* another one that removes it.                                            *)
Rm(p) ==
  /\ Runs(p, {"rm"}, "main")
  /\ CASE proc[p].i > Argc(p) -> Moves(p, Ended(p))
       [] proc[p].i <= Argc(p) /\ Argument(p) \notin DOMAIN contents -> Moves(p, Ended(p))
       [] OTHER ->
            /\ Argument(p) \notin removing
            /\ IF Holders(Argument(p)) = {}
               THEN /\ RemoveFile(Argument(p))
                    /\ Becomes(p, [proc[p] EXCEPT !.i = @ + 1])
                    /\ UNCHANGED removing
               ELSE /\ removing' = removing \cup {Argument(p)}
                    /\ Becomes(p, [proc[p] EXCEPT !.at = "removing"])
                    /\ UNCHANGED contents
            /\ UNCHANGED display

Removed(p) ==
  /\ Runs(p, {"rm"}, "removing")
  /\ Holders(Argument(p)) = {}
  /\ RemoveFile(Argument(p))
  /\ removing' = removing \ {Argument(p)}
  /\ Becomes(p, [proc[p] EXCEPT !.at = "main", !.i = @ + 1])
  /\ UNCHANGED display

OpenOrNone(name) == IF CanOpen(name) THEN name ELSE None

(* cp creates and opens the copy, and opens the original. *)
Cp(p) ==
  \/ /\ Runs(p, {"cp"}, "main")
     /\ IF Argc(p) < 2 THEN Moves(p, Ended(p))
        ELSE Create(p, proc[p].argv[2], [proc[p] EXCEPT !.at = "copy"], Ended(p))
  \/ /\ Runs(p, {"cp"}, "copy")
     /\ Moves(p, [proc[p] EXCEPT !.at = "original", !.to = OpenOrNone(proc[p].argv[2])])
  \/ /\ Runs(p, {"cp"}, "original")
     /\ LET from == OpenOrNone(proc[p].argv[1])
        IN  IF from # None /\ proc[p].to # None
            THEN Moves(p, [proc[p] EXCEPT !.at = "read", !.from = from])
            ELSE Moves(p, [Ended(p) EXCEPT !.from = from])

(* cat opens one file, or two if there are two arguments. *)
Cat(p) ==
  /\ Runs(p, {"cat"}, "main")
  /\ IF Argc(p) >= 1 /\ CanOpen(proc[p].argv[proc[p].n])
     THEN Moves(p, [proc[p] EXCEPT !.at = "read", !.i = 1, !.from = proc[p].argv[proc[p].n]])
     ELSE Moves(p, Ended(p))

(* The loop of cp and cat: Read of a character, which at the end of the    *)
(* file leaves the '\0' ...                                                *)
ReadChar(p) ==
  /\ Runs(p, {"cp", "cat"}, "read")
  /\ LET text == contents[proc[p].from]
     IN  IF proc[p].i <= Len(text)
         THEN Moves(p, [proc[p] EXCEPT !.at = "write", !.char = text[proc[p].i]])
         ELSE Moves(p, [proc[p] EXCEPT !.at = "last", !.char = NUL])

(* File contents `text` with s written at a position. *)
PutAt(text, position, s) ==
  [k \in 1 .. Max({Len(text), position + Len(s) - 1}) |->
     IF k \in position .. position + Len(s) - 1 THEN s[k - position + 1] ELSE text[k]]

(* ... and Write of it, after the last Read too. *)
WriteChar(p) ==
  /\ \E place \in {"write", "last"} : Runs(p, {"cp", "cat"}, place)
  /\ Becomes(p, [proc[p] EXCEPT !.at = IF @ = "last" THEN "close" ELSE "read", !.i = @ + 1])
  /\ IF proc[p].program = "cp"
     THEN /\ contents' = [contents EXCEPT ![proc[p].to] = PutAt(@, proc[p].i, <<proc[p].char>>)]
          /\ UNCHANGED display
     ELSE display' = Append(display, proc[p].char) /\ UNCHANGED contents
  /\ UNCHANGED removing

(* Close of the file that was read, and of the one that was written. *)
CloseFiles(p) ==
  \/ /\ Runs(p, {"cp"}, "close")
     /\ Moves(p, [proc[p] EXCEPT !.at = "closecopy", !.from = None])
  \/ /\ Runs(p, {"cat"}, "close")
     /\ IF proc[p].n = 1 /\ Argc(p) = 2
        THEN Moves(p, [proc[p] EXCEPT !.at = "main", !.n = 2, !.from = None])
        ELSE Moves(p, [Ended(p) EXCEPT !.from = None])
  \/ /\ Runs(p, {"cp", "write"}, "closecopy")
     /\ Moves(p, [Ended(p) EXCEPT !.to = None])

(* What write and echo write: the arguments but the first, and a newline. *)
Pieces(args) ==
  LET rest == SubSeq(args, 2, Len(args))
  IN  FlattenSeq([k \in DOMAIN rest |->
                    IF k = 1 THEN <<rest[1]>> ELSE <<<<SEPARATOR>>, rest[k]>>])
        \o <<<<NEWLINE>>>>

(* write opens the file, which it may have to create, and writes from its  *)
(* start.                                                                  *)
WriteOpen(p) ==
  \/ /\ Runs(p, {"write"}, "main")
     /\ CASE Argc(p) < 1 -> Moves(p, Ended(p))
          [] Argc(p) >= 1 /\ CanOpen(proc[p].argv[1]) ->
               Moves(p, [proc[p] EXCEPT !.at = "pieces", !.to = proc[p].argv[1]])
          [] OTHER -> Moves(p, [proc[p] EXCEPT !.at = "create"])
  \/ /\ Runs(p, {"write"}, "create")
     /\ Create(p, proc[p].argv[1], [proc[p] EXCEPT !.at = "open"], Ended(p))
  \/ /\ Runs(p, {"write"}, "open")
     /\ IF CanOpen(proc[p].argv[1])
        THEN Moves(p, [proc[p] EXCEPT !.at = "pieces", !.to = proc[p].argv[1]])
        ELSE Moves(p, Ended(p))

WritePieces(p) ==
  /\ Runs(p, {"write"}, "pieces")
  /\ LET pieces == Pieces(proc[p].argv)
         position == 1 + Len(FlattenSeq(SubSeq(pieces, 1, proc[p].i - 1)))
     IN  IF proc[p].i > Len(pieces) THEN Moves(p, [proc[p] EXCEPT !.at = "closecopy"])
         ELSE /\ contents' = [contents EXCEPT ![proc[p].to] =
                                PutAt(@, position, pieces[proc[p].i])]
              /\ Becomes(p, [proc[p] EXCEPT !.i = @ + 1])
              /\ UNCHANGED <<removing, display>>

Echo(p) ==
  /\ Runs(p, {"echo"}, "main")
  /\ LET pieces == Pieces(proc[p].argv)
     IN  IF proc[p].i > Len(pieces) THEN Moves(p, Ended(p))
         ELSE /\ display' = display \o pieces[proc[p].i]
              /\ Becomes(p, [proc[p] EXCEPT !.i = @ + 1])
              /\ UNCHANGED fileVars

Halt(p) ==
  /\ Runs(p, {"halt"}, "main")
  /\ machine' = "halted"
  /\ UNCHANGED <<session, shellVars, proc, dropped, fileVars, display>>

-----------------------------------------------------------------------------
(* Concurrent calls *)

(* Process p is at a call that looks into a directory, or changes one or   *)
(* the map of free sectors.                                                *)
AtFileCall(p) ==
  \/ Runs(p, {"touch", "rm"}, "main") /\ proc[p].i <= Argc(p)
  \/ Runs(p, {"rm"}, "removing") /\ Holders(Argument(p)) = {}
  \/ Runs(p, {"cat", "write"}, "main") /\ Argc(p) >= 1
  \/ Runs(p, {"cp"}, "main") /\ Argc(p) >= 2
  \/ \E place \in {"copy", "original", "write", "last"} : Runs(p, {"cp"}, place)
  \/ \E place \in {"create", "open", "pieces"} : Runs(p, {"write"}, place)

(* Two calls at once, that of Exec included: between its test and its      *)
(* count an Open may lose its file to a Remove, and Create, Remove and     *)
(* Write each write back their own copy of the map, under no common lock.  *)
CallsOverlap ==
  /\ machine = "on"
  /\ \E p \in Procs :
       /\ AtFileCall(p)
       /\ shell = "execute" \/ \E q \in Procs \ {p} : AtFileCall(q)
  /\ machine' = "overlap"
  /\ UNCHANGED <<session, shellVars, proc, dropped, fileVars, display>>

-----------------------------------------------------------------------------

Next ==
  \/ /\ entered < Len(session.lines)
     /\ \E text \in session.lines[entered + 1] : EnterLine(text)
  \/ ExecuteAlias \/ ExecuteError \/ Join \/ JoinReturn \/ CallsOverlap
  \/ \E p \in Procs :
       \/ Start(p) \/ Destroy(p)
       \/ Touch(p) \/ Rm(p) \/ Removed(p) \/ Cp(p) \/ Cat(p)
       \/ ReadChar(p) \/ WriteChar(p) \/ CloseFiles(p)
       \/ WriteOpen(p) \/ WritePieces(p) \/ Echo(p) \/ Halt(p)

Spec == ShellInit /\ [][Next]_vars

-----------------------------------------------------------------------------

(* The words of a line: what is between separators. *)
Words(text) ==
  LET starts == {i \in DOMAIN text : text[i] # SEPARATOR
                                     /\ (i = 1 \/ text[i - 1] = SEPARATOR)}
      ends(i) == Min({k \in i .. Len(text) : text[k] = SEPARATOR} \cup {Len(text) + 1})
      first == SetToSortSeq(starts, <)
  IN  [k \in 1 .. Cardinality(starts) |-> SubSeq(text, first[k], ends(first[k]) - 1)]

(* Lines that fit in the buffer and do not end in a separator. *)
WellFormed(text) ==
  /\ Len(text) < MAX_LINE_SIZE
  /\ text # <<>> /\ text[1] # SEPARATOR /\ text[Len(text)] # SEPARATOR

(* "the arguments": a command that was started with a line finds in main   *)
(* the words of that line after the first, in order and whole, though the  *)
(* shell splits the line in place and may have read another one over it by *)
(* the time the command runs.                                              *)
ArgumentsArrive ==
  \A p \in Procs :
    proc[p].at \notin {"unborn", "new"} /\ WellFormed(proc[p].typed)
      => proc[p].argv = Tail(Words(proc[p].typed))

(* Commands that write into files, and may do so while p runs. *)
Writers(p) ==
  {q \in Procs : proc[q].program = "write" /\ (q > p \/ ~proc[q].joinable)}

(* When cp has gone through the original, the copy holds its characters    *)
(* and a '\0', though between its calls other commands remove, create or   *)
(* read files.  Nothing is said once two calls have overlapped: a Remove   *)
(* inside the Open of cp takes the sectors of the file from it, and a      *)
(* Create or a Write inside one of its Writes may share a sector with it.  *)
CopiesAreComplete ==
  \A p \in Procs :
    proc[p].program = "cp" /\ proc[p].at = "close" /\ Writers(p) = {}
      => /\ {proc[p].from, proc[p].to} \subseteq DOMAIN contents
         /\ contents[proc[p].to] = contents[proc[p].from] \o <<NUL>>
=============================================================================
