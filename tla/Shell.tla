-------------------------------- MODULE Shell -------------------------------
(***************************************************************************)
(* my_shell (shell/shell.c) and its builtin commands                       *)
(* (shell/buildin_cmd.c): reading and editing a line, splitting it,        *)
(* pipelines with their redirections, fork, exec and wait for a command on *)
(* the disk, the paths, and the current directory (fs/fs.c).               *)
(*                                                                         *)
(* A key stands for a word of the line, a slash, a blank, a bar or a       *)
(* control key.  A path is the sequence of its names.  The file system's   *)
(* calls are single steps here (Dir takes them apart), and other processes *)
(* make and remove files between the steps of the shell.  A child whose    *)
(* execv fails returns into my_shell: from then on it is the shell that    *)
(* reads lines, and its parent waits for it.                               *)
(***************************************************************************)
EXTENDS Integers, Sequences, FiniteSets, SequencesExt

CONSTANTS Names,        \* names of files and directories
          MaxIno,       \* inodes 1 .. MaxIno; 0 is the root
          COUNT,        \* MAX_PATH_LEN: the bytes of cmd_line
          MAX_ARG_NR,   \* the entries of argv
          MaxFd,        \* MAX_FILES_OPEN_PER_PROC
          Slots,        \* entries of the file table that are not in use by others
          Lines         \* what a user sets out to type

Inodes == 1 .. MaxIno
None == -1              \* no inode; a free descriptor
Nul == "nul"
Enter == "enter"
Back == "back"
CtrlL == "ctrl+l"
CtrlU == "ctrl+u"
Edits == {Enter, Back, CtrlL, CtrlU}
Chars == Edits \cup {Nul} \cup UNION {Range(l) : l \in Lines}

(* The keyboard delivers no character 0 (device/keyboard.c), and a pipe    *)
(* finds two descriptors besides the standard ones.                        *)
ASSUME ShAssumption ==
    /\ COUNT \in Nat \ {0} /\ MaxIno \in Nat /\ Slots \in Nat
    /\ MaxFd \in Nat /\ MaxFd >= 5
    /\ \A l \in Lines : l \in Seq(Chars \ {Nul})

VARIABLES tree,         \* the files: type, directory and name of each inode
          cwd,          \* cwd_inode_nr of the shell
          cache,        \* cwd_cache: what the prompt shows
          cmd_line, pos,\* the line and readline's position in it
          shown,        \* what the screen shows after the prompt
          pc,           \* where the shell is
          todo,         \* the commands of the line that are left
          final_path,   \* the path a step of the command looked up
          fd,           \* fd_table: 0 and 1 are keyboard and screen
          pipe,         \* the file table entry of the line's pipe, 0 is none
          opens,        \* fd_pos of the pipes: how often each is open
          waiting,      \* the pipes of the shells waiting for this one
          trusted,      \* history: since the last cd its directory was not
                        \* removed and cwd_cache not overwritten
          stop          \* why the shell or the machine stopped

fsVars == <<tree, cwd, cache, trusted>>
lineVars == <<cmd_line, pos, shown>>
fdVars == <<fd, pipe, opens, waiting>>
shVars == <<fsVars, lineVars, fdVars, pc, todo, final_path, stop>>

Unused == [type |-> "none", up |-> 0, name |-> Nul]
Blank == [i \in 0 .. COUNT |-> Nul]     \* cell COUNT is past cmd_line's end
Std == [i \in 0 .. (MaxFd - 1) |-> IF i < 3 THEN i ELSE None]
GetSlot(f) == CHOOSE i \in 3 .. (MaxFd - 1) :
                  /\ f[i] = None
                  /\ \A j \in 3 .. (i - 1) : f[j] # None

ShInit ==
    /\ tree = [i \in Inodes |-> Unused]
    /\ cwd = 0 /\ cache = <<>> /\ trusted = TRUE
    /\ cmd_line = Blank /\ pos = 0 /\ shown = <<>>
    /\ pc = "read" /\ todo = <<>> /\ final_path = <<>>
    /\ fd = Std /\ pipe = 0 /\ waiting = <<>>
    /\ opens = [s \in 1 .. Slots |-> 0]
    /\ stop = "no"

----------------------------------------------------------------------------
(* The tree and the paths.                                                 *)

IsDir(i) == i = 0 \/ (i \in Inodes /\ tree[i].type = "dir")
Regular(i) == i \in Inodes /\ tree[i].type \in {"file", "program"}
Children(d) == {i \in Inodes : tree[i].type # "none" /\ tree[i].up = d}
Child(d, n) ==
    IF \E i \in Children(d) : tree[i].name = n
    THEN CHOOSE i \in Children(d) : tree[i].name = n
    ELSE None

(* search_file: an ordinary file ends the search, names after it are not   *)
(* looked at.                                                              *)
SearchStep(i, n) == IF IsDir(i) THEN Child(i, n) ELSE i
SearchFile(path) == FoldLeft(SearchStep, 0, path)

(* sys_getcwd goes up through the entries ".." and looks up the name of    *)
(* each directory in its parent.                                           *)
PathOf[i \in 0 .. MaxIno] ==
    IF i = 0 THEN <<>> ELSE Append(PathOf[tree[i].up], tree[i].name)

(* Mutant: the first name is taken for the root. *)
WashStepShort(path, n) ==
    IF n = ".." THEN IF Len(path) <= 1 THEN path ELSE Front(path)
    ELSE IF n = "." THEN path ELSE Append(path, n)

(* wash_path: a ".." takes the last name away, a "." nothing.              *)
WashStep(path, n) ==
    IF n = ".." THEN IF path = <<>> THEN <<>> ELSE Front(path)
    ELSE IF n = "." THEN path ELSE Append(path, n)
WashPath(path) == FoldLeft(WashStep, <<>>, path)

(* path_parse, make_clear_abs_path: a word that does not start with a      *)
(* slash is taken from the current directory.                              *)
PathNames(word) == SelectSeq(word, LAMBDA k : k # "/")
Absolute(word) == word # <<>> /\ Head(word) = "/"
MakeClearAbsPath(word) ==
    WashPath((IF Absolute(word) THEN <<>> ELSE PathOf[cwd]) \o PathNames(word))

(* get_parent_dir_inode_nr asserts that the inode has a first block and    *)
(* that it holds entries.                                                  *)
GetcwdPanics(word) == ~Absolute(word) /\ ~IsDir(cwd)

----------------------------------------------------------------------------
(* readline: a key is stored before the position is compared with count.   *)

Text == [i \in 1 .. pos |-> cmd_line[i - 1]]
(* The string that starts at cmd_line.                                     *)
StringIn(b) ==
    LET ends == {i \in 0 .. COUNT : b[i] = Nul}
        n == IF ends = {} THEN COUNT + 1
             ELSE CHOOSE i \in ends : \A j \in ends : i <= j
    IN [i \in 1 .. n |-> b[i - 1]]
Drop(s, n) == SubSeq(s, 1, Len(s) - n)

(* Mutant: the string is not ended at pos. *)
RedrawnWhole(b) == StringIn(b)

(* ctrl+l ends the string at pos and prints it again.                      *)
Redrawn(b) == StringIn([b EXCEPT ![pos] = Nul])

Typed(k) ==
    LET b == [cmd_line EXCEPT ![pos] = k] IN
    \/ /\ k = Enter
       /\ cmd_line' = [b EXCEPT ![pos] = Nul]
       /\ pc' = "parse"
       /\ UNCHANGED <<pos, shown>>
    \/ /\ k = Back
       /\ cmd_line' = b
       /\ IF b[0] # Back
          THEN pos' = pos - 1 /\ shown' = Drop(shown, 1)
          ELSE UNCHANGED <<pos, shown>>
       /\ UNCHANGED pc
    \/ /\ k = CtrlL
       /\ cmd_line' = [b EXCEPT ![pos] = Nul]
       /\ shown' = Redrawn(b)
       /\ UNCHANGED <<pos, pc>>
    \/ /\ k = CtrlU
       /\ cmd_line' = [i \in 0 .. COUNT |-> IF i \in 1 .. pos THEN Nul ELSE b[i]]
       /\ shown' = Drop(shown, pos)
       /\ pos' = 0
       /\ UNCHANGED pc
    \/ /\ k \notin Edits
       /\ cmd_line' = b
       /\ pos' = pos + 1
       /\ shown' = Append(shown, k)
       /\ UNCHANGED pc

(* The user follows one of the lines, or edits.                            *)
Keys == Edits \cup
        {l[pos + 1] : l \in {m \in Lines : Len(m) > pos /\ SubSeq(m, 1, pos) = Text}}

Readline(k) ==
    /\ pc = "read" /\ stop = "no" /\ k \in Keys
    /\ IF pos < COUNT
       THEN Typed(k) /\ UNCHANGED <<cache, trusted>>
       ELSE \* byte COUNT belongs to another variable, cwd_cache perhaps
            /\ cmd_line' = [cmd_line EXCEPT ![pos] = k]
            /\ pc' = "parse"
            /\ \/ UNCHANGED <<cache, trusted>>
               \/ cache' = <<k>> /\ trusted' = FALSE
            /\ UNCHANGED <<pos, shown>>
    /\ UNCHANGED <<tree, cwd, fdVars, todo, final_path, stop>>

----------------------------------------------------------------------------
(* cmd_parse: the words between separators.  It gives up only after it has *)
(* stored two words too many.                                              *)
CutAt(s, token) ==
    LET ends == {0, Len(s) + 1} \cup {i \in 1 .. Len(s) : s[i] = token}
        end(k) == CHOOSE e \in ends : Cardinality({j \in ends : j < e}) = k
    IN [k \in 1 .. (Cardinality(ends) - 1) |-> SubSeq(s, end(k - 1) + 1, end(k) - 1)]
Words(s) == SelectSeq(CutAt(s, " "), LAMBDA w : w # <<>>)
CmdParse(s) == IF Len(Words(s)) <= MAX_ARG_NR + 1 THEN Len(Words(s)) ELSE None

NewPrompt ==
    /\ cmd_line' = Blank /\ pos' = 0 /\ shown' = <<>>
    /\ pc' = "read" /\ todo' = <<>> /\ final_path' = <<>>

(* sys_pipe and the redirection of the output; a line without a bar is one *)
(* command.                                                                *)
ParseLine ==
    /\ pc = "parse" /\ stop = "no"
    /\ LET s == StringIn(cmd_line)
           free == {i \in 1 .. Slots : opens[i] = 0}
           slot == CHOOSE i \in free : \A j \in free : i <= j
           f1 == [fd EXCEPT ![GetSlot(fd)] = slot + 2]
           f2 == [f1 EXCEPT ![GetSlot(f1)] = slot + 2]
       IN \/ /\ s = <<>> \/ ("|" \notin Range(s) /\ CmdParse(s) = None)
             /\ NewPrompt
             /\ UNCHANGED <<fdVars, stop>>
          \/ /\ s # <<>> /\ "|" \notin Range(s) /\ CmdParse(s) # None
             /\ todo' = <<s>> /\ pc' = "run"
             /\ UNCHANGED <<lineVars, fdVars, final_path, stop>>
          \/ /\ "|" \in Range(s) /\ free # {}
             /\ todo' = CutAt(s, "|") /\ pc' = "run"
             /\ pipe' = slot
             /\ opens' = [opens EXCEPT ![slot] = 2]
             /\ fd' = [f2 EXCEPT ![1] = slot + 2]
             /\ UNCHANGED <<lineVars, waiting, final_path, stop>>
          \/ /\ "|" \in Range(s) /\ free = {}
             /\ stop' = "no slot"          \* sys_pipe stores into file_table[-1]
             /\ UNCHANGED <<lineVars, fdVars, pc, todo, final_path>>
    /\ UNCHANGED fsVars

(* Mutant: the output is restored after the last command, not before it. *)
RedirectedLate ==
    IF Len(todo) = 1 THEN Std ELSE [fd EXCEPT ![0] = pipe + 2]

(* Whatever follows a command: the input of all but the first and the      *)
(* output of all but the last go to the pipe, which is closed at the end.  *)
(* `open` is how often the pipe is open when the command is done.          *)
Redirected ==
    IF Len(todo) = 1 THEN Std
    ELSE [fd EXCEPT ![0] = pipe + 2,
                    ![1] = IF Len(todo) = 2 THEN 1 ELSE @]
Finish(open) ==
    \/ /\ pipe = 0
       /\ NewPrompt
       /\ UNCHANGED <<fd, pipe, opens>>
    \/ /\ pipe # 0 /\ Len(todo) > 1
       /\ fd' = Redirected
       /\ opens' = [opens EXCEPT ![pipe] = open]
       /\ todo' = Tail(todo) /\ pc' = "run" /\ final_path' = <<>>
       /\ UNCHANGED <<lineVars, pipe>>
    \/ /\ pipe # 0 /\ Len(todo) = 1
       /\ NewPrompt
       /\ fd' = Redirected
       /\ opens' = [opens EXCEPT ![pipe] = open - 2]
       /\ pipe' = 0

Opens == IF pipe = 0 THEN 0 ELSE opens[pipe]
Stops(why) == stop' = why /\ UNCHANGED <<fsVars, lineVars, fdVars, pc, todo, final_path>>
Ends == Finish(Opens) /\ UNCHANGED <<waiting, stop>>

----------------------------------------------------------------------------
(* cmd_execute and the commands it knows.                                  *)

Argv == Words(Head(todo))
Argc == CmdParse(Head(todo))
Runs(name) == pc = "run" /\ stop = "no" /\ Argv # <<>> /\ Argv[1] = <<name>>
Builtins == {"ls", "cd", "pwd", "ps", "mkdir", "rmdir", "rm"}

(* strcmp asserts that argv[0] is not NULL.                                *)
CmdNothing ==
    /\ pc = "run" /\ stop = "no" /\ Argv = <<>>
    /\ Stops("no word")

(* Mutant: what buildin_cd returned is not tested. *)
ChdirAlways(path) ==
    LET i == SearchFile(path) IN
    /\ cwd' = IF IsDir(i) THEN i ELSE cwd
    /\ cache' = path /\ trusted' = TRUE

(* sys_chdir; cwd_cache becomes the washed path.                           *)
Chdir(path) ==
    LET i == SearchFile(path) IN
    IF IsDir(i)
    THEN cwd' = i /\ cache' = path /\ trusted' = TRUE
    ELSE UNCHANGED <<cwd, cache, trusted>>

BuildinCd ==
    /\ Runs("cd")
    /\ \/ /\ Argc = 2 /\ GetcwdPanics(Argv[2])
          /\ Stops("cwd")
       \/ /\ Argc = 1 \/ (Argc = 2 /\ ~GetcwdPanics(Argv[2]))
          /\ Chdir(IF Argc = 1 THEN <<>> ELSE MakeClearAbsPath(Argv[2]))
          /\ Ends /\ UNCHANGED tree
       \/ /\ Argc \notin {1, 2}
          /\ Ends /\ UNCHANGED fsVars

(* sys_mkdir, sys_rmdir, sys_unlink on the washed path, as far as the      *)
(* bound on inodes allows.                                                 *)
MakeNode(path, type) ==
    LET d == SearchFile(Front(path))
        free == {i \in Inodes : tree[i].type = "none"}
    IN IF path # <<>> /\ IsDir(d) /\ SearchFile(path) = None /\ free # {}
       THEN tree' = [tree EXCEPT ![CHOOSE i \in free : \A j \in free : i <= j] =
                         [type |-> type, up |-> d, name |-> Last(path)]]
       ELSE UNCHANGED tree

Removable(i, name) ==
    \/ name = "rmdir" /\ i # 0 /\ IsDir(i) /\ Children(i) = {}
    \/ name = "rm" /\ Regular(i)

(* sys_unlink refuses a file that some process has open. *)
MayBeOpen(name) == name = "rm"

RemoveNode(i) ==
    /\ tree' = [tree EXCEPT ![i] = Unused]
    /\ trusted' = (trusted /\ i # cwd)

OnPath(name) ==
    LET path == MakeClearAbsPath(Argv[2])
        i == SearchFile(path)
    IN CASE name = "mkdir" -> MakeNode(path, "dir") /\ UNCHANGED trusted
         [] OTHER -> \/ path # <<>> /\ Removable(i, name) /\ RemoveNode(i)
                     \/ /\ path = <<>> \/ ~Removable(i, name) \/ MayBeOpen(name)
                        /\ UNCHANGED <<tree, trusted>>

BuildinPath(name) ==
    /\ name \in {"mkdir", "rmdir", "rm"} /\ Runs(name)
    /\ \/ /\ Argc = 2 /\ GetcwdPanics(Argv[2])
          /\ Stops("cwd")
       \/ /\ Argc = 2 /\ ~GetcwdPanics(Argv[2])
          /\ OnPath(name)
          /\ Ends /\ UNCHANGED <<cwd, cache>>
       \/ /\ Argc # 2
          /\ Ends /\ UNCHANGED fsVars

(* buildin_ps, buildin_clear and buildin_help change nothing here.         *)
BuildinPwd ==
    /\ Runs("pwd") \/ Runs("ps")
    /\ IF Runs("pwd") /\ Argc = 1 /\ ~IsDir(cwd)
       THEN Stops("cwd")
       ELSE Ends /\ UNCHANGED fsVars

(* buildin_ls: the path is looked up by sys_stat, and again by sys_opendir.*)
(* A second path ends it, also with too many words in a pipeline; options  *)
(* are left out.                                                           *)
LsWord == IF Argc = 1 THEN <<>> ELSE Argv[2]
LsPath == IF Argc = 1 THEN PathOf[cwd] ELSE MakeClearAbsPath(Argv[2])
BuildinLs ==
    /\ Runs("ls")
    /\ \/ /\ Argc \in {1, 2} /\ GetcwdPanics(LsWord)
          /\ Stops("cwd")
       \/ /\ Argc \in {1, 2} /\ ~GetcwdPanics(LsWord) /\ IsDir(SearchFile(LsPath))
          /\ pc' = "ls" /\ final_path' = LsPath
          /\ UNCHANGED <<fsVars, lineVars, fdVars, todo, stop>>
       \/ /\ Argc \notin {1, 2} \/ (~GetcwdPanics(LsWord) /\ ~IsDir(SearchFile(LsPath)))
          /\ Ends /\ UNCHANGED fsVars

(* sys_opendir, sys_rewinddir of what it returned, sys_readdir to the end, *)
(* sys_closedir.                                                           *)
LsOpen ==
    /\ pc = "ls" /\ stop = "no"
    /\ IF IsDir(SearchFile(final_path))
       THEN Ends /\ UNCHANGED fsVars
       ELSE Stops("no dir")

----------------------------------------------------------------------------
(* Any other command: fork; the child stats the path and calls execv.      *)

External == pc = "run" /\ stop = "no" /\ Argv # <<>> /\ Argv[1] \notin {<<b>> : b \in Builtins}

(* fork returns -1: wait finds no child and my_shell panics.               *)
ForkFails == External /\ Stops("no child")

(* update_inode_open_cnts: the child has the pipe open twice as well.      *)
ChildStat ==
    /\ External
    /\ \/ /\ GetcwdPanics(Argv[1])
          /\ Stops("cwd")
       \/ /\ ~GetcwdPanics(Argv[1])
          /\ SearchFile(MakeClearAbsPath(Argv[1])) = None
          /\ Ends /\ UNCHANGED fsVars           \* exit(-1) closes what it had
       \/ /\ ~GetcwdPanics(Argv[1])
          /\ SearchFile(MakeClearAbsPath(Argv[1])) # None
          /\ final_path' = MakeClearAbsPath(Argv[1])
          /\ pc' = "exec"
          /\ opens' = IF pipe = 0 THEN opens ELSE [opens EXCEPT ![pipe] = @ + 2]
          /\ UNCHANGED <<fsVars, lineVars, fd, pipe, waiting, todo, stop>>

(* sys_execv loads an ordinary file that is a program, if all of the path  *)
(* was needed to find it.                                                  *)
Loads(path) ==
    LET i == SearchFile(path)
    IN i # None /\ ~IsDir(i) /\ tree[i].type = "program" /\ PathOf[i] = path

ExecStarts ==
    /\ pc = "exec" /\ stop = "no" /\ Loads(final_path)
    /\ pc' = "wait"
    /\ UNCHANGED <<fsVars, lineVars, fdVars, todo, final_path, stop>>

(* The program ends: release_prog_resource closes its ends of the pipe.    *)
ChildExits ==
    /\ pc = "wait" /\ stop = "no"
    /\ Finish(Opens - 2)
    /\ UNCHANGED <<fsVars, waiting, stop>>

(* execv returns -1 and the child returns from cmd_execute into my_shell.  *)
ExecFails ==
    /\ pc = "exec" /\ stop = "no" /\ ~Loads(final_path)
    /\ waiting' = Append(waiting, pipe)
    /\ Finish(Opens)
    /\ UNCHANGED <<fsVars, stop>>

----------------------------------------------------------------------------
(* Other processes make and remove files and directories.                  *)
OthersMake(d, n, type) ==
    /\ stop = "no" /\ IsDir(d) /\ Child(d, n) = None
    /\ \E i \in Inodes : tree[i].type = "none"
    /\ MakeNode(Append(PathOf[d], n), type)
    /\ UNCHANGED <<cwd, cache, trusted, lineVars, fdVars, pc, todo, final_path, stop>>

OthersRemove(i) ==
    /\ stop = "no" /\ \E name \in {"rmdir", "rm"} : Removable(i, name)
    /\ RemoveNode(i)
    /\ UNCHANGED <<cwd, cache, lineVars, fdVars, pc, todo, final_path, stop>>

ShNext ==
    \/ \E k \in Keys : Readline(k)
    \/ ParseLine
    \/ CmdNothing
    \/ BuildinCd
    \/ \E name \in {"mkdir", "rmdir", "rm"} : BuildinPath(name)
    \/ BuildinPwd
    \/ BuildinLs
    \/ LsOpen
    \/ ForkFails
    \/ ChildStat
    \/ ExecStarts
    \/ ChildExits
    \/ ExecFails
    \/ \E d \in 0 .. MaxIno, n \in Names, type \in {"dir", "file", "program"} :
          OthersMake(d, n, type)
    \/ \E i \in Inodes : OthersRemove(i)

ShSpec == ShInit /\ [][ShNext]_shVars

----------------------------------------------------------------------------
ShTypeOK ==
    /\ DOMAIN tree = Inodes /\ cwd \in 0 .. MaxIno
    /\ cmd_line \in [0 .. COUNT -> Chars] /\ pos \in 0 .. COUNT
    /\ pc \in {"read", "parse", "run", "ls", "exec", "wait"}
    /\ fd \in [0 .. (MaxFd - 1) -> {None} \cup (0 .. (Slots + 2))]
    /\ pipe \in 0 .. Slots /\ waiting \in Seq(0 .. Slots)
    /\ opens \in [1 .. Slots -> Nat] /\ trusted \in BOOLEAN

(* While a line is typed the screen shows exactly what readline has in     *)
(* cmd_line before pos, whatever was erased, cleared or redrawn: the       *)
(* backspaces it prints match the bytes it gives up, and ctrl+l prints no  *)
(* byte that was erased.                                                   *)
LineShown == pc = "read" => shown = Text

(* How many of the waiting shells have pipe s, and how often a child has   *)
(* the pipe of the line open.                                              *)
Holders(s) == Cardinality({i \in 1 .. Len(waiting) : waiting[i] = s})
ChildOpens == IF pc \in {"exec", "wait"} THEN 2 ELSE 0

(* At a prompt my_shell reads the keyboard, writes to the screen and has   *)
(* no other descriptor; in a pipeline the first command reads the keyboard *)
(* and the last writes to the screen.  A pipe is open twice for every      *)
(* shell and every child that has it, so its page is freed when the line   *)
(* is done, except where a shell that waits forever still holds it.        *)
DescriptorsExact ==
    /\ ShTypeOK
    /\ pipe = 0 => fd = Std
    /\ pipe # 0 =>
         /\ \E i, j \in 3 .. (MaxFd - 1) : i # j /\ fd[i] = pipe + 2 /\ fd[j] = pipe + 2
         /\ Len(todo) = 1 <=> fd[1] = 1
         /\ (fd[0] = 0) => Len(todo) > 1
    /\ \A s \in 1 .. Slots :
         opens[s] = 2 * Holders(s) + (IF s = pipe THEN 2 + ChildOpens ELSE 0)

(* The prompt names the directory in which the commands work: cwd_cache,   *)
(* which only cd updates, is the path sys_getcwd would build, as long as   *)
(* the directory is not removed and readline stays inside its buffer.      *)
PromptTrue == trusted => (IsDir(cwd) /\ PathOf[cwd] = cache)

(* make_clear_abs_path strikes out ".." by name.  At a prompt, where each   *)
(* step of the path the user wrote leads to a directory, following the     *)
(* entries from the current directory ends at the file that search_file    *)
(* finds for the washed path.                                              *)
WalkStep(i, n) ==
    IF ~IsDir(i) THEN None
    ELSE IF n = "." THEN i
    ELSE IF n = ".." THEN (IF i = 0 THEN 0 ELSE tree[i].up)
    ELSE Child(i, n)
Relative == UNION {[1 .. n -> Names \cup {".", ".."}] : n \in 1 .. 3}
WashedAgrees ==
    (pc = "read" /\ pos = 0 /\ IsDir(cwd)) =>
        \A path \in Relative :
            LET i == FoldLeft(WalkStep, cwd, path)
            IN i # None => SearchFile(MakeClearAbsPath(path)) = i
=============================================================================
