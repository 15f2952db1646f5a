------------------------------- MODULE Shell -------------------------------
(***************************************************************************)
(* SandboxShell.exec: pipelines of commands, run one after the other, on   *)
(* top of VFS.  Each step is one call of the file system, so a command     *)
(* with several operands may stop between two of them and another client   *)
(* of a storage adapter may write between any two.  Lines are given as     *)
(* parse_pipeline and the expansion of variables and globs make them; the  *)
(* view hides nothing.                                                     *)
(***************************************************************************)
EXTENDS VFS, Integers

CONSTANTS
    Lines,          \* what may be executed: sequences of commands
    Allowed,        \* allowed_commands; without any, every command is allowed
    NoFile,         \* the redirection of a command without one
    MaxOutput,      \* max_output_bytes, in pieces of text
    StartLen,       \* bound: pieces of text in a file when a line starts
    StartVersion    \* bound: version of a file when a line starts

Readers == {"cat", "head", "tail"}
Commands == Readers \cup {"echo", "touch", "mkdir", "rm", "cp", "mv", "write", "append"}

\* CommandSpec: the operands, the one flag of the command (-p, -r, --append), the
\* number after -n, the text of echo and write, whether the output of the command
\* before it is its input, and the redirections.
Command ==
    [name: Commands \cup {"unknown"},
     operands: Seq(Path), flag: BOOLEAN, count: Int, text: Seq(Data), piped: BOOLEAN,
     stdin: Path \cup {NoFile}, stdout: Path \cup {NoFile}, append: BOOLEAN]

ASSUME LineAssumption ==
    /\ Lines \subseteq Seq(Command)
    /\ << >> \notin Lines
    /\ Allowed \subseteq Commands
    /\ NoFile \notin Path
    /\ MaxOutput \in Nat /\ StartLen \in Nat /\ StartVersion \in Nat

VARIABLES
    line,           \* the commands still to be run, the present one first
    phase,          \* what is done with the present one
    operands,       \* its operands that have not been handled
    stdin,          \* what it reads
    stdout,         \* what it has printed, or what the one before it printed
    ended           \* how the last line ended: with a result or an exception

shellVars == <<line, phase, operands, stdin, stdout, ended>>
allVars == <<vars, shellVars>>

ShellTypeOK ==
    /\ TypeOK
    /\ line \in Seq(Command)
    /\ phase \in {"idle", "start", "run", "redirect"}
    /\ operands \in Seq(Path)
    /\ stdin \in Seq(Data) /\ stdout \in Seq(Data)
    /\ ended \in {"ok", "failed", "raised"}

ShellInit ==
    /\ Init
    /\ line = << >> /\ operands = << >>
    /\ phase = "idle"
    /\ stdin = << >> /\ stdout = << >>
    /\ ended = "ok"

command == Head(line)

Readable(p) == IsFile(fs, p) /\ fs[p].policy.readable

-----------------------------------------------------------------------------
(* The steps of exec. *)

Exec(l) ==
    /\ phase = "idle"
    /\ \A p \in Files(fs) : Len(fs[p].content) <= StartLen /\ fs[p].version <= StartVersion
    /\ line' = l
    /\ phase' = "start"
    /\ UNCHANGED <<vars, operands, stdin, stdout, ended>>

\* exec returns or raises; what the line has done stays done.
End(how) ==
    /\ ended' = how
    /\ phase' = "idle"
    /\ line' = << >> /\ operands' = << >>
    /\ stdin' = << >> /\ stdout' = << >>

\* The dispatcher knows the command and lets it through.
Dispatched ==
    /\ command.name \in Commands
    /\ Allowed = {} \/ command.name \in Allowed

\* The operands of the command are as many as it takes.
Runnable ==
    /\ Dispatched
    /\ command.name \in {"touch", "mkdir", "rm"} => command.operands # << >>
    /\ command.name \in {"cp", "mv"} => Len(command.operands) = 2
    /\ command.name \in {"write", "append"} => Len(command.operands) = 1

\* lines[:count] and lines[-count:].
FirstLines(text, count) ==
    SubSeq(text, 1, IF count < 0 THEN Len(text) + count
                    ELSE IF count < Len(text) THEN count ELSE Len(text))
LastLines(text, count) ==
    SubSeq(text, 1 + (IF count > Len(text) THEN 0
                      ELSE IF count > 0 THEN Len(text) - count ELSE -count), Len(text))

\* What the readers print of a text; between several, head and tail print lines
\* of their own, which are left out.
Shown(text) ==
    CASE command.name = "cat"  -> text
      [] command.name = "head" -> FirstLines(text, command.count)
      [] command.name = "tail" -> LastLines(text, command.count)

\* What a command has printed when it has not handled an operand yet.
PrintedFirst(input) ==
    IF command.name = "echo" THEN command.text
    ELSE IF command.name \in Readers /\ command.operands = << >> THEN Shown(input)
    ELSE << >>

\* A file that cannot be read raises outside of the try of _run_command.
Begin ==
    LET from == command.stdin
        input == IF from # NoFile THEN fs[from].content
                 ELSE IF command.piped THEN stdout ELSE << >>
    IN  \/ from # NoFile /\ ~Readable(from) /\ End("raised")
        \/ /\ from # NoFile => Readable(from)
           /\ ~Runnable
           /\ End("failed")
        \/ /\ from # NoFile => Readable(from)
           /\ Runnable
           /\ phase' = "run"
           /\ operands' = command.operands
           /\ stdin' = input
           /\ stdout' = PrintedFirst(input)
           /\ UNCHANGED <<line, ended>>

\* Slip: the file that takes the output is emptied before the command runs.
StartTruncating ==
    /\ phase = "start"
    /\ fs' = [p \in Path |-> IF p = command.stdout /\ IsFile(fs, p) /\ ~command.append
                             THEN [fs[p] EXCEPT !.content = << >>]
                             ELSE fs[p]]
    /\ UNCHANGED <<cwd, index, indexOn, mounted, store, mirror, snap, res>>
    /\ Begin

Start == phase = "start" /\ UNCHANGED vars /\ Begin

\* The first n operands have been handled.
Handled(n) == operands' = SubSeq(operands, n + 1, Len(operands))

\* Slip: a call that raises does not end the command.
AfterCallCarryOn(n) == Handled(n) /\ UNCHANGED <<line, phase, stdin, stdout, ended>>

\* Slip: a call that raises is made again.
AfterCallRetry(n) ==
    \/ res' # "ok" /\ UNCHANGED shellVars
    \/ res' = "ok" /\ Handled(n) /\ UNCHANGED <<line, phase, stdin, stdout, ended>>

\* After a call of the file system that concerns the first n operands:
\* _run_command turns every exception into a result, which ends the line.
AfterCall(n) ==
    \/ res' # "ok" /\ End("failed")
    \/ res' = "ok" /\ Handled(n) /\ UNCHANGED <<line, phase, stdin, stdout, ended>>

\* _cmd_write and _cmd_append write what they are told to the one file.
CmdTouch(p) == command.name = "touch" /\ Touch(p)
CmdMkdir(p) == command.name = "mkdir" /\ Mkdir(p, command.flag, command.flag)
CmdRm(p)    == command.name = "rm"    /\ Remove(p, command.flag)
CmdWrite(p) ==
    /\ command.name \in {"write", "append"}
    /\ WriteFile(p, command.text, command.flag \/ command.name = "append", Unversioned)
CmdCp(src, dst) == command.name = "cp" /\ Copy(src, dst, command.flag)
CmdMv(src, dst) == command.name = "mv" /\ Move(src, dst)

\* One operand at a time, or the two of cp and mv together.
Change ==
    /\ phase = "run" /\ operands # << >>
    /\ LET p == Head(operands)
       IN  \/ (CmdTouch(p) \/ CmdMkdir(p) \/ CmdRm(p) \/ CmdWrite(p)) /\ AfterCall(1)
           \/ /\ Len(operands) = 2
              /\ CmdCp(p, operands[2]) \/ CmdMv(p, operands[2])
              /\ AfterCall(2)

\* _cmd_cat, _cmd_head and _cmd_tail, for a path.
Read ==
    /\ phase = "run" /\ operands # << >>
    /\ command.name \in Readers
    /\ UNCHANGED vars
    /\ \/ ~Readable(Head(operands)) /\ End("failed")
       \/ /\ Readable(Head(operands))
          /\ Handled(1)
          /\ stdout' = stdout \o Shown(fs[Head(operands)].content)
          /\ UNCHANGED <<line, phase, stdin, ended>>

\* The command is done and has left printed for the next one.
NextCommand(printed) ==
    \/ Len(line) = 1 /\ End("ok")
    \/ /\ Len(line) > 1
       /\ line' = Tail(line)
       /\ phase' = "start"
       /\ stdin' = << >> /\ stdout' = printed
       /\ UNCHANGED <<operands, ended>>

\* _enforce_output_limit comes before the redirection.
Finish ==
    /\ phase = "run" /\ operands = << >>
    /\ UNCHANGED vars
    /\ \/ Len(stdout) > MaxOutput /\ End("failed")
       \/ /\ Len(stdout) <= MaxOutput
          /\ command.stdout = NoFile
          /\ NextCommand(stdout)
       \/ /\ Len(stdout) <= MaxOutput
          /\ command.stdout # NoFile
          /\ phase' = "redirect"
          /\ UNCHANGED <<line, operands, stdin, stdout, ended>>

\* _write_to_path, again outside of the try of _run_command.
Redirect ==
    /\ phase = "redirect"
    /\ WriteFile(command.stdout, stdout, command.append, Unversioned)
    /\ \/ res' # "ok" /\ End("raised")
       \/ res' = "ok" /\ NextCommand(<< >>)

ShellStep == Start \/ Change \/ Read \/ Finish \/ Redirect

-----------------------------------------------------------------------------
\* The host mounts storage and sets policies between two lines; other clients
\* write to the adapters at any time.
HostStep ==
    /\ phase = "idle"
    /\ \/ \E m \in MountPoints : MountStorage(m, FALSE)
       \/ \E grant \in Grants : SetPolicy(grant[1], grant[2])
    /\ UNCHANGED shellVars

ClientStep ==
    /\ \E m \in MountPoints, p \in Path, d \in Text : ExternalWrite(m, p, d)
    /\ UNCHANGED shellVars

ShellNext == (\E l \in Lines : Exec(l)) \/ ShellStep \/ HostStep \/ ClientStep

\* exec is a loop that calls the file system and nothing that waits.
ShellSpec == ShellInit /\ [][ShellNext]_allVars /\ WF_allVars(ShellStep)

=============================================================================
