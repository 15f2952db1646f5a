-------------------------- MODULE ShellProperties --------------------------
(***************************************************************************)
(* What a line of commands promises to the one who has it executed.        *)
(***************************************************************************)
EXTENDS Shell

Seqs == INSTANCE SequencesExt

TextsOf(files) == Seqs!FlattenSeq([i \in DOMAIN files |-> fs[files[i]].content])

\* Where a node at src is when cp or mv has put it in the place of dst or in dst.
Arrivals(src, dst) == {q \in {dst, Append(dst, BaseName(src))} : Exists(fs, q)}

Copied(src, dst) ==
    /\ Exists(fs, dst)
    /\ \E q \in Arrivals(src, dst) :
          fs[q].kind = fs[src].kind /\ fs[q].content = fs[src].content
Moved(src, dst) ==
    /\ Exists(fs, dst)
    /\ \E q \in Arrivals(src, dst) : q = src \/ ~Exists(fs, src)

\* A command that is done without a failure has done what it says for every one
\* of its operands, not only for the last: a removal has left none of them, and
\* no later operand has undone what an earlier one had made; a copy has the text
\* of its source, which is still there, and a moved node is at its new place only.
\* head and tail print as much as they are told to, from the right end (tail -n 0
\* prints everything: lines[-0:], shell.py:1237).
CommandsKeepTheirWord ==
    phase = "run" /\ operands = << >> =>
        LET named == Seqs!ToSet(command.operands)
        IN  /\ command.name = "touch" => named \subseteq Files(fs)
            /\ command.name = "mkdir" => \A p \in named : IsDir(fs, p)
            /\ command.name = "rm"    => \A p \in named : ~Exists(fs, p)
            /\ command.name = "cp" => Copied(command.operands[1], command.operands[2])
            /\ command.name = "mv" => Moved(command.operands[1], command.operands[2])
            /\ command.name \in {"write", "append"} => Seqs!IsSuffix(command.text, fs[command.operands[1]].content)
            /\ command.name = "cat" /\ named # {} => stdout = TextsOf(command.operands)
            /\ command.name \in {"head", "tail"} /\ Len(command.operands) = 1 =>
                 LET all == fs[command.operands[1]].content
                 IN  /\ command.name = "head" => Seqs!IsPrefix(stdout, all)
                     /\ command.name = "tail" => Seqs!IsSuffix(stdout, all)
                     /\ command.count > 0 /\ command.count <= Len(all) =>
                          Len(stdout) = command.count

\* A command may write to the file it reads: until it is done the file keeps its
\* text, and cat of a file into itself keeps it for good.  The output is opened
\* after the command has run, and no command but the ones that change the tree
\* touches any other file.
ReadersKeepTheirSources ==
    [][ phase # "idle" /\ command.name \in Readers \cup {"echo"} =>
        \A p \in Files(fs) :
            \/ fs'[p] = fs[p]
            \/ /\ p = command.stdout
               /\ phase = "redirect"
               /\ ~command.append /\ command.name = "cat" /\ command.operands = <<p>> =>
                      fs'[p].content = fs[p].content ]_allVars

\* A line that is executed comes to its end, with a result or an exception.
ExecEnds == phase # "idle" ~> phase = "idle"
=============================================================================
