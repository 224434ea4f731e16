-------------------------- MODULE ShellIntegration --------------------------
(***************************************************************************)
(* The shell integration of one session (packages/shell-integration): the  *)
(* hooks that the generated startup scripts install in the shell, the      *)
(* markers they write into its output, and the tracker that reads them and *)
(* reports the state of the shell's commands.                              *)
(*                                                                         *)
(* The shell is what its user does with it: lines with and without a       *)
(* command, commands that end.  The markers of one hook are written        *)
(* together and arrive one by one, between the programs' output.           *)
(***************************************************************************)
EXTENDS Integers, Sequences, SequencesExt

CONSTANTS Shells,       \* of "bash", "zsh", "fish", "powershell"
          ExitCodes, Directories,
          MaxLines,     \* bound: lines that the user enters
          NoId          \* an empty command id, or no exit code

VARIABLES
    shell,      \* its kind, what it does, the directory it is in, and the
                \* variables of its script; history: the announced commands it has run
    channel,    \* the markers that are on their way
    tracker     \* integration status, capabilities, command, cwd

vars == <<shell, channel, tracker>>

Phases == {"starting", "ready", "prompt", "running", "exited", "closed"}

-----------------------------------------------------------------------------
\* Markers.

Ready(capabilities) == [event |-> "ready", capabilities |-> capabilities]
Prompt(cwd) == [event |-> "prompt", cwd |-> cwd]
CommandStart(id) == [event |-> "command-start", id |-> id]
CommandFinish(id, exitCode) == [event |-> "command-finish", id |-> id, exitCode |-> exitCode]
\* A marker with the nonce and a payload that is too long, or that must not be empty.
Invalid == [event |-> "invalid"]
\* A marker of an integration in a nested or remote shell.
Foreign == [event |-> "foreign"]

Full == {"prompt", "commandStart", "commandFinish", "commandLine", "exitCode", "cwd"}
Lifecycle == {"prompt", "commandStart", "commandFinish"}
PromptOnly == {"prompt", "cwd"}

-----------------------------------------------------------------------------
\* The scripts.  encodes: the shell has base64, or the handler of PSReadLine is
\* installed and a key is bound to it.

EncodedPrompt(sh) == IF sh.encodes \/ sh.kind = "powershell" THEN Prompt(sh.cwd) ELSE Invalid
EncodedFinish(sh, exitCode) ==
    CommandFinish(sh.activeId, IF sh.encodes \/ sh.kind = "powershell" THEN exitCode ELSE NoId)

Finishing(sh, exitCode) == IF sh.activeId = NoId THEN <<>> ELSE <<EncodedFinish(sh, exitCode)>>

\* What a shell writes before a prompt: bash, where the DEBUG trap runs before
\* __pct_prompt too, and takes it for a command when no other is active.
BashPrompt(sh, exitCode) ==
    LET traced == IF sh.activeId # NoId THEN sh ELSE [sh EXCEPT !.activeId = sh.sequence + 1]
    IN (IF sh.activeId # NoId THEN <<>> ELSE <<CommandStart(traced.activeId)>>)
       \o Finishing(traced, exitCode) \o <<EncodedPrompt(sh)>>

\* zsh: precmd; fish: postexec, then prompt.
HookPrompt(sh, exitCode) == Finishing(sh, exitCode) \o <<EncodedPrompt(sh)>>

\* PowerShell: the validation is installed again, and what it can do told again.
PowershellPrompt(sh, exitCode, installed) ==
    Finishing(sh, exitCode)
        \o <<Ready(IF installed THEN Full ELSE PromptOnly), EncodedPrompt(sh)>>

\* The prompt is shown after the status exitCode.
Prompted(sh, exitCode) ==
    \E installed \in IF sh.kind = "powershell" THEN BOOLEAN ELSE {sh.encodes} :
        /\ channel' = channel \o
               CASE sh.kind = "bash" -> BashPrompt(sh, exitCode)
                 [] sh.kind = "powershell" -> PowershellPrompt(sh, exitCode, installed)
                 [] OTHER -> HookPrompt(sh, exitCode)
        /\ shell' = [sh EXCEPT !.phase = "prompt", !.activeId = NoId, !.encodes = installed,
                               !.sequence = IF sh.kind = "bash" /\ sh.activeId = NoId THEN @ + 1 ELSE @]

\* The startup file has run, and the first prompt comes.
ShellStarted ==
    /\ shell.phase = "starting"
    /\ \E encodes \in BOOLEAN :
           /\ channel' = <<Ready(IF encodes THEN Full
                                 ELSE IF shell.kind = "powershell" THEN PromptOnly ELSE Lifecycle)>>
           /\ shell' = [shell EXCEPT !.phase = "ready", !.encodes = encodes]
    /\ UNCHANGED tracker

FirstPrompt ==
    /\ shell.phase = "ready"
    /\ \E status \in ExitCodes : Prompted(shell, status)
    /\ UNCHANGED tracker

\* A line with a command: the hook announces it, by a marker that is too long for
\* some lines.  PSReadLine validates every command of a line, if it validates any.
CommandEntered ==
    /\ shell.phase = "prompt" /\ shell.lines < MaxLines
    /\ \E starts \in IF shell.kind # "powershell" THEN {1} ELSE IF shell.encodes THEN {1, 2} ELSE {0} :
           LET last == shell.sequence + starts
           IN /\ shell' = [shell EXCEPT !.phase = "running", !.lines = @ + 1, !.sequence = last,
                                        !.activeId = IF starts = 0 THEN NoId ELSE last]
              /\ \E long \in SUBSET (1..starts) :
                     channel' = channel \o
                         [i \in 1..starts |-> IF i \in long THEN Invalid
                                             ELSE CommandStart(shell.sequence + i)]
    /\ UNCHANGED tracker

\* An empty line, a comment, an interrupted line.
LineWithoutCommand ==
    /\ shell.phase = "prompt" /\ shell.lines < MaxLines
    /\ \E status \in ExitCodes : Prompted([shell EXCEPT !.lines = @ + 1], status)
    /\ UNCHANGED tracker

CommandEnded ==
    /\ shell.phase = "running"
    /\ \E exitCode \in ExitCodes, cwd \in Directories :
           Prompted([shell EXCEPT !.cwd = cwd,
                                  !.history = @ \o Finishing(shell, exitCode)], exitCode)
    /\ UNCHANGED tracker

\* The command is itself a shell with an integration, here or far away.
NestedMarker ==
    /\ shell.phase = "running" /\ shell.lines < MaxLines
    /\ channel' = Append(channel, Foreign)
    /\ shell' = [shell EXCEPT !.lines = @ + 1]
    /\ UNCHANGED tracker

ShellExited ==
    /\ shell.phase \notin {"exited", "closed"}
    /\ shell' = [shell EXCEPT !.phase = "exited"]
    /\ UNCHANGED <<channel, tracker>>

-----------------------------------------------------------------------------
\* The tracker.

Unknown == [state |-> "unknown"]
Running(id) == [state |-> "running", id |-> id]
IdleAfter(last) == [state |-> "idle", last |-> last]

Degraded(t) == [t EXCEPT !.status = "degraded", !.capabilities = {}, !.command = Unknown]

AcceptReady(t, marker) ==
    IF marker.capabilities = Full
    THEN [t EXCEPT !.status = "available", !.capabilities = Full]
    ELSE [t EXCEPT !.status = "degraded", !.capabilities = marker.capabilities, !.command = Unknown]

\* Mutant of AcceptPrompt: the latest command is forgotten.
AcceptPromptForgetting(t, marker) ==
    LET moved == IF "cwd" \in t.capabilities THEN [t EXCEPT !.cwd = marker.cwd] ELSE t
    IN CASE t.status \in {"unavailable", "initializing"} -> t
         [] t.status = "degraded" -> moved
         [] t.status = "available" /\ t.command.state = "running" -> Degraded(moved)
         [] OTHER -> [moved EXCEPT !.command = IdleAfter(<<>>)]

AcceptPrompt(t, marker) ==
    LET moved == IF "cwd" \in t.capabilities THEN [t EXCEPT !.cwd = marker.cwd] ELSE t
    IN CASE t.status \in {"unavailable", "initializing"} -> t
         [] t.status = "degraded" -> moved
         [] t.status = "available" /\ t.command.state = "running" -> Degraded(moved)
         [] t.status = "available" /\ t.command.state = "unknown" -> [moved EXCEPT !.command = IdleAfter(<<>>)]
         [] OTHER -> moved

AcceptStart(t, marker) ==
    CASE t.status # "available" -> t
      [] t.status = "available" /\ t.command.state = "running" -> Degraded(t)
      [] OTHER -> [t EXCEPT !.command = Running(marker.id)]

AcceptFinish(t, marker) ==
    CASE t.status # "available" -> t
      [] t.status = "available" /\ t.command # Running(marker.id) -> Degraded(t)
      [] OTHER -> [t EXCEPT !.command = IdleAfter(<<marker>>)]

\* apply: what the tracker is after a marker.
Applied(t, marker) ==
    CASE marker.event = "ready" -> AcceptReady(t, marker)
      [] marker.event = "prompt" -> AcceptPrompt(t, marker)
      [] marker.event = "command-start" -> AcceptStart(t, marker)
      [] marker.event = "command-finish" -> AcceptFinish(t, marker)
      [] marker.event = "invalid" -> Degraded(t)
      [] marker.event = "foreign" -> t

\* acceptOsc
AcceptOsc ==
    /\ channel # <<>>
    /\ channel' = Tail(channel)
    /\ tracker' = Applied(tracker, Head(channel))
    /\ UNCHANGED shell

\* Ten seconds have passed.
InitializationTimedOut ==
    /\ tracker.status = "initializing" /\ shell.phase # "closed"
    /\ tracker' = Degraded(tracker)
    /\ UNCHANGED <<shell, channel>>

\* The exit comes after all output.
MarkShellExited ==
    /\ shell.phase = "exited" /\ channel = <<>>
    /\ shell' = [shell EXCEPT !.phase = "closed"]
    /\ tracker' = IF tracker.command.state = "running" THEN [tracker EXCEPT !.command = Unknown] ELSE tracker
    /\ UNCHANGED channel

-----------------------------------------------------------------------------
Init ==
    /\ \E kind \in Shells, cwd \in Directories :
           /\ shell = [kind |-> kind, phase |-> "starting", cwd |-> cwd, encodes |-> FALSE,
                       sequence |-> 0, activeId |-> NoId, history |-> <<>>, lines |-> 0]
           /\ tracker = [status |-> "initializing", capabilities |-> {}, command |-> Unknown, cwd |-> cwd]
    /\ channel = <<>>

Next ==
    \/ ShellStarted \/ FirstPrompt \/ CommandEntered \/ LineWithoutCommand \/ CommandEnded
    \/ NestedMarker \/ ShellExited
    \/ AcceptOsc \/ InitializationTimedOut \/ MarkShellExited

Spec == Init /\ [][Next]_vars

-----------------------------------------------------------------------------
\* Properties.

LatestCommand == IF shell.history = <<>> THEN <<>> ELSE <<Last(shell.history)>>

\* When every marker has arrived and the integration is available, what is reported is
\* what the shell does: the command that runs, or the prompt, the directory and the
\* latest command with its exit code, which only PowerShell forgets after a line that
\* could not be followed.  Otherwise nothing is claimed, nor that an exited shell runs
\* a command (tracker.ts).  Bash's latest command is LastCommandWasRun's.
ReportsShell ==
    /\ tracker.status # "available" => tracker.command = Unknown
    /\ shell.phase = "closed" => tracker.command.state # "running"
    /\ channel = <<>> /\ tracker.status = "available" =>
           /\ shell.phase = "running" => tracker.command = Running(shell.activeId)
           /\ shell.phase = "prompt" =>
                  /\ tracker.command.state = "idle" /\ tracker.cwd = shell.cwd
                  /\ shell.kind \in {"zsh", "fish"} => tracker.command.last = LatestCommand
                  /\ shell.kind = "powershell" => tracker.command.last \in {<<>>, LatestCommand}

\* A command that is reported as the last one was run, and ended with that exit code.
LastCommandWasRun ==
    tracker.command.state = "idle" =>
        \A last \in ToSet(tracker.command.last) : last \in ToSet(shell.history)

=============================================================================
