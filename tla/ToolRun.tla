-------------------------------- MODULE ToolRun --------------------------------
(***************************************************************************)
(* The tools of one reply, run one after the other: executeTool             *)
(* (internal/agent/agent.go), the registry and both tools (internal/tools), *)
(* and under the shell tool, as far as it decides the result, os/exec: the  *)
(* shell and what it starts share one pipe, a goroutine copies the pipe     *)
(* into outBuf until its last writer is gone, and another kills the shell,  *)
(* and only the shell, when the context is done.                            *)
(*                                                                         *)
(* The commands are the environment: a shell may write, start processes and *)
(* never end; a process it started may outlive it and may close the output  *)
(* ("cmd > file &").  A file may be one whose reading never ends.           *)
(***************************************************************************)
EXTENDS Naturals, Sequences

CONSTANTS
  Procs,        \* the processes other than the shell that can run at a time
  OutputLimit,  \* what is kept of an output (10 KB in the code), in writes
  MaxCalls,     \* bound: tool calls in the reply
  MaxWrites     \* bound: writes of one command

ASSUME ToolAssumption ==
  OutputLimit \in Nat \ {0} /\ MaxCalls \in Nat /\ MaxWrites \in Nat

VARIABLES
  calls,    \* the tool calls still to execute
  pc,       \* where the agent's goroutine is
  ctx,      \* the current tool's context: "live", or the first cause of its end
  stored,   \* currentCancel is the current tool's
  stopped,  \* the agent's context is cancelled
  shell,    \* the shell process: "none", "running", "exited" (a zombie) or "reaped"
  exit,     \* how it ended: "zero", "nonzero" or "signal"; "none" if it did not
  killed,   \* exec has killed it, as exec sees it
  procs,    \* the other processes: "none", "holding" the output, or "detached"
  wrote,    \* writes into the pipe
  got,      \* writes copied into outBuf
  last      \* what the LLM and the clients are told of the last tool, and why

runVars == <<shell, exit, killed, procs, wrote, got>>
vars == <<calls, pc, ctx, stored, stopped, shell, exit, killed, procs, wrote, got, last>>

\* What a tool call turns out to be: arguments that do not parse, a name the registry
\* does not have, a required argument that is missing, or a tool that runs.
Kinds == {"garbled", "unknown", "incomplete", "read_file", "shell"}

\* The errors of a tool, as far as they differ in what they say.
Errors == {"arguments", "refused", "canceled", "unreadable", "timeout"}

\* The string the LLM is given: the output, "(no output)", or an error's text.
Tellings == {"output", "nothing"} \cup Errors

NoResult == [tool |-> "none", told |-> "nothing", status |-> "done", output |-> 0, wrote |-> 0,
             exit |-> "none", killed |-> FALSE, ctx |-> "live"]

Init ==
  /\ calls \in UNION {[1..n -> Kinds] : n \in 0..MaxCalls}
  /\ pc = "next" /\ ctx = "live" /\ stored = FALSE /\ stopped = FALSE
  /\ shell = "none" /\ exit = "none" /\ killed = FALSE
  /\ procs = [p \in Procs |-> "none"]
  /\ wrote = 0 /\ got = 0
  /\ last = NoResult

-----------------------------------------------------------------------------
(* executeTool.                                                             *)

Call == Head(calls)

\* The LLM is given the error's text only if there is no output beside it.
Tell(err, output) == IF output > 0 THEN "output" ELSE IF err # "none" THEN err ELSE "nothing"

\* The clients are told the status, the LLM the result; the call's context is released.
Return(err, output) ==
  /\ last' = [tool |-> Call, told |-> Tell(err, output),
              status |-> IF err = "none" THEN "done" ELSE "error", output |-> output,
              wrote |-> wrote', exit |-> exit', killed |-> killed', ctx |-> ctx]
  /\ calls' = Tail(calls)
  /\ pc' = "next" /\ stored' = FALSE

BadArguments ==
  /\ pc = "next" /\ calls # <<>> /\ Call = "garbled"
  /\ UNCHANGED <<ctx, stopped, runVars>>
  /\ Return("arguments", 0)

\* An interrupt that comes before this step cancels the call before, which is over.
StoreCancel ==
  /\ pc = "next" /\ calls # <<>> /\ Call # "garbled"
  /\ ctx' = IF stopped THEN "canceled" ELSE "live"
  /\ stored' = TRUE
  /\ pc' = "execute"
  /\ UNCHANGED <<calls, stopped, runVars, last>>

\* Registry.Execute knows no such tool, or the tool lacks an argument.
Refuse ==
  /\ pc = "execute" /\ Call \in {"unknown", "incomplete"}
  /\ UNCHANGED <<ctx, stopped, runVars>>
  /\ Return("refused", 0)

-----------------------------------------------------------------------------
(* ReadFileTool.Execute: the context is looked at once, before the file.    *)

OpenFile ==
  /\ pc = "execute" /\ Call = "read_file"
  /\ UNCHANGED <<ctx, stopped, runVars>>
  /\ IF ctx = "live" THEN pc' = "reading" /\ UNCHANGED <<calls, stored, last>>
                     ELSE Return("canceled", 0)

\* The file's contents, which may be empty, or an error.
FileRead ==
  /\ pc = "reading"
  /\ UNCHANGED <<ctx, stopped, runVars>>
  /\ Return("unreadable", 0) \/ \E size \in {0, 1} : Return("none", size)

-----------------------------------------------------------------------------
(* ShellTool.Execute.                                                       *)

\* Mutant: the whole output is kept.
Whole(n) == n

Cut(n) == IF n > OutputLimit THEN OutputLimit ELSE n

\* Mutant: the tool asks the context it was given, which has no deadline.
TimedOutAsGiven(failed) == failed /\ ctx = "none"

TimedOut(failed) == failed /\ ctx = "deadline"

\* What Execute makes of Run's error and its context, at the time Run returns: any
\* other failure than the deadline's is no error of the tool.
Judge(failed, output) ==
  Return(IF TimedOut(failed) THEN "timeout" ELSE "none", Cut(output))

\* Start looks at the context first; then Run fails, and nothing was run.
StartRefused ==
  /\ pc = "execute" /\ Call = "shell" /\ ctx # "live"
  /\ shell' = "none" /\ exit' = "none" /\ killed' = FALSE /\ wrote' = 0 /\ got' = 0
  /\ UNCHANGED <<ctx, stopped, procs>>
  /\ Judge(TRUE, 0)

CheckContext ==
  /\ pc = "execute" /\ Call = "shell" /\ ctx = "live"
  /\ pc' = "fork"
  /\ shell' = "none" /\ exit' = "none" /\ killed' = FALSE /\ wrote' = 0 /\ got' = 0
  /\ UNCHANGED <<calls, ctx, stored, stopped, procs, last>>

\* The process is started, or cannot be (no process left): the tool is then "done".
Fork ==
  /\ pc = "fork"
  /\ UNCHANGED <<ctx, stopped, exit, killed, procs, wrote, got>>
  /\ \/ shell' = "running" /\ pc' = "wait" /\ UNCHANGED <<calls, stored, last>>
     \/ Judge(TRUE, 0) /\ UNCHANGED shell

\* Process.Wait returns; the goroutine that watches the context is done.
Reap ==
  /\ pc = "wait" /\ shell = "exited"
  /\ shell' = "reaped"
  /\ pc' = "drain"
  /\ UNCHANGED <<calls, ctx, stored, stopped, exit, killed, procs, wrote, got, last>>

Held == shell = "running" \/ \E p \in Procs : procs[p] = "holding"

\* Mutant: Run does not wait for the end of the output.
DrainEarly ==
  /\ pc = "drain"
  /\ UNCHANGED <<ctx, stopped, runVars>>
  /\ Judge(killed \/ exit # "zero", got)

\* The copying goroutine has read to the end of the pipe: there is no WaitDelay.
Drain ==
  /\ pc = "drain" /\ got = wrote /\ ~Held
  /\ UNCHANGED <<ctx, stopped, runVars>>
  /\ Judge(killed \/ exit # "zero", got)

CopyOutput ==
  /\ got < wrote /\ pc \in {"wait", "drain"}
  /\ got' = got + 1
  /\ UNCHANGED <<calls, pc, ctx, stored, stopped, shell, exit, killed, procs, wrote, last>>

\* The shell is killed.  A zombie takes the signal too, and counts as killed.
SendKill ==
  /\ pc = "wait" /\ ~killed /\ shell \in {"running", "exited"}
  /\ killed' = TRUE
  /\ shell' = "exited"
  /\ exit' = IF shell = "running" THEN "signal" ELSE exit
  /\ UNCHANGED <<calls, pc, ctx, stored, stopped, procs, wrote, got, last>>

Kill == ctx # "live" /\ SendKill

-----------------------------------------------------------------------------
(* The context of the current tool ends once, by its first cause.           *)

\* Mutant: the command is given the caller's context, which has no deadline.
NeverExpires == FALSE /\ UNCHANGED vars

\* 60 seconds after the shell tool was entered.
Expire ==
  /\ pc \in {"fork", "wait", "drain"} /\ ctx = "live"
  /\ ctx' = "deadline"
  /\ UNCHANGED <<calls, pc, stored, stopped, runVars, last>>

\* Agent.Interrupt calls currentCancel.
Interrupt ==
  /\ stored /\ ctx = "live"
  /\ ctx' = "canceled"
  /\ UNCHANGED <<calls, pc, stored, stopped, runVars, last>>

\* Agent.Stop: the tools still to come run under a context that is done.
Stop ==
  /\ ~stopped /\ stopped' = TRUE
  /\ ctx' = IF stored /\ ctx = "live" THEN "canceled" ELSE ctx
  /\ UNCHANGED <<calls, pc, stored, runVars, last>>

-----------------------------------------------------------------------------
(* The command.                                                             *)

ShellExits(code) ==
  /\ shell = "running"
  /\ shell' = "exited" /\ exit' = code
  /\ UNCHANGED <<calls, pc, ctx, stored, stopped, killed, procs, wrote, got, last>>

\* A process inherits the output of the one that starts it.
Spawn(p) ==
  /\ Held /\ procs[p] = "none"
  /\ procs' = [procs EXCEPT ![p] = "holding"]
  /\ UNCHANGED <<calls, pc, ctx, stored, stopped, shell, exit, killed, wrote, got, last>>

Detach(p) ==
  /\ procs[p] = "holding"
  /\ procs' = [procs EXCEPT ![p] = "detached"]
  /\ UNCHANGED <<calls, pc, ctx, stored, stopped, shell, exit, killed, wrote, got, last>>

ProcEnds(p) ==
  /\ procs[p] # "none"
  /\ procs' = [procs EXCEPT ![p] = "none"]
  /\ UNCHANGED <<calls, pc, ctx, stored, stopped, shell, exit, killed, wrote, got, last>>

Write ==
  /\ Held /\ wrote < MaxWrites
  /\ wrote' = wrote + 1
  /\ UNCHANGED <<calls, pc, ctx, stored, stopped, shell, exit, killed, procs, got, last>>

-----------------------------------------------------------------------------
Agent == BadArguments \/ StoreCancel \/ Refuse \/ OpenFile \/ StartRefused \/ CheckContext
         \/ Fork \/ Reap \/ Drain

Command == \/ \E code \in {"zero", "nonzero"} : ShellExits(code)
           \/ \E p \in Procs : Spawn(p) \/ Detach(p) \/ ProcEnds(p)
           \/ Write

Next == Agent \/ FileRead \/ CopyOutput \/ Kill \/ Expire \/ Interrupt \/ Stop \/ Command

Spec == Init /\ [][Next]_vars

\* The Go runtime schedules its goroutines and its timers.
FairSpec == Spec /\ WF_vars(Agent) /\ WF_vars(CopyOutput) /\ WF_vars(Kill) /\ WF_vars(Expire)

-----------------------------------------------------------------------------
TypeOK ==
  /\ calls \in Seq(Kinds)
  /\ pc \in {"next", "execute", "reading", "fork", "wait", "drain"}
  /\ ctx \in {"live", "canceled", "deadline"}
  /\ stored \in BOOLEAN /\ stopped \in BOOLEAN
  /\ shell \in {"none", "running", "exited", "reaped"}
  /\ exit \in {"none", "zero", "nonzero", "signal"} /\ killed \in BOOLEAN
  /\ procs \in [Procs -> {"none", "holding", "detached"}]
  /\ wrote \in 0..MaxWrites /\ got \in 0..wrote
  /\ last \in [tool : Kinds \cup {"none"}, told : Tellings, status : {"done", "error"},
               output : 0..OutputLimit, wrote : 0..MaxWrites,
               exit : {"none", "zero", "nonzero", "signal"}, killed : BOOLEAN,
               ctx : {"live", "canceled", "deadline"}]

\* The LLM is told all that a command wrote, up to the limit, by whatever process and
\* in whatever order: also when the shell was killed or has left processes behind.
OutputIsWhole ==
  last.tool = "shell" => last.output = Cut(last.wrote)

\* The tools of a reply do not overlap on the output: when a tool has returned, no
\* process it started writes to it any more, even one that the kill did not reach.
NobodyHoldsOutput ==
  pc \in {"next", "execute", "reading", "fork"} => ~Held

\* What is said of a command, judged after the wait, fits what happened during it,
\* although the deadline may pass or a user interrupt at any time before Run returns.
\* The clients are told of an error only if the deadline has passed and the command
\* did not succeed, and a killed command is told as done only if it was canceled
\* first.  The LLM is told less: it reads of the timeout exactly if the command had
\* written nothing, and one killed after it wrote reads as if it had ended by itself.
VerdictFits ==
  last.tool = "shell" =>
    /\ last.status = "error" => last.ctx = "deadline" /\ (last.killed \/ last.exit # "zero")
    /\ last.status = "done" /\ last.killed => last.ctx = "canceled"
    /\ last.told = "timeout" <=> last.status = "error" /\ last.wrote = 0
    /\ last.told = "output" <=> last.wrote > 0

-----------------------------------------------------------------------------
\* What a tool waits for beside the runtime: the processes that hold its output are gone
\* at some time, and the file can be read.
OutputReleased == []<>(\A p \in Procs : procs[p] # "holding")
FilesRead == WF_vars(FileRead)

\* Every tool of a reply returns: a shell that never ends by itself is killed at its
\* deadline, and Run returns unless something the shell has started keeps the output
\* for ever, or a file is read that has no end.
ToolReturns == OutputReleased /\ FilesRead => (pc # "next" ~> pc = "next")
=============================================================================
