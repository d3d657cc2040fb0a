----------------------------- MODULE ToolRunProofs -----------------------------
(***************************************************************************)
(* Proofs about ToolRun, for any number of calls, writes and processes: its *)
(* types and what a tool's result says.  The invariant adds what is known   *)
(* of the shell in each phase of Run: a killed shell was killed because the *)
(* context was done, and no shell has ended without an exit status.         *)
(***************************************************************************)
EXTENDS ToolRun, TLAPS

\* The phases of Run: before the fork, until the shell is reaped, until the pipe ends.
PhaseInv ==
  /\ pc # "next" => calls # <<>>
  /\ pc = "reading" => Call = "read_file"
  /\ pc = "fork" => shell = "none" /\ exit = "none" /\ ~killed /\ wrote = 0 /\ got = 0
  /\ pc = "wait" => shell \in {"running", "exited"}
  /\ pc = "drain" => shell = "reaped"
  /\ pc \in {"wait", "drain"} =>
       /\ killed => ctx # "live"
       /\ shell # "running" => exit # "none"

ToolInv == TypeOK /\ PhaseInv /\ NobodyHoldsOutput /\ OutputIsWhole /\ VerdictFits

Codes == {"none", "zero", "nonzero", "signal"}

Verdict == [tool : Kinds \cup {"none"}, told : Tellings, status : {"done", "error"},
            output : 0..OutputLimit, wrote : 0..MaxWrites, exit : Codes,
            killed : BOOLEAN, ctx : {"live", "canceled", "deadline"}]

LEMMA CutType ==
  ASSUME NEW n \in Nat
  PROVE Cut(n) \in 0..OutputLimit
BY ToolAssumption DEF Cut, ToolAssumption

LEMMA NoOutput == 0 \in 0..MaxWrites /\ 0 \in 0..0 /\ 0 \in 0..OutputLimit
BY ToolAssumption DEF ToolAssumption

LEMMA ToolInit == Init => ToolInv
<1>. SUFFICES ASSUME Init PROVE ToolInv
  OBVIOUS
<1>. USE ToolAssumption DEF Init, ToolAssumption
<1>1. calls \in Seq(Kinds)
  <2>1. PICK n \in 0..MaxCalls : calls \in [1..n -> Kinds]
    OBVIOUS
  <2>. QED
    BY <2>1
<1>2. last \in Verdict
  BY DEF NoResult, Verdict, Tellings, Codes
<1>3. wrote \in 0..MaxWrites /\ got \in 0..wrote
  BY NoOutput
<1>4. procs \in [Procs -> {"none", "holding", "detached"}]
  OBVIOUS
<1>5. TypeOK
  BY <1>1, <1>2, <1>3, <1>4 DEF TypeOK, Verdict, Codes
<1>. QED
  BY <1>5 DEF ToolInv, PhaseInv, NobodyHoldsOutput, Held, OutputIsWhole, VerdictFits, NoResult

\* A result that is given leaves nothing of the call behind.
LEMMA ReturnType ==
  ASSUME TypeOK, calls # <<>>, NEW err \in Errors \cup {"none"}, NEW output \in 0..OutputLimit,
         wrote' \in 0..MaxWrites, exit' \in Codes, killed' \in BOOLEAN, Return(err, output)
  PROVE /\ last' \in Verdict /\ last'.tool = Call /\ last'.output = output
        /\ last'.told = Tell(err, output)
        /\ last'.status = (IF err = "none" THEN "done" ELSE "error")
        /\ last'.wrote = wrote' /\ last'.exit = exit' /\ last'.killed = killed' /\ last'.ctx = ctx
        /\ calls' \in Seq(Kinds) /\ pc' = "next" /\ stored' = FALSE
<1>1. Call \in Kinds /\ Tail(calls) \in Seq(Kinds)
  BY DEF TypeOK, Call
<1>2. Tell(err, output) \in Tellings
  BY DEF Tell, Tellings
<1>. QED
  BY <1>1, <1>2 DEF Return, TypeOK, Verdict

-----------------------------------------------------------------------------
(* The agent's steps.                                                       *)

\* A call that ends without a command.
LEMMA PlainReturn ==
  ASSUME ToolInv, calls # <<>>, Call # "shell", pc \in {"next", "execute", "reading"},
         NEW err \in Errors \cup {"none"}, NEW size \in {0, 1},
         UNCHANGED <<ctx, stopped, runVars>>, Return(err, size)
  PROVE ToolInv'
<1>. TypeOK
  BY DEF ToolInv
<1>1. size \in 0..OutputLimit
  BY ToolAssumption DEF ToolAssumption
<1>2. UNCHANGED <<ctx, stopped, shell, exit, killed, procs, wrote, got>>
  BY DEF runVars
<1>3. /\ last' \in Verdict /\ last'.tool = Call
      /\ calls' \in Seq(Kinds) /\ pc' = "next" /\ stored' = FALSE
  <2>1. wrote' \in 0..MaxWrites /\ exit' \in Codes /\ killed' \in BOOLEAN
    BY <1>2 DEF TypeOK, Codes
  <2>. QED
    BY <1>1, <2>1, ReturnType
<1>4. TypeOK'
  BY <1>2, <1>3 DEF TypeOK, Verdict, Codes
<1>5. NobodyHoldsOutput'
  BY <1>2, <1>3 DEF ToolInv, NobodyHoldsOutput, Held
<1>6. PhaseInv'
  BY <1>3 DEF PhaseInv
<1>7. OutputIsWhole' /\ VerdictFits'
  BY <1>3 DEF OutputIsWhole, VerdictFits
<1>. QED
  BY <1>4, <1>5, <1>6, <1>7 DEF ToolInv

\* A command's result: all it wrote, and a verdict that fits how it ended.
LEMMA CommandReturn ==
  ASSUME ToolInv, calls # <<>>, ~Held', UNCHANGED <<ctx, stopped>>,
         shell' \in {"none", "reaped"}, exit' \in Codes, killed' \in BOOLEAN, procs' = procs,
         wrote' \in 0..MaxWrites, got' = wrote', killed' => ctx # "live",
         NEW failed \in BOOLEAN, failed /\ ctx = "deadline" => killed' \/ exit' # "zero",
         killed' => failed, Judge(failed, got')
  PROVE ToolInv'
<1>. TypeOK
  BY DEF ToolInv
<1>. DEFINE err == IF TimedOut(failed) THEN "timeout" ELSE "none"
<1>0. wrote' \in Nat /\ Return(err, Cut(got')) /\ got' \in 0..wrote'
  BY ToolAssumption DEF Judge, ToolAssumption
<1>1. err \in Errors \cup {"none"} /\ Cut(got') \in 0..OutputLimit
  BY <1>0, CutType DEF Errors
<1>. HIDE DEF err
<1>2. /\ last' \in Verdict /\ last'.output = Cut(got') /\ last'.told = Tell(err, Cut(got'))
      /\ last'.status = (IF err = "none" THEN "done" ELSE "error")
      /\ last'.wrote = wrote' /\ last'.exit = exit' /\ last'.killed = killed' /\ last'.ctx = ctx
      /\ calls' \in Seq(Kinds) /\ pc' = "next" /\ stored' = FALSE
  BY <1>0, <1>1, ReturnType
<1>4. TypeOK'
  BY <1>0, <1>2 DEF TypeOK, Verdict, Codes
<1>5. NobodyHoldsOutput' /\ PhaseInv'
  BY <1>2 DEF NobodyHoldsOutput, PhaseInv
<1>6. OutputIsWhole'
  BY <1>2 DEF OutputIsWhole, Cut
<1>7. VerdictFits'
  <2>1. err \in {"none", "timeout"}
        /\ (err = "timeout" => ctx = "deadline" /\ (killed' \/ exit' # "zero"))
        /\ (err = "none" /\ killed' => ctx = "canceled")
    BY DEF err, TimedOut, TypeOK
  <2>2. Cut(got') > 0 <=> wrote' > 0
    BY <1>0, ToolAssumption DEF Cut, ToolAssumption
  <2>3. wrote' > 0 <=> wrote' # 0
    BY <1>0
  <2>4. /\ last'.told = "timeout" <=> err = "timeout" /\ wrote' = 0
        /\ last'.told = "output" <=> wrote' > 0
    BY <1>2, <2>1, <2>2, <2>3 DEF Tell
  <2>. QED
    BY <1>2, <2>1, <2>4 DEF VerdictFits
<1>. QED
  BY <1>4, <1>5, <1>6, <1>7 DEF ToolInv

LEMMA AgentStep ==
  ASSUME ToolInv, Agent \/ FileRead
  PROVE ToolInv'
<1>. TypeOK
  BY DEF ToolInv
<1>. USE DEF runVars
<1>0. pc # "next" => calls # <<>>
  BY DEF ToolInv, PhaseInv
<1>1. CASE BadArguments
  BY <1>1, PlainReturn DEF BadArguments, Errors
<1>2. CASE StoreCancel
  BY <1>2 DEF StoreCancel, ToolInv, TypeOK, PhaseInv, NobodyHoldsOutput, Held,
     OutputIsWhole, VerdictFits, Cut
<1>3. CASE Refuse
  BY <1>0, <1>3, PlainReturn DEF Refuse, Errors
<1>4. CASE OpenFile
  <2>1. CASE ctx = "live"
    BY <1>4, <2>1 DEF OpenFile, ToolInv, TypeOK, PhaseInv, NobodyHoldsOutput, Held,
       OutputIsWhole, VerdictFits, Cut, Call
  <2>2. CASE ctx # "live"
    BY <1>0, <1>4, <2>2, PlainReturn DEF OpenFile, Errors
  <2>. QED
    BY <2>1, <2>2
<1>5. CASE FileRead
  <2>1. PICK err \in {"none", "unreadable"}, size \in {0, 1} : Return(err, size)
    BY <1>5 DEF FileRead
  <2>2. calls # <<>> /\ Call # "shell" /\ pc = "reading" /\ UNCHANGED <<ctx, stopped, runVars>>
    BY <1>0, <1>5 DEF FileRead, ToolInv, PhaseInv
  <2>. QED
    BY <2>1, <2>2, PlainReturn DEF Errors
<1>6. CASE StartRefused
  <2>1. /\ shell' = "none" /\ exit' = "none" /\ killed' = FALSE /\ wrote' = 0 /\ got' = 0
        /\ UNCHANGED <<ctx, stopped, procs>> /\ pc = "execute" /\ Judge(TRUE, 0)
    BY <1>6 DEF StartRefused
  <2>2. wrote' \in 0..MaxWrites /\ Judge(TRUE, got')
    BY <2>1, NoOutput
  <2>3. ~Held'
    BY <2>1 DEF ToolInv, NobodyHoldsOutput, Held
  <2>4. calls # <<>>
    BY <1>0, <2>1
  <2>. QED
    BY <2>1, <2>2, <2>3, <2>4, CommandReturn DEF Codes
<1>7. CASE CheckContext
  <2>1. /\ pc' = "fork" /\ shell' = "none" /\ procs' = procs /\ pc = "execute"
        /\ wrote' = 0 /\ got' = 0 /\ exit' = "none" /\ killed' = FALSE
        /\ UNCHANGED <<calls, ctx, stored, stopped, last>>
    BY <1>7 DEF CheckContext
  <2>2. TypeOK'
    <3>1. wrote' \in 0..MaxWrites /\ got' \in 0..wrote'
      BY <2>1, NoOutput
    <3>. QED
      BY <2>1, <3>1 DEF TypeOK
  <2>3. PhaseInv' /\ NobodyHoldsOutput'
    BY <2>1 DEF ToolInv, PhaseInv, NobodyHoldsOutput, Held
  <2>. QED
    BY <2>1, <2>2, <2>3 DEF ToolInv, OutputIsWhole, VerdictFits, Cut
<1>8. CASE Fork
  <2>1. CASE shell' = "running" /\ pc' = "wait" /\ UNCHANGED <<calls, stored, last>>
    <3>1. TypeOK'
      BY <1>8, <2>1 DEF Fork, TypeOK
    <3>2. PhaseInv' /\ NobodyHoldsOutput'
      BY <1>8, <2>1 DEF Fork, ToolInv, PhaseInv, NobodyHoldsOutput
    <3>. QED
      BY <2>1, <3>1, <3>2 DEF ToolInv, OutputIsWhole, VerdictFits, Cut
  <2>2. CASE Judge(TRUE, 0) /\ UNCHANGED shell
    <3>1. /\ pc = "fork" /\ got = 0 /\ wrote = 0 /\ ~Held /\ exit = "none" /\ ~killed
          /\ shell = "none"
      BY <1>8 DEF Fork, ToolInv, PhaseInv, NobodyHoldsOutput
    <3>2. UNCHANGED <<ctx, stopped, shell, exit, killed, procs, wrote, got>>
      BY <1>8, <2>2 DEF Fork
    <3>3. ~Held' /\ wrote' \in 0..MaxWrites /\ Judge(TRUE, got') /\ calls # <<>>
      BY <1>0, <2>2, <3>1, <3>2, NoOutput DEF Held
    <3>4. /\ UNCHANGED <<ctx, stopped>> /\ procs' = procs /\ got' = wrote'
          /\ shell' \in {"none", "reaped"} /\ exit' \in Codes /\ exit' # "zero"
          /\ killed' \in BOOLEAN /\ ~killed'
      BY <3>1, <3>2 DEF TypeOK, Codes
    <3>. QED
      BY <3>3, <3>4, CommandReturn
  <2>. QED
    BY <1>8, <2>1, <2>2 DEF Fork
<1>9. CASE Reap
  BY <1>9 DEF Reap, ToolInv, TypeOK, PhaseInv, NobodyHoldsOutput, OutputIsWhole,
     VerdictFits, Cut
<1>10. CASE Drain
  <2>1. pc = "drain" /\ got = wrote /\ ~Held /\ UNCHANGED <<ctx, stopped, runVars>>
        /\ Judge(killed \/ exit # "zero", got)
    BY <1>10 DEF Drain
  <2>2. UNCHANGED <<ctx, stopped, shell, exit, killed, procs, wrote, got>>
    BY <2>1
  <2>. DEFINE failed == killed \/ exit # "zero"
  <2>3. failed \in BOOLEAN /\ (killed' => failed) /\ (failed => killed' \/ exit' # "zero")
    BY <2>2
  <2>. HIDE DEF failed
  <2>4. Judge(failed, got') /\ ~Held' /\ got' = wrote'
    BY <2>1, <2>2 DEF failed, Held
  <2>5. /\ shell' = "reaped" /\ exit' \in Codes /\ killed' \in BOOLEAN
        /\ wrote' \in 0..MaxWrites /\ (killed' => ctx # "live")
    BY <2>1, <2>2 DEF ToolInv, PhaseInv, TypeOK, Codes
  <2>6. calls # <<>>
    BY <1>0, <2>1
  <2>. QED
    BY <2>2, <2>3, <2>4, <2>5, <2>6, CommandReturn
<1>. QED
  BY <1>1, <1>2, <1>3, <1>4, <1>5, <1>6, <1>7, <1>8, <1>9, <1>10 DEF Agent

-----------------------------------------------------------------------------
(* The other goroutines and the command.                                    *)

LEMMA RunStep ==
  ASSUME ToolInv, CopyOutput \/ Kill \/ Expire \/ Interrupt \/ Stop \/ Command
  PROVE ToolInv'
<1>. TypeOK
  BY DEF ToolInv
<1>. USE DEF ToolInv, runVars, Call
<1>1. CASE CopyOutput
  <2>1. TypeOK'
    BY <1>1, ToolAssumption DEF CopyOutput, TypeOK, ToolAssumption
  <2>. QED
    BY <1>1, <2>1 DEF CopyOutput, PhaseInv, NobodyHoldsOutput, Held, OutputIsWhole,
       VerdictFits, Cut
<1>2. CASE Kill
  BY <1>2 DEF Kill, SendKill, TypeOK, PhaseInv, NobodyHoldsOutput, Held, OutputIsWhole,
     VerdictFits, Cut
<1>3. CASE Expire \/ Interrupt \/ Stop
  <2>1. /\ ctx' \in {"live", "canceled", "deadline"} /\ stopped' \in BOOLEAN
        /\ UNCHANGED <<calls, pc, stored, shell, exit, killed, procs, wrote, got, last>>
    BY <1>3 DEF Expire, Interrupt, Stop, TypeOK
  <2>0. TypeOK'
    BY <2>1 DEF TypeOK
  <2>2. PhaseInv'
    BY <1>3 DEF Expire, Interrupt, Stop, PhaseInv
  <2>3. NobodyHoldsOutput' /\ OutputIsWhole' /\ VerdictFits'
    BY <2>1 DEF NobodyHoldsOutput, Held, OutputIsWhole, VerdictFits, Cut
  <2>. QED
    BY <2>0, <2>2, <2>3
<1>4. ASSUME NEW code \in {"zero", "nonzero"}, ShellExits(code) PROVE ToolInv'
  BY <1>4 DEF ShellExits, TypeOK, PhaseInv, NobodyHoldsOutput, Held, OutputIsWhole,
     VerdictFits, Cut
<1>5. ASSUME NEW p \in Procs, Spawn(p) \/ Detach(p) \/ ProcEnds(p) PROVE ToolInv'
  <2>1. TypeOK'
    BY <1>5 DEF Spawn, Detach, ProcEnds, TypeOK
  <2>2. NobodyHoldsOutput'
    BY <1>5 DEF Spawn, Detach, ProcEnds, NobodyHoldsOutput, Held, TypeOK
  <2>3. PhaseInv' /\ OutputIsWhole' /\ VerdictFits'
    BY <1>5 DEF Spawn, Detach, ProcEnds, PhaseInv, OutputIsWhole, VerdictFits, Cut
  <2>. QED
    BY <2>1, <2>2, <2>3
<1>6. CASE Write
  <2>1. TypeOK'
    <3>1. wrote' \in 0..MaxWrites /\ got' \in 0..wrote'
      BY <1>6, ToolAssumption DEF Write, TypeOK, ToolAssumption
    <3>. QED
      BY <1>6, <3>1 DEF Write, TypeOK
  <2>2. pc \notin {"next", "execute", "reading", "fork"}
    BY <1>6 DEF Write, NobodyHoldsOutput
  <2>3. PhaseInv' /\ NobodyHoldsOutput'
    BY <1>6, <2>2 DEF Write, PhaseInv, NobodyHoldsOutput
  <2>. QED
    BY <1>6, <2>1, <2>3 DEF Write, OutputIsWhole, VerdictFits, Cut
<1>. QED
  BY <1>1, <1>2, <1>3, <1>4, <1>5, <1>6, Zenon DEF Command

-----------------------------------------------------------------------------
LEMMA ToolStep == ToolInv /\ [Next]_vars => ToolInv'
<1>. SUFFICES ASSUME ToolInv, [Next]_vars PROVE ToolInv'
  OBVIOUS
<1>1. CASE Agent \/ FileRead
  BY <1>1, AgentStep
<1>2. CASE CopyOutput \/ Kill \/ Expire \/ Interrupt \/ Stop \/ Command
  BY <1>2, RunStep
<1>3. CASE UNCHANGED vars
  BY <1>3 DEF vars, ToolInv, TypeOK, PhaseInv, Call, NobodyHoldsOutput, Held, OutputIsWhole,
     VerdictFits, Cut
<1>. QED
  BY <1>1, <1>2, <1>3 DEF Next

LEMMA ToolSafe == Spec => []ToolInv
BY ToolInit, ToolStep, PTL DEF Spec

\* The variables of executeTool (agent.go:357-420) and of the shell tool (shell.go:41-75)
\* keep their types, whatever the commands do: in particular no more than the limit of an
\* output is kept, and no more is copied than was written.
THEOREM ToolTypes == Spec => []TypeOK
<1>1. ToolInv => TypeOK
  BY DEF ToolInv
<1>. QED
  BY <1>1, ToolSafe, PTL

\* The LLM is told all that a command wrote, up to the limit (shell.go:54-74).
THEOREM OutputsAreWhole == Spec => []OutputIsWhole
<1>1. ToolInv => OutputIsWhole
  BY DEF ToolInv
<1>. QED
  BY <1>1, ToolSafe, PTL

\* When a tool has returned nothing writes to its output any more: Run (shell.go:58) waits
\* for every process that holds it, and the next command of the reply has its own.
THEOREM OutputIsReleased == Spec => []NobodyHoldsOutput
<1>1. ToolInv => NobodyHoldsOutput
  BY DEF ToolInv
<1>. QED
  BY <1>1, ToolSafe, PTL

\* The verdict that is read off the context after the wait (shell.go:66-72) fits what ended
\* the command, although the deadline may pass at any time before Run returns.
THEOREM VerdictsFit == Spec => []VerdictFits
<1>1. ToolInv => VerdictFits
  BY DEF ToolInv
<1>. QED
  BY <1>1, ToolSafe, PTL
=============================================================================
