------------------------------ MODULE Execute ------------------------------
(***************************************************************************)
(* The control flow of a BASIC program: execute.c (the loop of             *)
(* execute_Execute_r, the call of a user function in execute_Evaluate and  *)
(* execute_ExecuteFunction) with commands/goto.c and commands/function.c.  *)
(*                                                                         *)
(* Values are left out: of an expression only the user functions that it   *)
(* calls remain, in order, and whether its evaluation then fails.  The     *)
(* recursion of Execute_r in C is the sequence stack.                      *)
(***************************************************************************)
EXTENDS Integers, Sequences, FiniteSets

CONSTANTS
  CommandArraySize,   \* the nodes of the program are 1 .. CommandArraySize
  Programs,           \* the programs to execute: what each node holds
  Leftover,           \* what the heap may have left in pEo->ErrorResume
  GlobalStepLimit,    \* maxstep, zero for no limit
  LocalStepLimit,     \* maxlocalstep, zero for no limit
  FunctionLevelLimit, \* maxlevel, zero for no limit
  MaxHostCalls        \* bound: calls of scriba_Call after the program ended

Node == 1 .. CommandArraySize
NodeId == 0 .. CommandArraySize   \* 0 is the null node

\* The commands of goto.c and function.c.  expr stands for every command that
\* evaluates an expression and goes on (LET, PRINT, CALL, ERROR n, ...), nop
\* for a command that evaluates none.
Op == {"nop", "expr", "function", "endfunc", "icall", "goto", "gosub",
       "return", "pop", "stop", "resume", "resumenext", "resumelabel",
       "onerrorgoto", "onerrorgotonull", "onerrorresumenext",
       "onerrorresumelabel"}

\* A call in an expression: the node of the function head (0 for a function that
\* the program does not define), and the calls that evaluating the actual
\* arguments makes.
Flat == [fun : NodeId, args : {<<>>}]
Call == [fun : NodeId, args : Seq(Flat)]

\* target is the label of a jump, the address of an ICALL, or the END FUNCTION
\* node of a function head.
Command == [op : Op, target : NodeId, calls : Seq(Call), fails : BOOLEAN]

ASSUME ProgramAssumption ==
  /\ CommandArraySize \in Nat \ {0}
  /\ \A p \in Programs :
       /\ p \in [Node -> Command]
       /\ \A n \in Node : p[n].op = "icall" => p[n].target # 0
  /\ Leftover \subseteq NodeId
  /\ GlobalStepLimit \in Nat /\ LocalStepLimit \in Nat
  /\ FunctionLevelLimit \in Nat /\ MaxHostCalls \in Nat

VARIABLES
  code,     \* the program that runs: pEo->CommandArray, never changed
  pEo,      \* the registers of the ExecuteObject
  gosub,    \* GosubStackRoot, the last GOSUB first
  stack,    \* the activations of Execute_r, the running one last
  at,       \* where the running activation is in its loop
  outcome,  \* *piErrorCode of the outermost Execute_r
  calls     \* the number of the host's calls so far

vars == <<code, pEo, gosub, stack, at, outcome, calls>>

\* CDR of the node of a command: the command on the next line.
RestPastEnd(n) == n + 1   \* Bug: the last line has a next one

Rest(n) == IF n < CommandArraySize THEN n + 1 ELSE 0

Success == "success"
Errors == {"error", "too long run", "too deep call", "no resume",
           "return without gosub", "function undefined"}

OnError == {"nothing", "goto", "resume", "resumenext"}

Registers ==
  [ProgramCounter : NodeId, NextProgramCounter : NodeId, fNextPC : BOOLEAN,
   fStop : {"none", "return", "stop"}, fWeAreCallingFuction : BOOLEAN,
   lStepCounter : Nat, lGlobalStepCounter : Nat, lFunctionLevel : Int,
   ErrorCode : Errors \cup {Success}, fErrorGoto : OnError,
   ErrorGoto : NodeId, ErrorResume : NodeId, LocalVariables : Nat,
   FunctionArgumentsNode : Seq(Call)]

\* The locals of execute_Evaluate that keep registers of the caller.
Saved == [ProgramCounter : NodeId, ErrorGoto : NodeId, fErrorGoto : OnError,
          ErrorResume : NodeId, LocalVariables : Nat, lStepCounter : Nat]

Save == [ProgramCounter |-> pEo.ProgramCounter, ErrorGoto |-> pEo.ErrorGoto,
         fErrorGoto |-> pEo.fErrorGoto, ErrorResume |-> pEo.ErrorResume,
         LocalVariables |-> pEo.LocalVariables,
         lStepCounter |-> pEo.lStepCounter]

GosubStack == [lFunctionLevel : Int, nReturnNode : NodeId]

\* An activation of Execute_r: its local npc, the calls that the command it
\* executes has yet to make, whether that command is the head of the function
\* being entered, and what its caller saved.  The other fields are auxiliary:
\* the function that is executed (0 for the main program), the GOSUBs that were
\* pending when it was called, whether ON ERROR GOTO brought it to the code
\* that handles an error, and where its ErrorResume comes from: "leftover" until
\* the code assigns it ("own"), and "stray" for good once a RESUME used what the
\* heap had left there.
Activation == [npc : NodeId, todo : Seq(Call), entering : BOOLEAN,
               saved : Saved, head : NodeId, gosubs : Seq(GosubStack),
               handling : BOOLEAN, resume : {"leftover", "own", "stray"}]

Activate(h, resume) ==
  [npc |-> 0, todo |-> <<>>, entering |-> FALSE, saved |-> Save, head |-> h,
   gosubs |-> gosub, handling |-> FALSE, resume |-> resume]

\* Activation a after an assignment to ErrorResume.
Assigned(a) == [a EXCEPT !.resume = IF @ = "leftover" THEN "own" ELSE @]

TypeOK == /\ code \in [Node -> Command]
          /\ pEo \in Registers
          /\ gosub \in Seq(GosubStack)
          /\ stack \in Seq(Activation)
          /\ at \in {"fetch", "eval", "after", "done"}
          /\ outcome \in Errors \cup {Success}
          /\ calls \in 0 .. MaxHostCalls
          /\ at # "done" => stack # <<>>

\* execute_InitStructure, execute_InitExecute and the head of Execute_r.  Nothing
\* gives ErrorResume a value before the main program starts (execute.c assigns it
\* at the first error that is handled, and at calls), and the execute object comes
\* from the heap as it is (scriba.c:760): Leftover are the values it may have.
Init == /\ code \in Programs
        /\ \E r \in Leftover :
             pEo = [ProgramCounter |-> 1, NextProgramCounter |-> 0,
                    fNextPC |-> FALSE, fStop |-> "none",
                    fWeAreCallingFuction |-> FALSE, lStepCounter |-> 0,
                    lGlobalStepCounter |-> 0, lFunctionLevel |-> 0,
                    ErrorCode |-> Success, fErrorGoto |-> "nothing",
                    ErrorGoto |-> 0, ErrorResume |-> r, LocalVariables |-> 0,
                    FunctionArgumentsNode |-> <<>>]
        /\ gosub = <<>>
        /\ stack = <<Activate(0, "leftover")>>
        /\ at = "fetch"
        /\ outcome = Success
        /\ calls = 0

-----------------------------------------------------------------------------
Top == stack[Len(stack)]
Callers == SubSeq(stack, 1, Len(stack) - 1)
cmd == code[pEo.ProgramCounter]

\* ERROR(x) in the command that activation a executes with registers e.  The
\* head of a function has put its own local variables in place by then.
Failing(e, a, depth, x) ==
  [e EXCEPT !.ErrorCode = x,
            !.LocalVariables = IF a.entering THEN depth ELSE @]

Fail(x) == /\ pEo' = Failing(pEo, Top, Len(stack), x)
           /\ at' = "after"
           /\ UNCHANGED <<code, gosub, stack, outcome, calls>>

\* The command is done, and leaves the registers in e.
Done(e) == /\ pEo' = e
           /\ at' = "after"
           /\ UNCHANGED <<code, stack, outcome, calls>>

\* SETPROGRAMCOUNTER
Jump(n) == [pEo EXCEPT !.fNextPC = TRUE, !.NextProgramCounter = n]

\* The end of the call in execute_Evaluate: the caller gets back from s what it
\* saved there.
RestoreNoHandler(e, s) ==   \* Bug: the error handler is not saved
  [e EXCEPT !.ProgramCounter = s.ProgramCounter,
            !.ErrorResume = s.ErrorResume,
            !.LocalVariables = s.LocalVariables,
            !.lStepCounter = s.lStepCounter]

RestoreNoLocals(e, s) ==    \* Bug: the local variables are not put back
  [e EXCEPT !.ProgramCounter = s.ProgramCounter, !.ErrorGoto = s.ErrorGoto,
            !.fErrorGoto = s.fErrorGoto, !.ErrorResume = s.ErrorResume,
            !.lStepCounter = s.lStepCounter]

Restore(e, s) ==
  [e EXCEPT !.ProgramCounter = s.ProgramCounter, !.ErrorGoto = s.ErrorGoto,
            !.fErrorGoto = s.fErrorGoto, !.ErrorResume = s.ErrorResume,
            !.LocalVariables = s.LocalVariables,
            !.lStepCounter = s.lStepCounter]

\* The running activation of Execute_r returns x and leaves e in the registers;
\* the command of the caller then fails with x, or goes on with its expression.
Leave(e, x) ==
  /\ UNCHANGED <<code, calls>>
  /\ IF Len(stack) = 1
     THEN /\ pEo' = e
          /\ stack' = <<>>
          /\ at' = "done"
          /\ outcome' = x
     ELSE LET caller == stack[Len(stack) - 1]
              back == Restore(e, Top.saved)
          IN /\ UNCHANGED outcome
             /\ IF x = Success
                THEN /\ pEo' = back
                     /\ at' = "eval"
                     /\ stack' = [Callers EXCEPT ![Len(stack) - 1].todo =
                                                              Tail(@)]
                ELSE /\ pEo' = Failing(back, caller, Len(stack) - 1, x)
                     /\ at' = "after"
                     /\ stack' = Callers

-----------------------------------------------------------------------------
\* The head of the loop: the command at ProgramCounter starts.
Fetch ==
  /\ at = "fetch"
  /\ pEo.ProgramCounter # 0
  /\ LET entering == cmd.op = "function" /\ pEo.fWeAreCallingFuction
         todo == CASE entering -> pEo.FunctionArgumentsNode
                   [] cmd.op = "expr" -> cmd.calls
                   [] cmd.op = "icall" -> <<[fun |-> cmd.target, args |-> <<>>]>>
                   [] OTHER -> <<>>
     IN stack' = [stack EXCEPT ![Len(stack)] =
                    [@ EXCEPT !.npc = Rest(pEo.ProgramCounter),
                              !.todo = todo, !.entering = entering]]
  /\ pEo' = [pEo EXCEPT !.fNextPC = FALSE, !.ErrorCode = Success]
  /\ at' = "eval"
  /\ UNCHANGED <<code, gosub, outcome, calls>>

\* while( pEo->ProgramCounter ) ends.
RunOut == /\ at = "fetch"
          /\ pEo.ProgramCounter = 0
          /\ Leave(pEo, Success)
          /\ UNCHANGED gosub

TooDeepByOne ==   \* Bug: one level more than the limit
  FunctionLevelLimit # 0 /\ pEo.lFunctionLevel > FunctionLevelLimit + 1

TooDeep == FunctionLevelLimit # 0 /\ pEo.lFunctionLevel > FunctionLevelLimit

\* The registers with which a called function starts.
EnterNoReset(c) ==   \* Bug: the callee inherits the error handler
  [pEo EXCEPT !.ProgramCounter = c.fun, !.FunctionArgumentsNode = c.args,
              !.lStepCounter = 0, !.fWeAreCallingFuction = TRUE,
              !.fErrorGoto = "nothing", !.fStop = "none"]

Enter(c) ==
  [pEo EXCEPT !.ProgramCounter = c.fun, !.FunctionArgumentsNode = c.args,
              !.lStepCounter = 0, !.fWeAreCallingFuction = TRUE,
              !.ErrorGoto = 0, !.ErrorResume = 0, !.fErrorGoto = "nothing",
              !.fStop = "none"]

\* case eNTYPE_FUN of execute_Evaluate, and the same code in ICALL, up to the
\* head of the loop of the new Execute_r.
CallFunction ==
  /\ at = "eval"
  /\ Top.todo # <<>>
  /\ ~ TooDeep
  /\ LET c == Head(Top.todo)
     IN /\ c.fun # 0
        /\ code[c.fun].op = "function"
        /\ stack' = Append(stack, Activate(c.fun, "own"))
        /\ pEo' = Enter(c)
  /\ at' = "fetch"
  /\ UNCHANGED <<code, gosub, outcome, calls>>

\* The program does not define the function: the evaluation fails with the
\* program counter already cleared, and leaves it so.
CallUndefined ==
  /\ at = "eval"
  /\ Top.todo # <<>>
  /\ ~ TooDeep
  /\ Head(Top.todo).fun = 0
  /\ pEo' = [Failing(pEo, Top, Len(stack), "function undefined")
               EXCEPT !.ProgramCounter = 0]
  /\ at' = "after"
  /\ UNCHANGED <<code, gosub, stack, outcome, calls>>

CallTooDeep == /\ at = "eval"
               /\ Top.todo # <<>>
               /\ TooDeep
               /\ Fail("too deep call")

\* ICALL finds that its argument is not the address of a function, and fails
\* with the program counter already set to it.
ICallUndefined ==
  /\ at = "eval"
  /\ Top.todo # <<>>
  /\ ~ TooDeep
  /\ LET c == Head(Top.todo)
     IN /\ c.fun # 0
        /\ code[c.fun].op # "function"
        /\ Done([pEo EXCEPT !.ProgramCounter = c.fun,
                            !.ErrorCode = "function undefined"])
  /\ UNCHANGED gosub

-----------------------------------------------------------------------------
\* The expression of the command is evaluated; the command does its work.
Executes(op) == at = "eval" /\ Top.todo = <<>> /\ cmd.op = op

Expr == /\ Executes("expr")
        /\ IF cmd.fails THEN Fail("error") ELSE Done(pEo) /\ UNCHANGED gosub

Nop == Executes("nop") /\ Done(pEo) /\ UNCHANGED gosub

\* A successful ICALL has nothing left to do.
ICall == Executes("icall") /\ Done(pEo) /\ UNCHANGED gosub

\* FUNCTIONARG: the main program steps over the function; a call enters it.
Function ==
  /\ Executes("function")
  /\ IF Top.entering
     THEN Done([pEo EXCEPT !.LocalVariables = Len(stack),
                           !.lFunctionLevel = @ + 1])
     ELSE Done(Jump(Rest(cmd.target)))
  /\ UNCHANGED gosub

\* Drop the GOSUBs above a function level from the head of the stack.
DropAbove(s, level) ==
  LET keep == {i \in 1 .. Len(s) : \A j \in 1 .. i : s[j].lFunctionLevel > level}
      n == IF keep = {} THEN 0 ELSE CHOOSE i \in keep : \A j \in keep : j <= i
  IN SubSeq(s, n + 1, Len(s))

EndFuncKeepsGosubs ==   \* Bug: the GOSUBs are dropped at the old level
  /\ Executes("endfunc")
  /\ gosub' = DropAbove(gosub, pEo.lFunctionLevel)
  /\ Done([pEo EXCEPT !.lFunctionLevel = @ - 1, !.fStop = "return"])

\* EXITFUNC, and ENDFUNC, EXITSUB and ENDSUB that are the same.
EndFunc ==
  /\ Executes("endfunc")
  /\ gosub' = DropAbove(gosub, pEo.lFunctionLevel - 1)
  /\ Done([pEo EXCEPT !.lFunctionLevel = @ - 1, !.fStop = "return"])

Goto == /\ Executes("goto")
        /\ Done(Jump(cmd.target))
        /\ UNCHANGED gosub

Gosub ==
  /\ Executes("gosub")
  /\ gosub' = <<[lFunctionLevel |-> pEo.lFunctionLevel,
                 nReturnNode |-> Rest(pEo.ProgramCounter)]>> \o gosub
  /\ Done(Jump(cmd.target))

NoGosubAtAll == gosub = <<>>   \* Bug: the level is not looked at

NoGosub == gosub = <<>> \/ gosub[1].lFunctionLevel < pEo.lFunctionLevel

\* RETURNC and POP
Return ==
  /\ Executes("return") \/ Executes("pop")
  /\ IF NoGosub
     THEN Fail("return without gosub")
     ELSE /\ gosub' = Tail(gosub)
          /\ Done(IF cmd.op = "return" THEN Jump(gosub[1].nReturnNode) ELSE pEo)

Stop == /\ Executes("stop")
        /\ Done([pEo EXCEPT !.fStop = "stop"])
        /\ UNCHANGED gosub

\* ON ERROR GOTO label, GOTO NULL, RESUME label and RESUME NEXT.
OnErrorDo ==
  /\ \/ /\ Executes("onerrorgoto")
        /\ Done([pEo EXCEPT !.ErrorGoto = cmd.target, !.fErrorGoto = "goto"])
     \/ /\ Executes("onerrorgotonull")
        /\ Done([pEo EXCEPT !.ErrorGoto = 0, !.fErrorGoto = "nothing"])
     \/ /\ Executes("onerrorresumelabel")
        /\ Done([pEo EXCEPT !.ErrorGoto = cmd.target, !.fErrorGoto = "resume"])
     \/ /\ Executes("onerrorresumenext")
        /\ Done([pEo EXCEPT !.fErrorGoto = "resumenext"])
  /\ UNCHANGED gosub

\* Activation a after a RESUME to the place that ErrorResume names.
ToErrorResume(a) ==
  [a EXCEPT !.handling = FALSE,
            !.resume = IF @ = "leftover" THEN "stray" ELSE @]

\* The error counts as handled: RESUME in its three forms, which leave the
\* running activation as in a.
Resumes(e, a) == /\ pEo' = e
              /\ stack' = [stack EXCEPT ![Len(stack)] = a]
              /\ at' = "after"
              /\ UNCHANGED <<code, gosub, outcome, calls>>

ResumeLabel == /\ Executes("resumelabel")
               /\ Resumes([Jump(cmd.target) EXCEPT !.ErrorGoto = 0,
                                                   !.fErrorGoto = "nothing"],
                          [Top EXCEPT !.handling = FALSE])

Resume ==
  /\ Executes("resume") \/ Executes("resumenext")
  /\ IF pEo.ErrorResume = 0
     THEN Fail("no resume")
     ELSE Resumes(Jump(IF cmd.op = "resume" THEN pEo.ErrorResume
                                            ELSE Rest(pEo.ErrorResume)),
                  ToErrorResume(Top))

-----------------------------------------------------------------------------
\* The end of the loop of Execute_r.  Counted: the step counters went up.
NotCounted == [pEo EXCEPT !.fWeAreCallingFuction = FALSE]   \* Bug: no counter goes up

Counted == [pEo EXCEPT !.fWeAreCallingFuction = FALSE,
                       !.lStepCounter = @ + 1, !.lGlobalStepCounter = @ + 1]

TooLongLocally ==
  LocalStepLimit # 0 /\ pEo.lStepCounter + 1 > LocalStepLimit

TooLongNextTime ==   \* Bug: the counter is looked at before it goes up
  GlobalStepLimit # 0 /\ pEo.lGlobalStepCounter > GlobalStepLimit

TooLong == GlobalStepLimit # 0 /\ pEo.lGlobalStepCounter + 1 > GlobalStepLimit

StopTooLong ==
  /\ at = "after"
  /\ \/ /\ TooLongLocally
        /\ Leave([pEo EXCEPT !.fWeAreCallingFuction = FALSE,
                             !.lStepCounter = @ + 1], "too long run")
     \/ /\ ~ TooLongLocally /\ TooLong
        /\ Leave(Counted, "too long run")
  /\ UNCHANGED gosub

Checked == at = "after" /\ ~ TooLongLocally /\ ~ TooLong

\* The registers when the loop ends because of fStop.
StoppedForGood(e) == [e EXCEPT !.fStop = "none"]   \* Bug: STOP is RETURN

Stopped(e) == [e EXCEPT !.fStop = IF @ = "return" THEN "none" ELSE @]

\* The last lines of the loop, with the registers in e: stop, or go to the
\* next command, with the running activation as in a.
Proceed(e, a) ==
  /\ UNCHANGED gosub
  /\ IF e.fStop # "none"
     THEN Leave(Stopped(e), Success)
     ELSE /\ pEo' = [e EXCEPT !.ProgramCounter =
                       IF e.fNextPC THEN e.NextProgramCounter ELSE Top.npc]
          /\ stack' = [stack EXCEPT ![Len(stack)] = a]
          /\ at' = "fetch"
          /\ UNCHANGED <<code, outcome, calls>>

NextCommand == /\ Checked
               /\ pEo.ErrorCode = Success
               /\ Proceed(Counted, Top)

\* ON ERROR RESUME NEXT: the error is dropped.
ErrorResumesNext ==
  /\ Checked
  /\ pEo.ErrorCode # Success
  /\ pEo.fErrorGoto = "resumenext"
  /\ Proceed([Counted EXCEPT !.fErrorGoto = "nothing", !.ErrorResume = 0,
                             !.ErrorGoto = 0], Assigned(Top))

\* ON ERROR RESUME label: ErrorGoto is cleared before it is used.
ErrorResumesLabel ==
  /\ Checked
  /\ pEo.ErrorCode # Success
  /\ pEo.fErrorGoto = "resume"
  /\ pEo.ErrorGoto # 0
  /\ Proceed([Counted EXCEPT !.fErrorGoto = "nothing", !.ErrorResume = 0,
                             !.ErrorGoto = 0, !.fNextPC = TRUE,
                             !.NextProgramCounter = 0], Assigned(Top))

\* ON ERROR GOTO label: the handler runs, and is good for one error.
ErrorGoesTo ==
  /\ Checked
  /\ pEo.ErrorCode # Success
  /\ pEo.fErrorGoto = "goto"
  /\ pEo.ErrorGoto # 0
  /\ Proceed([Counted EXCEPT !.ErrorResume = pEo.ProgramCounter,
                             !.ErrorGoto = 0, !.fNextPC = TRUE,
                             !.NextProgramCounter = pEo.ErrorGoto],
             [Assigned(Top) EXCEPT !.handling = TRUE])

\* Nobody handles the error: it ends the activation.
ErrorLeaves ==
  /\ Checked
  /\ pEo.ErrorCode # Success
  /\ \/ pEo.fErrorGoto = "nothing"
     \/ pEo.fErrorGoto \in {"goto", "resume"} /\ pEo.ErrorGoto = 0
  /\ Leave(Counted, pEo.ErrorCode)
  /\ UNCHANGED gosub

\* execute_ExecuteFunction: the embedding program calls function h after the
\* program ended.  The head of the function is stepped over.
HostCall ==
  /\ at = "done"
  /\ calls < MaxHostCalls
  /\ \E h \in Node :
       /\ code[h].op = "function"
       /\ pEo' = [pEo EXCEPT !.ProgramCounter = Rest(h), !.lStepCounter = 0,
                             !.fWeAreCallingFuction = TRUE, !.ErrorGoto = 0,
                             !.ErrorResume = 0, !.fErrorGoto = "nothing",
                             !.LocalVariables = 1, !.fStop = "none"]
       /\ stack' = <<Activate(h, "own")>>
  /\ at' = "fetch"
  /\ calls' = calls + 1
  /\ UNCHANGED <<code, gosub, outcome>>

Next == \/ Fetch \/ RunOut \/ CallFunction \/ CallUndefined \/ CallTooDeep
        \/ ICallUndefined \/ Expr \/ Nop \/ ICall \/ Function \/ EndFunc \/ Goto \/ Gosub
        \/ Return \/ Stop \/ OnErrorDo \/ ResumeLabel \/ Resume
        \/ StopTooLong \/ NextCommand \/ ErrorResumesNext
        \/ ErrorResumesLabel \/ ErrorGoesTo \/ ErrorLeaves \/ HostCall

Spec == Init /\ [][Next]_vars

\* A single thread executes the program: it goes on while it can.
FairSpec == Spec /\ WF_vars(Next)

-----------------------------------------------------------------------------
\* Node n is part of function h, or of the main program if h is 0.  The main
\* program executes the head of a function to step over it.
PartOf(n, h) ==
  IF h = 0
  THEN ~ \E f \in Node : code[f].op = "function" /\ f < n /\ n <= code[f].target
  ELSE h <= n /\ n <= code[h].target

\* "Labels are local within functions and subroutines.  You can not jump into a
\* subroutine or jump out of it" (goto.c:28): the next command, the error
\* handler and, once the code has assigned it, the place to resume are parts of
\* the function that runs, after any sequence of calls, errors and resumes.  The
\* premise is that the activation did not RESUME to what the heap had left in
\* ErrorResume: that may be any node.
LabelsAreLocal ==
  at = "fetch" /\ Top.resume # "stray" =>
    /\ \A n \in {pEo.ProgramCounter, pEo.ErrorGoto} \ {0} : PartOf(n, Top.head)
    /\ Top.resume = "own" /\ pEo.ErrorResume # 0
         => PartOf(pEo.ErrorResume, Top.head)

\* A command of a function runs with the local variables of that function, and
\* the actual arguments are evaluated with those of the caller
\* (function.c:163-167), whatever calls and errors came in between: the caller is
\* the nearest activation that is not still evaluating its own arguments.
LocalsOfRunningFunction ==
  at = "eval" =>
    LET ready == {i \in 1 .. Len(stack) : ~ stack[i].entering}
        owner == CHOOSE i \in ready : \A j \in ready : j <= i
    IN pEo.LocalVariables = IF stack[owner].head = 0 THEN 0 ELSE owner

\* The pending GOSUBs are sorted by the level of the function that executed
\* them, and none is above the running one: RETURN, POP and EXITFUNC find those
\* of the running function first.
GosubsSorted ==
  /\ \A i \in 1 .. Len(gosub) - 1 :
        gosub[i].lFunctionLevel >= gosub[i + 1].lFunctionLevel
  /\ gosub # <<>> => gosub[1].lFunctionLevel <= pEo.lFunctionLevel

\* The GOSUBs that were pending when a function was called stay pending as long as
\* it runs, whatever its own GOSUB, RETURN and POP commands, its calls and their
\* errors do (function.c:285-291).
CallersGosubsKept ==
  \A i \in 1 .. Len(stack) :
    /\ Len(stack[i].gosubs) <= Len(gosub)
    /\ stack[i].gosubs =
         SubSeq(gosub, Len(gosub) - Len(stack[i].gosubs) + 1, Len(gosub))

\* "the max number of steps allowed for the programs" and "inside a function"
\* (execute.c:82-83): no error handler on the way out lets the program start a
\* command above a limit, and a call gives the caller its own count back.
StepLimit ==
  at = "fetch" /\ calls = 0 =>
    /\ GlobalStepLimit # 0 => pEo.lGlobalStepCounter <= GlobalStepLimit
    /\ LocalStepLimit # 0 => pEo.lStepCounter <= LocalStepLimit

\* "the maximal function call deepness" (execute.c:84).  The level is tested before
\* it goes up (execute.c:798), so one body more than the limit may run, and never
\* another, whatever functions ended, failed or returned before.
LevelLimit ==
  at # "done" /\ calls = 0 /\ FunctionLevelLimit # 0 =>
    Cardinality({i \in 2 .. Len(stack) : ~ stack[i].entering})
      <= FunctionLevelLimit + 1

\* "There is no possibility to restart program execution after this command was
\* executed" (goto.c:160).
StopIsFinal ==
  [][at # "done" /\ pEo.fStop = "stop" => pEo'.fStop = "stop"]_vars

\* The limits stop infinite loops (scriba.conf.lsp:61): every program ends.
Terminates == <>(at = "done")

\* The armed error handlers of the activations: the registers hold those of the
\* running one, each activation keeps those of its caller.
Handler(i) == IF i = Len(stack) THEN pEo ELSE stack[i + 1].saved

Armed(i) == Handler(i).fErrorGoto = "goto" /\ Handler(i).ErrorGoto # 0

Unarmed(i) == \/ Handler(i).fErrorGoto = "nothing"
              \/ Handler(i).fErrorGoto = "goto" /\ Handler(i).ErrorGoto = 0

\* An error goes to the handler of the nearest activation that has one
\* (goto.c:94), at any depth of calls, unless STOP or a step limit intervenes.
ErrorsFindHandlers ==
  \A i \in 1 .. GlobalStepLimit :
    ( /\ at = "after" /\ pEo.ErrorCode \notin {Success, "too long run"}
      /\ i <= Len(stack) /\ Armed(i)
      /\ \A j \in i + 1 .. Len(stack) : Unarmed(j) )
    ~> \/ at = "fetch" /\ Len(stack) = i /\ Top.handling
       \/ at = "done" /\ (pEo.fStop = "stop" \/ outcome = "too long run")
       \/ at = "after" /\ pEo.ErrorCode = "too long run"

-----------------------------------------------------------------------------
\* What the documents say and the code does not keep.

\* "The code tried to execute a resume while not being in error correction code"
\* (errors.def:96) is an error: RESUME and RESUME NEXT succeed only between an
\* ON ERROR GOTO that took effect and the next RESUME.
ResumeInHandler ==
  [][Executes("resume") \/ Executes("resumenext") =>
       Top.handling \/ pEo'.ErrorCode = "no resume"]_vars
=============================================================================
