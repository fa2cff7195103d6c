-------------------------------- MODULE LuaDo --------------------------------
(***************************************************************************)
(* Calls, coroutines and error recovery of the interpreter (ldo.c).        *)
(*                                                                         *)
(* Every thread has an array of call frames (CallInfo); all threads share  *)
(* the one C stack, on which calls of luaV_execute, luaD_call, luaD_pcall, *)
(* lua_resume and C functions nest.  A Lua-to-Lua call uses no C stack, a  *)
(* yield must abandon no C function, and an error jumps over both stacks.  *)
(* Values are left out; what the Lua and C functions do next is any of the *)
(* things they can do.                                                     *)
(***************************************************************************)
EXTENDS Naturals, Sequences, FiniteSets, SequencesExt

CONSTANTS
  Thread, MainThread,
  LUAI_MAXCCALLS,   \* limit of nested C calls
  CCALLS_SLACK,     \* LUAI_MAXCCALLS >> 3, the reserve for error handling
  LUAI_MAXCALLS,    \* limit of call frames of a thread
  BASIC_CI_SIZE,    \* initial number of call frames
  TooManyResults,   \* whether a coroutine may return more than LUAI_MAXCSTACK values
  MaxOpen           \* bound: frames of a thread that have open upvalues at a time

ASSUME MainAssumption == MainThread \in Thread
ASSUME LimitAssumption ==
  /\ LUAI_MAXCCALLS \in Nat \ {0} /\ CCALLS_SLACK \in Nat \ {0}
  /\ BASIC_CI_SIZE \in Nat /\ BASIC_CI_SIZE > 1
  /\ LUAI_MAXCALLS \in Nat /\ LUAI_MAXCALLS >= BASIC_CI_SIZE
  /\ TooManyResults \in BOOLEAN /\ MaxOpen \in Nat

VARIABLES
  created,      \* the threads that exist
  status,       \* L->status: "ok" (0), "yield" (LUA_YIELD) or "error"
  pending,      \* whether a thread without frames has values on its stack
  ci,           \* the frames above base_ci: "Lua" or "C"
  size_ci,      \* frames allocated, base_ci included
  nCcalls,      \* L->nCcalls
  baseCcalls,   \* L->baseCcalls
  errfunc,      \* L->errfunc: "none", "function", or "value" (not callable)
  openup,       \* the frames that have open upvalues
  cstack,       \* the C stack, innermost call last
  raised        \* "no"; "runerror": in luaG_errormsg; "throw": in luaD_throw

threadVars == <<status, ci, size_ci, openup>>
vars == <<created, threadVars, pending, nCcalls, baseCcalls, errfunc, cstack, raised>>

Handler == {"none", "function", "value"}
FrameKind == {"Lua", "C"}

(* Records of the C stack. *)
Execute(th, n) == [f |-> "luaV_execute", th |-> th, nexeccalls |-> n]
CFunction(th) == [f |-> "C function", th |-> th]
Call(th) == [f |-> "luaD_call", th |-> th]
ErrorMsg(th) == [f |-> "luaG_errormsg", th |-> th]
Resume(th) == [f |-> "lua_resume", th |-> th]
Pcall_none(th, ef) ==                                \* mutant: forgets the old handler
  [f |-> "luaD_pcall", th |-> th, ef |-> ef, old_errfunc |-> "none",
   old_ci |-> Len(ci[th]), oldnCcalls |-> nCcalls[th]]
Pcall(th, ef) ==
  [f |-> "luaD_pcall", th |-> th, ef |-> ef, old_errfunc |-> errfunc[th],
   old_ci |-> Len(ci[th]), oldnCcalls |-> nCcalls[th]]

Top == Last(cstack)
L == Top.th
Doing(f) == raised = "no" /\ Top.f = f

(* A C function other than the host's own loop. *)
InFunction_host == Doing("C function")               \* mutant: the host too
InFunction == Doing("C function") /\ Len(cstack) > 1

----------------------------------------------------------------------------
(* Frames. *)

(* inc_ci and growCI: room for one more frame, or an error.  Frames beyond  *)
(* the limit are a reserve for the handling of the overflow.                *)
FrameError(th) ==
  CASE Len(ci[th]) + 1 < size_ci[th] -> "no"
    [] Len(ci[th]) + 1 >= size_ci[th] /\ size_ci[th] > LUAI_MAXCALLS -> "throw"
    [] OTHER -> IF 2 * size_ci[th] > LUAI_MAXCALLS THEN "runerror" ELSE "no"
inc_ci(th) ==
  /\ raised' = FrameError(th)
  /\ size_ci' = [size_ci EXCEPT ![th] =
       IF Len(ci[th]) + 1 < @ \/ @ > LUAI_MAXCALLS THEN @ ELSE 2 * @]

(* luaD_precall: thread th enters a frame and the C stack becomes "entered". *)
luaD_precall(th, kind, entered, failed) ==
  /\ inc_ci(th)
  /\ ci' = [ci EXCEPT ![th] = IF raised' = "no" THEN Append(@, kind) ELSE @]
  /\ cstack' = IF raised' = "no" THEN entered ELSE failed

restore_stack_limit(size, inuse) ==
  IF size > LUAI_MAXCALLS /\ inuse + 1 < LUAI_MAXCALLS THEN LUAI_MAXCALLS ELSE size

----------------------------------------------------------------------------
(* Calls. *)

CallDepth_kept(th) == nCcalls[th]                    \* mutant: does not count
CallDepth(th) == nCcalls[th] + 1

(* luaD_call by the code under the C stack cs. *)
luaD_call(th, kind, cs) ==
  LET n == CallDepth(th)
      called == Append(cs, Call(th))
      body == IF kind = "Lua" THEN Execute(th, 1) ELSE CFunction(th)
  IN
  /\ nCcalls' = [nCcalls EXCEPT ![th] = n]
  /\ \/ /\ n = LUAI_MAXCCALLS \/ n >= LUAI_MAXCCALLS + CCALLS_SLACK
        /\ raised' = IF n = LUAI_MAXCCALLS THEN "runerror" ELSE "throw"
        /\ cstack' = called
        /\ UNCHANGED <<ci, size_ci>>
     \/ /\ n # LUAI_MAXCCALLS /\ n < LUAI_MAXCCALLS + CCALLS_SLACK
        /\ luaD_precall(th, kind, Append(called, body), called)

(* lua_call, a metamethod, or a finalizer run by the collector. *)
lua_call(kind) ==
  /\ InFunction \/ Doing("luaV_execute")
  /\ luaD_call(L, kind, cstack)
  /\ UNCHANGED <<created, status, openup, pending, baseCcalls, errfunc>>

lua_pcall(kind, ef) ==
  /\ Doing("C function")
  /\ errfunc' = [errfunc EXCEPT ![L] = ef]
  /\ luaD_call(L, kind, Append(cstack, Pcall(L, ef)))
  /\ UNCHANGED <<created, status, openup, pending, baseCcalls>>

(* OP_CALL: luaV_execute itself goes on with the frame of a Lua function. *)
OP_CALL ==
  /\ Doing("luaV_execute")
  /\ \/ luaD_precall(L, "Lua", [cstack EXCEPT ![Len(cstack)].nexeccalls = @ + 1], cstack)
     \/ luaD_precall(L, "C", Append(cstack, CFunction(L)), cstack)
  /\ UNCHANGED <<created, status, openup, pending, nCcalls, baseCcalls, errfunc>>

(* OP_TAILCALL of a Lua function: its frame is entered and moved over the   *)
(* caller's, whose upvalues are closed.                                     *)
ClosedFrame_open == openup                           \* mutant: closes nothing
ClosedFrame == [openup EXCEPT ![L] = @ \ {Len(ci[L])}]
OP_TAILCALL ==
  /\ Doing("luaV_execute")
  /\ inc_ci(L)
  /\ openup' = IF raised' = "no" THEN ClosedFrame ELSE openup
  /\ UNCHANGED <<created, status, ci, pending, nCcalls, baseCcalls, errfunc, cstack>>

(* OP_CLOSURE over a local variable of the running function. *)
OP_CLOSURE ==
  /\ Doing("luaV_execute") /\ Cardinality(openup[L]) < MaxOpen
  /\ openup' = [openup EXCEPT ![L] = @ \cup {Len(ci[L])}]
  /\ UNCHANGED <<created, status, ci, size_ci, pending, nCcalls, baseCcalls, errfunc,
                 cstack, raised>>

(* luaD_poscall: the last frame goes. *)
luaD_poscall(th) == ci' = [ci EXCEPT ![th] = Front(@)]

(* OP_RETURN closes the upvalues of the frame and leaves luaV_execute when  *)
(* the frame is the one it was entered with.                                *)
OP_RETURN ==
  /\ Doing("luaV_execute")
  /\ luaD_poscall(L)
  /\ openup' = ClosedFrame
  /\ cstack' = IF Top.nexeccalls = 1 THEN Front(cstack)
               ELSE [cstack EXCEPT ![Len(cstack)].nexeccalls = @ - 1]
  /\ UNCHANGED <<created, status, size_ci, pending, nCcalls, baseCcalls, errfunc, raised>>

(* A C function returns to luaD_precall. *)
ReturnFromC ==
  /\ InFunction
  /\ luaD_poscall(L)
  /\ cstack' = Front(cstack)
  /\ UNCHANGED <<created, status, size_ci, openup, pending, nCcalls, baseCcalls, errfunc,
                 raised>>

(* The callee of luaD_call is done: return to lua_call, to luaD_pcall or to *)
(* luaG_errormsg, which throws.                                             *)
ReturnFromCall ==
  LET caller == Front(cstack) IN
  /\ Doing("luaD_call")
  /\ nCcalls' = [nCcalls EXCEPT ![L] = @ - 1]
  /\ \/ /\ Last(caller).f = "luaD_pcall"
        /\ errfunc' = [errfunc EXCEPT ![L] = Last(caller).old_errfunc]
        /\ cstack' = Front(caller)
        /\ UNCHANGED raised
     \/ /\ Last(caller).f = "luaG_errormsg"
        /\ raised' = "throw" /\ cstack' = Front(caller)
        /\ UNCHANGED errfunc
     \/ /\ Last(caller).f \in {"luaV_execute", "C function"}
        /\ cstack' = caller
        /\ UNCHANGED <<raised, errfunc>>
  /\ UNCHANGED <<created, threadVars, pending, baseCcalls>>

----------------------------------------------------------------------------
(* Errors. *)

(* lua_error, luaG_runerror, or an allocation that fails. *)
Fail ==
  /\ InFunction \/ Doing("luaV_execute")
  /\ raised' \in {"runerror", "throw"}
  /\ UNCHANGED <<created, threadVars, pending, nCcalls, baseCcalls, errfunc, cstack>>

(* luaG_errormsg calls the handler, if there is one, where the error is. *)
luaG_errormsg(kind) ==
  /\ raised = "runerror"
  /\ \/ /\ errfunc[L] # "function"
        /\ raised' = "throw"
        /\ UNCHANGED <<ci, size_ci, nCcalls, cstack>>
     \/ /\ errfunc[L] = "function"
        /\ luaD_call(L, kind, Append(cstack, ErrorMsg(L)))
  /\ UNCHANGED <<created, status, openup, pending, baseCcalls, errfunc>>

(* The innermost luaD_rawrunprotected of the running thread (L->errorJmp).  *)
errorJmp == CHOOSE i \in DOMAIN cstack :
  /\ cstack[i].th = L /\ cstack[i].f \in {"luaD_pcall", "lua_resume"}
  /\ \A j \in i + 1 .. Len(cstack) :
       ~(cstack[j].th = L /\ cstack[j].f \in {"luaD_pcall", "lua_resume"})

RestoredFrames_kept(saved) == ci[L]                  \* mutant: keeps the frames
RestoredFrames(saved) == SubSeq(ci[L], 1, saved.old_ci)
ClosedAbove_open(saved) == openup[L]                 \* mutant: does not close
ClosedAbove(saved) == openup[L] \cap 1 .. saved.old_ci

(* luaD_throw to luaD_pcall, which restores its caller's state. *)
CatchInPcall ==
  LET saved == cstack[errorJmp] IN
  /\ raised = "throw" /\ saved.f = "luaD_pcall"
  /\ cstack' = SubSeq(cstack, 1, errorJmp - 1)
  /\ openup' = [openup EXCEPT ![L] = ClosedAbove(saved)]
  /\ nCcalls' = [nCcalls EXCEPT ![L] = saved.oldnCcalls]
  /\ ci' = [ci EXCEPT ![L] = RestoredFrames(saved)]
  /\ size_ci' = [size_ci EXCEPT ![L] = restore_stack_limit(@, saved.old_ci)]
  /\ errfunc' = [errfunc EXCEPT ![L] = saved.old_errfunc]
  /\ raised' = "no"
  /\ UNCHANGED <<created, status, pending, baseCcalls>>

(* luaD_throw to lua_resume: the coroutine is dead, its frames stay. *)
CatchInResume ==
  /\ raised = "throw" /\ cstack[errorJmp].f = "lua_resume"
  /\ cstack' = SubSeq(cstack, 1, errorJmp - 1)
  /\ status' = [status EXCEPT ![L] = "error"]
  /\ nCcalls' = [nCcalls EXCEPT ![L] = @ - 1]
  /\ raised' = "no"
  /\ UNCHANGED <<created, ci, size_ci, openup, pending, baseCcalls, errfunc>>

----------------------------------------------------------------------------
(* Coroutines. *)

costatus_suspended(from, co) ==                      \* mutant: no "normal" state
  CASE from = co -> "running"
    [] from # co /\ status[co] = "error" -> "dead"
    [] OTHER -> "suspended"
costatus(from, co) ==
  CASE from = co -> "running"
    [] from # co /\ status[co] = "yield" -> "suspended"
    [] from # co /\ status[co] = "ok" ->
         IF ci[co] # <<>> THEN "normal" ELSE IF pending[co] THEN "suspended" ELSE "dead"
    [] OTHER -> "dead"

luaB_cocreate(co) ==
  /\ InFunction /\ co \notin created
  /\ created' = created \cup {co}
  /\ pending' = [pending EXCEPT ![co] = TRUE]
  /\ UNCHANGED <<threadVars, nCcalls, baseCcalls, errfunc, cstack, raised>>

(* lua_resume through auxresume, which refuses all but suspended coroutines. *)
lua_resume(co) ==
  LET n == nCcalls[L] + 1
      resumed == Append(cstack, Resume(co))
      frames == Len(ci[co]) - 1
  IN
  /\ InFunction /\ co \in created /\ costatus(L, co) = "suspended"
  /\ nCcalls[L] < LUAI_MAXCCALLS
  /\ nCcalls' = [nCcalls EXCEPT ![co] = n]
  /\ baseCcalls' = [baseCcalls EXCEPT ![co] = n]
  /\ pending' = [pending EXCEPT ![co] = FALSE]
  /\ \/ /\ status[co] = "ok"
        /\ luaD_precall(co, "Lua", Append(resumed, Execute(co, 1)), resumed)
        /\ UNCHANGED status
     \/ /\ status[co] = "yield"
        /\ status' = [status EXCEPT ![co] = "ok"]
        /\ luaD_poscall(co)
        /\ cstack' = Append(resumed, Execute(co, frames))
        /\ UNCHANGED <<size_ci, raised>>
  /\ UNCHANGED <<created, openup, errfunc>>

(* resume_error on a full C stack drops what is on the coroutine's stack.   *)
ResumeError(co) ==
  /\ InFunction /\ co \in created /\ costatus(L, co) = "suspended"
  /\ nCcalls[L] >= LUAI_MAXCCALLS
  /\ nCcalls' = [nCcalls EXCEPT ![co] = nCcalls[L]]
  /\ pending' = [pending EXCEPT ![co] = FALSE]
  /\ UNCHANGED <<created, threadVars, baseCcalls, errfunc, cstack, raised>>

CanYield_always == TRUE                              \* mutant: no boundary check
CanYield == nCcalls[L] <= baseCcalls[L]

(* lua_yield by a C function, through luaD_precall and luaV_execute. *)
lua_yield ==
  LET caller == Front(cstack) IN
  /\ InFunction
  /\ \/ /\ ~CanYield
        /\ raised' = "runerror"
        /\ UNCHANGED <<status, cstack>>
     \/ /\ CanYield
        /\ status' = [status EXCEPT ![L] = "yield"]
        /\ cstack' = IF Last(caller).f = "luaV_execute" THEN Front(caller) ELSE caller
        /\ UNCHANGED raised
  /\ UNCHANGED <<created, ci, size_ci, openup, pending, nCcalls, baseCcalls, errfunc>>

(* The coroutine yielded or returned: auxresume moves its values to the     *)
(* resumer, or leaves them there and raises an error if they do not fit.    *)
ReturnFromResume ==
  /\ Doing("lua_resume")
  /\ cstack' = Front(cstack)
  /\ nCcalls' = [nCcalls EXCEPT ![L] = @ - 1]
  /\ \/ UNCHANGED <<pending, raised>>
     \/ /\ TooManyResults
        /\ pending' = [pending EXCEPT ![L] = TRUE]
        /\ raised' = "runerror"
  /\ UNCHANGED <<created, threadVars, baseCcalls, errfunc>>

----------------------------------------------------------------------------
(* The host's loop calls every chunk with lua_pcall. *)
Init ==
  /\ created = {MainThread}
  /\ status = [th \in Thread |-> "ok"]
  /\ pending = [th \in Thread |-> FALSE]
  /\ ci = [th \in Thread |-> <<>>]
  /\ size_ci = [th \in Thread |-> BASIC_CI_SIZE]
  /\ nCcalls = [th \in Thread |-> 0]
  /\ baseCcalls = [th \in Thread |-> 0]
  /\ errfunc = [th \in Thread |-> "none"]
  /\ openup = [th \in Thread |-> {}]
  /\ cstack = <<CFunction(MainThread)>>
  /\ raised = "no"

LuaStep == OP_CALL \/ OP_TAILCALL \/ OP_CLOSURE \/ OP_RETURN

CallStep ==
  \/ \E kind \in FrameKind : lua_call(kind) \/ \E ef \in Handler : lua_pcall(kind, ef)
  \/ ReturnFromC
  \/ ReturnFromCall

ErrorStep ==
  \/ Fail
  \/ \E kind \in FrameKind : luaG_errormsg(kind)
  \/ CatchInPcall
  \/ CatchInResume

CoroutineStep ==
  \/ \E co \in Thread : luaB_cocreate(co) \/ lua_resume(co) \/ ResumeError(co)
  \/ lua_yield
  \/ ReturnFromResume

Next == LuaStep \/ CallStep \/ ErrorStep \/ CoroutineStep

Spec == Init /\ [][Next]_vars

----------------------------------------------------------------------------
(* Properties. *)

Record ==
  [f : {"luaV_execute"}, th : Thread, nexeccalls : Nat]
    \cup [f : {"C function", "luaD_call", "luaG_errormsg", "lua_resume"}, th : Thread]
    \cup [f : {"luaD_pcall"}, th : Thread, ef : Handler, old_errfunc : Handler,
          old_ci : Nat, oldnCcalls : Nat]

TypeOK ==
  /\ created \subseteq Thread
  /\ status \in [Thread -> {"ok", "yield", "error"}]
  /\ pending \in [Thread -> BOOLEAN]
  /\ ci \in [Thread -> Seq(FrameKind)]
  /\ size_ci \in [Thread -> Nat]
  /\ nCcalls \in [Thread -> Nat] /\ baseCcalls \in [Thread -> Nat]
  /\ errfunc \in [Thread -> Handler]
  /\ openup \in [Thread -> SUBSET Nat]
  /\ cstack \in Seq(Record)
  /\ raised \in {"no", "runerror", "throw"}

(* The threads that have resumed one another, down to the running one, but   *)
(* for one that is just leaving.                                             *)
Active == {th \in Thread : status[th] = "ok" /\ \E i \in DOMAIN cstack : cstack[i].th = th}

(* The frames that a record stands for, and those of a thread that the first *)
(* n records of a C stack stand for, each by its record and its number there; *)
(* the host's loop, the first record, has none.                              *)
Frames(r) == CASE r.f = "luaV_execute" -> r.nexeccalls
               [] r.f = "C function" -> 1
               [] OTHER -> 0
Kind(r) == IF r.f = "luaV_execute" THEN "Lua" ELSE "C"
Slots(cs, th, n) ==
  UNION {{i} \X (1 .. Frames(cs[i])) : i \in {j \in 2 .. n : cs[j].th = th}}
FramesTo(cs, th, n) == Cardinality(Slots(cs, th, n))

(* luaV_execute leaves exactly when the frame it was entered with returns:   *)
(* the frames of an active thread are those of the C calls that run them, in *)
(* order, through tail calls, errors and resumptions (nexeccalls, lvm.c).    *)
Owned(cs, th, frames) ==
  /\ Len(frames) = FramesTo(cs, th, Len(cs))
  /\ \A i \in 2 .. Len(cs) : cs[i].th = th =>
       \A k \in 1 .. Frames(cs[i]) : frames[FramesTo(cs, th, i - 1) + k] = Kind(cs[i])
FramesOwned == TypeOK /\ \A th \in Active : Owned(cstack, th, ci[th])

(* nCcalls of an active thread counts the C calls below it, those of the     *)
(* threads that resumed it included, and never passes the reserve for error  *)
(* handling: the C stack cannot overflow (luaD_call, lua_setlevel).          *)
CallsTo(cs, n) == Cardinality({i \in 1 .. n : cs[i].f \in {"luaD_call", "lua_resume"}})
LastOf(cs, th, i) == cs[i].th = th /\ \A j \in i + 1 .. Len(cs) : cs[j].th # th
CcallsCounted ==
  \A th \in Active : \A i \in DOMAIN cstack : LastOf(cstack, th, i) =>
    /\ nCcalls[th] = CallsTo(cstack, i)
    /\ nCcalls[th] <= LUAI_MAXCCALLS + CCALLS_SLACK

(* A yield abandons no C function or protected call: of a suspended thread   *)
(* nothing is left on the C stack, and what it has to continue is Lua code   *)
(* with the C function that yielded on top (lua_yield, resume).              *)
NothingAbandoned ==
  \A th \in Thread : status[th] = "yield" =>
    /\ \A i \in DOMAIN cstack : cstack[i].th = th => cstack[i].f = "lua_resume"
    /\ Len(ci[th]) > 1 /\ Last(ci[th]) = "C" /\ ToSet(Front(ci[th])) = {"Lua"}

(* An error is caught by its own thread: it jumps over no C call of another  *)
(* one, and somebody catches it (errorJmp, luaD_rawrunprotected).            *)
ErrorContained ==
  raised # "no" =>
    \E i \in DOMAIN cstack :
      /\ cstack[i].f \in {"luaD_pcall", "lua_resume"}
      /\ \A j \in i .. Len(cstack) : cstack[j].th = L

(* The handler in force is that of the innermost protected call of the       *)
(* thread, after any error or return (errfunc, old_errfunc in luaD_pcall).   *)
PcallOf(cs, th, i) == cs[i].th = th /\ cs[i].f = "luaD_pcall"
HandlerAt(cs, th, n, handler) ==
  \/ handler = "none" /\ \A i \in 1 .. n : ~PcallOf(cs, th, i)
  \/ \E i \in 1 .. n : /\ PcallOf(cs, th, i) /\ cs[i].ef = handler
                       /\ \A j \in i + 1 .. n : ~PcallOf(cs, th, j)
HandlerInForce == \A th \in Active : HandlerAt(cstack, th, Len(cstack), errfunc[th])

(* No open upvalue points into a frame that is gone (luaF_close in OP_RETURN, *)
(* OP_TAILCALL and luaD_pcall).                                              *)
UpvaluesOnStack ==
  \A th \in Thread : openup[th] \subseteq {i \in DOMAIN ci[th] : ci[th][i] = "Lua"}

(* A frame starts without open upvalues: none of them outlives the frame     *)
(* whose registers it names and is found again by another function.          *)
FreshFrameStep ==
  \A th \in Thread :
    (Len(ci'[th]) > Len(ci[th]) \/ (th = L /\ OP_TAILCALL /\ raised' = "no"))
      => Len(ci'[th]) \notin openup'[th]
FreshFrames == [][FreshFrameStep]_vars

(* The coroutines do what Coroutines promises, with the states costatus      *)
(* computes and with what lua_resume has on the C stack.                     *)
Resumptions(cs) == {<<cs[i - 1].th, cs[i].th>> : i \in {j \in 2 .. Len(cs) : cs[j].f = "lua_resume"}}
Promise == INSTANCE Coroutines WITH
  Coroutine <- Thread, Main <- MainThread, waits <- Resumptions(cstack),
  state <- [th \in Thread |-> IF th \in created THEN costatus(L, th) ELSE "none"]
ImplementsCoroutines == Promise!Spec

============================================================================
