---------------------------- MODULE CompiledProgram ---------------------------
(***************************************************************************)
(* The C program that SimpleCodeGen generates, at work, with the runtime   *)
(* of projects/scm-rt/smalls.inc.  An action is a C statement.  A word is  *)
(* an integer, a pointer to a block that ALLOC gave, or junk: what a local *)
(* variable holds before anything was assigned to it.                      *)
(***************************************************************************)
EXTENDS SimpleCodeGen

CONSTANTS
  Program,         \* ASTs
  PARAM_COUNT,     \* how many registers there are, g_param0 included
  MaxStack         \* how many calls the stack holds

ASSUME BoundsAssumption == PARAM_COUNT \in Nat \ {0} /\ MaxStack \in Nat \ {0}

VARIABLES
  program,         \* the one compiled
  code,            \* what the code generator made of it
  status,
  stack,           \* the calls: function, statement and temporaries
  heap,            \* the blocks
  g_param,         \* the registers
  output           \* of display

vars == <<program, code, status, stack, heap, g_param, output>>

Reference == INSTANCE SchemeMeaning

-----------------------------------------------------------------------------
(* Does the C compiler accept it?  A real number cannot be cast to reg_t.  *)
IsC(e) ==
  CASE e.c \in {"text", "real"} -> FALSE
    [] e.c = "param"            -> e.i < PARAM_COUNT
    [] OTHER                    -> TRUE

Compiles ==
  \A f \in 1..Len(code.funcs) : \A i \in 1..Len(code.funcs[f].code) :
    LET st == code.funcs[f].code[i]
    IN  /\ "e" \in DOMAIN st => IsC(st.e) \/ (st.s = "ifnot" /\ st.e = Real)
        /\ st.s = "param" => st.i < PARAM_COUNT

-----------------------------------------------------------------------------
Word(n) == [w |-> "int", n |-> n]
Ptr(b) == [w |-> "ptr", b |-> b]
Junk == [w |-> "junk"]

FrameBlock(cells) == [b |-> "frame", cells |-> cells]
ClosureBlock(fp, env) == [b |-> "closure", fp |-> fp, env |-> env]

(* Block 1 is g_sysframe.  Its closures have functions of the runtime, the *)
(* numbers from 0 down.                                                    *)
SystemBlocks(n) ==
  <<FrameBlock([a \in 0..(n - 1) |-> Ptr(a + 2)])>> \o
  [i \in 1..n |-> ClosureBlock(1 - i, Ptr(1))]

funcs == code.funcs
top == stack[Len(stack)]
statement == funcs[top.fn].code[top.pc]

Call(fn) == [fn |-> fn, pc |-> 1, tmps |-> [t \in 0..(funcs[fn].tmps - 1) |-> Junk]]

Init ==
  /\ program \in Program
  /\ code = generate(program)
  /\ status = IF ~code.ok THEN "aborted"
              ELSE IF Compiles THEN "running" ELSE "rejected"
  /\ stack = IF status = "running" THEN <<Call(1)>> ELSE <<>>
  /\ heap = SystemBlocks(program.systemFrame.length)
  /\ g_param = [i \in 0..(PARAM_COUNT - 1) |-> Word(0)]
  /\ output = <<>>

-----------------------------------------------------------------------------
(* The value of an expression, and whether there is one                    *)
WordIn(t) == IF t = g_sysframe THEN Ptr(1) ELSE top.tmps[t]

PointsTo(w, kind) == w.w = "ptr" /\ heap[w.b].b = kind

HasCell(t, a) == PointsTo(WordIn(t), "frame") /\ a \in DOMAIN heap[WordIn(t).b].cells

CanRead(e) ==
  CASE e.c = "cell" -> HasCell(e.t, e.a)
    [] e.c = "env"  -> PointsTo(WordIn(e.t), "closure")
    [] OTHER        -> TRUE

Read(e) ==
  CASE e.c = "const" -> Word(e.n)
    [] e.c = "real"  -> Word(1)        \* as a condition; 0.0 is left out
    [] e.c = "tmp"   -> WordIn(e.t)
    [] e.c = "cell"  -> heap[WordIn(e.t).b].cells[e.a]
    [] e.c = "param" -> g_param[e.i]
    [] e.c = "env"   -> heap[WordIn(e.t).b].env

Executes(s) == status = "running" /\ statement.s = s
Evaluates(s) == Executes(s) /\ CanRead(statement.e)

Continue(call) == [call EXCEPT !.pc = @ + 1]
Step == stack' = [stack EXCEPT ![Len(stack)] = Continue(@)]
Sets(t, w) == stack' = [stack EXCEPT ![Len(stack)] = Continue([@ EXCEPT !.tmps[t] = w])]

JumpTo(lab) ==
  stack' = [stack EXCEPT ![Len(stack)].pc =
              CHOOSE i \in 1..Len(funcs[top.fn].code) : funcs[top.fn].code[i] = Label(lab)]

(* GC_MALLOC clears the memory.                                            *)
Allocate ==
  /\ Executes("alloc")
  /\ heap' = Append(heap, FrameBlock([a \in 0..(statement.n - 1) |-> Word(0)]))
  /\ Sets(statement.t, Ptr(Len(heap) + 1))
  /\ UNCHANGED <<program, code, status, g_param, output>>

AssignTmp ==
  /\ Evaluates("assign")
  /\ Sets(statement.t, Read(statement.e))
  /\ UNCHANGED <<program, code, status, heap, g_param, output>>

StoreCell ==
  /\ Evaluates("store")
  /\ HasCell(statement.t, statement.a)
  /\ heap' = [heap EXCEPT ![WordIn(statement.t).b].cells[statement.a] = Read(statement.e)]
  /\ Step
  /\ UNCHANGED <<program, code, status, g_param, output>>

SetRegister ==
  /\ Evaluates("param")
  /\ g_param' = [g_param EXCEPT ![statement.i] = Read(statement.e)]
  /\ Step
  /\ UNCHANGED <<program, code, status, heap, output>>

MakeClosure ==
  /\ Evaluates("closure")
  /\ heap' = Append(heap, ClosureBlock(statement.fp, Read(statement.e)))
  /\ Sets(statement.t, Ptr(Len(heap) + 1))
  /\ UNCHANGED <<program, code, status, g_param, output>>

called == heap[WordIn(statement.e.t).b].fp

CallFunction ==
  /\ Executes("call")
  /\ PointsTo(WordIn(statement.e.t), "closure")
  /\ called > 0
  /\ Len(stack) < MaxStack
  /\ stack' = Append(stack, Call(called))
  /\ UNCHANGED <<program, code, status, heap, g_param, output>>

(* The functions of the runtime work on any words; their results are told  *)
(* for integers.                                                           *)
sysfunc(place, a, b) ==
  IF a.w = "int" /\ b.w = "int" /\ (place = 4 => b.n # 0)
  THEN Word(Reference!Arithmetic(place, a.n, b.n)) ELSE Junk

CallRuntime ==
  /\ Executes("call")
  /\ PointsTo(WordIn(statement.e.t), "closure")
  /\ called <= 0
  /\ IF 1 - called = Reference!Display
     THEN output' = Append(output, g_param[1]) /\ Sets(statement.t, Word(0))
     ELSE Sets(statement.t, sysfunc(1 - called, g_param[1], g_param[2])) /\ UNCHANGED output
  /\ UNCHANGED <<program, code, status, heap, g_param>>

(* Junk is one or the other.                                               *)
Branch ==
  /\ Evaluates("ifnot")
  /\ \/ Read(statement.e) \in {Word(0), Junk} /\ JumpTo(statement.lab)
     \/ Read(statement.e) # Word(0) /\ Step
  /\ UNCHANGED <<program, code, status, heap, g_param, output>>

Jump ==
  /\ Executes("goto")
  /\ JumpTo(statement.lab)
  /\ UNCHANGED <<program, code, status, heap, g_param, output>>

PassLabel ==
  /\ Executes("label")
  /\ Step
  /\ UNCHANGED <<program, code, status, heap, g_param, output>>

(* The value is stored in the caller, or is the result of module_init.     *)
ReturnFromCall ==
  /\ Evaluates("return")
  /\ LET caller == stack[Len(stack) - 1]
     IN  IF Len(stack) = 1 THEN status' = "exited" /\ UNCHANGED stack
         ELSE /\ stack' = [SubSeq(stack, 1, Len(stack) - 1) EXCEPT ![Len(stack) - 1] =
                             Continue([@ EXCEPT !.tmps[funcs[@.fn].code[@.pc].t] =
                                                  Read(statement.e)])]
              /\ UNCHANGED status
  /\ UNCHANGED <<program, code, heap, g_param, output>>

(* A pointer is followed that is none, or to the wrong thing; or the stack *)
(* overflows.                                                              *)
Fault ==
  /\ status = "running"
  /\ \/ "e" \in DOMAIN statement /\ ~CanRead(statement.e)
     \/ statement.s = "store" /\ ~HasCell(statement.t, statement.a)
     \/ statement.s = "call" /\ ~PointsTo(WordIn(statement.e.t), "closure")
     \/ statement.s = "call" /\ called > 0 /\ Len(stack) = MaxStack
  /\ status' = "crashed"
  /\ UNCHANGED <<program, code, stack, heap, g_param, output>>

Over ==
  /\ status # "running"
  /\ UNCHANGED vars

Next ==
  \/ Allocate \/ AssignTmp \/ StoreCell \/ SetRegister \/ MakeClosure
  \/ CallFunction \/ CallRuntime \/ Branch \/ Jump \/ PassLabel \/ ReturnFromCall
  \/ Fault \/ Over

Spec == Init /\ [][Next]_vars

-----------------------------------------------------------------------------
IsWord(w) ==
  CASE w.w = "ptr" -> w.b \in 1..Len(heap)
    [] w.w = "int" -> w.n \in Int
    [] OTHER       -> w = Junk

TypeOK ==
  /\ status \in {"running", "exited", "crashed", "rejected", "aborted"}
  /\ \A i \in 1..Len(stack) :
       /\ stack[i].pc \in 1..Len(funcs[stack[i].fn].code)
       /\ \A t \in DOMAIN stack[i].tmps : IsWord(stack[i].tmps[t])
  /\ \A b \in 1..Len(heap) :
       CASE heap[b].b = "frame"   -> \A a \in DOMAIN heap[b].cells : IsWord(heap[b].cells[a])
         [] heap[b].b = "closure" -> IsWord(heap[b].env) /\ heap[b].fp <= Len(funcs)
  /\ \A i \in DOMAIN g_param : IsWord(g_param[i])

Displayed == [i \in 1..Len(output) |-> IF output[i].w = "int" THEN output[i].n ELSE -999]

ResultIs(v) ==
  CASE v.k = "int"         -> Read(statement.e) = Word(v.n)
    [] v.k = "unspecified" -> TRUE
    [] OTHER               -> PointsTo(Read(statement.e), "closure")

(* What is left of a program when all is dropped that makes no code where  *)
(* its value is not used.  There gen's "?SET" and the like are not even    *)
(* written: the C compiler has nothing to reject, and the form is not done.*)
RECURSIVE Kept(_), KeptStatement(_)

KeptBody(body) ==
  [body EXCEPT
     !.defs = [i \in DOMAIN @ |->
                 [@[i] EXCEPT !.value = IF body.defs[i].place = 0
                                        THEN KeptStatement(@) ELSE Kept(@)]],
     !.exprs = [i \in DOMAIN @ |->
                  IF i < Len(@) THEN KeptStatement(@[i]) ELSE Kept(@[i])]]

Kept(x) ==
  CASE x.k = "closure" -> [x EXCEPT !.body = KeptBody(@)]
    [] x.k = "apply"   -> [x EXCEPT !.target = Kept(@),
                                    !.params = [i \in DOMAIN @ |-> Kept(@[i])]]
    [] x.k = "if"      -> [x EXCEPT !.cond = Kept(@), !.thenAst = Kept(@),
                                    !.elseAst = [i \in DOMAIN @ |-> Kept(@[i])]]
    [] OTHER           -> x

(* An if without else hands its first part's value on, and stores none.    *)
KeptStatement(x) ==
  IF x.k \in {"set", "let", "begin", "datum"} THEN [k |-> "unspecified"]
  ELSE IF x.k = "if" /\ x.elseAst = <<>>
  THEN [x EXCEPT !.cond = Kept(@), !.thenAst = KeptStatement(@)]
  ELSE Kept(x)

kept == [program EXCEPT !.body = KeptBody(@)]

Meant == Reference!Meaning(kept)

(* A program that the C compiler accepts and that ends has displayed and   *)
(* returned what its AST means, but for every set!, let and begin whose    *)
(* value is not used, the ones of the expressions before a definition of   *)
(* the top level too: these are passed over without a word, and nothing    *)
(* else is.  Where there are none, kept means what program does, and each  *)
(* name was looked up in the frames of its own activation, however calls   *)
(* nest, closures outlive them and registers are used again.               *)
RunsAsMeant ==
  status = "exited" => LET meant == Meant
                       IN  meant.ok => Displayed = meant.out /\ ResultIs(meant.v)

(* Nodes of these kinds, data that are words, calls that fit the registers *)
(* and an if without else whose value is not a variable of another frame:  *)
(* the way there would be taken in one branch only.                        *)
RECURSIVE Supported(_, _)

SupportedBody(body) ==
  /\ \A i \in 1..Len(body.defs) : Supported(body.defs[i].value, body.frame.id)
  /\ \A i \in 1..Len(body.exprs) : Supported(body.exprs[i], body.frame.id)

Supported(x, frame) ==
  CASE x.k = "datum"   -> x.skind \in {"integer", "bool"}
    [] x.k = "apply"   -> /\ Supported(x.target, frame)
                          /\ Len(x.params) < PARAM_COUNT
                          /\ \A i \in 1..Len(x.params) : Supported(x.params[i], frame)
    [] x.k = "if"      -> /\ Supported(x.cond, frame) /\ Supported(x.thenAst, frame)
                          /\ x.elseAst = <<>> /\ x.thenAst.k = "var" => x.thenAst.frame = frame
                          /\ \A i \in 1..Len(x.elseAst) : Supported(x.elseAst[i], frame)
    [] x.k = "closure" -> x.params < PARAM_COUNT /\ SupportedBody(x.body)
    [] OTHER           -> x.k \in {"var", "unspecified"}

(* A program all of whose values are supported, whatever is passed over in *)
(* it, becomes code that compiles, never follows a pointer to nowhere,     *)
(* calls nothing but procedures and comes to an end.  No assertion of the  *)
(* generator fails, not for other programs either.                         *)
RunsSafely ==
  /\ status # "aborted"
  /\ status \in {"rejected", "crashed"} => ~(SupportedBody(kept.body) /\ Meant.ok)

===============================================================================
