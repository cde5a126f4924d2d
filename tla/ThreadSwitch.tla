--------------------------- MODULE ThreadSwitch ---------------------------
(***************************************************************************)
(* The context switch, instruction by instruction: threads_low_switch_to   *)
(* (threads_low.asm), the frame setup_context fakes for a new thread and   *)
(* the chain thread_start, thread function, thread_shutdown it arranges    *)
(* (thread.C), with an interrupt possible before every instruction while   *)
(* EFLAGS.IF is set.  Who is dispatched is left open: Threads.tla has the  *)
(* scheduler.                                                              *)
(*                                                                         *)
(* A stack is an array indexed by depth, the word at the highest address   *)
(* first.  esp is the number of words pushed, so [esp + 4k] is at depth    *)
(* esp - k, and what lies deeper than esp is below the stack pointer.      *)
(***************************************************************************)
EXTENDS Naturals

CONSTANTS
    Thread,
    First,          \* the thread the start-up code dispatches to
    Forever,        \* the threads whose function never returns
    StartEnables,   \* thread_start() enables interrupts: TRUE in P6, FALSE in P5
    StackWords      \* bound: depth of a stack (kernel.C gives each 1024 bytes)

ASSUME ThreadSwitchAssumption ==
    /\ First \in Thread
    /\ Forever \subseteq Thread /\ Forever # {}
    /\ StartEnables \in BOOLEAN
    /\ StackWords \in Nat /\ StackWords >= 24

VARIABLES
    current_thread,
    saved_esp,      \* Thread::esp, the field at offset 0 that the assembly uses
    stack,          \* the words of each stack
    esp,            \* the stack pointer of the CPU
    eax,
    IF_flag,
    eip,            \* the function, or the next instruction of the switch
    want            \* what each thread shall find when it is switched in (history)

vars == <<current_thread, saved_esp, stack, esp, eax, IF_flag, eip, want>>

\* The two words of error code and interrupt number, and what save_registers pushes:
\* pushad's 8 words and 4 segment registers.
FillerWords == 2
RegisterWords == 12

\* Deviation: INTERRUPT_STATE_SIZE not kept up to date with save_registers.
InterruptStateWords_stale == 16

\* INTERRUPT_STATE_SIZE, 68 bytes: EFLAGS, CS, EIP, the filler and the registers.
InterruptStateWords == 17

Eflags(f) == <<"EFLAGS", f>>
Junk == "isr"

\* Deviation: the function's return address and thread_shutdown change places.
FakeFrame_swapped ==
    <<"arg_0", "tfunction", "thread_shutdown", Eflags(FALSE), "CS", "thread_start">>

\* The first words setup_context pushes; the registers follow, which nothing reads.
FakeFrame ==
    <<"arg_0", "thread_shutdown", "tfunction", Eflags(FALSE), "CS", "thread_start">>

InitialStack ==
    [d \in 1..StackWords |->
        IF d <= 6 THEN FakeFrame[d]
        ELSE IF d <= 6 + FillerWords + RegisterWords THEN "reg" ELSE Junk]

InitialEsp == 6 + FillerWords + RegisterWords

\* At the first dispatch the start-up code branches to .context_load_only.
Init ==
    /\ current_thread = First
    /\ saved_esp = [t \in Thread |-> InitialEsp]
    /\ stack = [t \in Thread |-> InitialStack]
    /\ esp = InitialEsp
    /\ eax = First
    /\ IF_flag = TRUE
    /\ eip = "restore"
    /\ want = [t \in Thread |-> [eip |-> "thread_start", esp |-> 3, flag |-> FALSE]]

Word(d) == stack[current_thread][d]

Put(d, w) == stack' = [stack EXCEPT ![current_thread][d] = w]

\* One instruction: where it is and where the CPU goes on.
Step(from, to) == eip = from /\ eip' = to

-----------------------------------------------------------------------------
(* What a thread does between switches.                                    *)

\* thread_start() and its ret: into whatever word is on the stack now.
ThreadStart ==
    /\ eip = "thread_start"
    /\ IF_flag' = (IF_flag \/ StartEnables)
    /\ eip' = Word(esp)
    /\ esp' = esp - 1
    /\ UNCHANGED <<current_thread, saved_esp, stack, eax, want>>

\* The thread function returns.
FunctionReturns ==
    /\ eip = "tfunction"
    /\ current_thread \notin Forever
    /\ eip' = Word(esp)
    /\ esp' = esp - 1
    /\ UNCHANGED <<current_thread, saved_esp, stack, eax, IF_flag, want>>

\* dispatch_to(t), by way of yield(): the argument and the return address are pushed.
Call(t) ==
    /\ eip \in {"tfunction", "thread_shutdown"}
    \* A thread in thread_shutdown is in no queue any more: it cannot be chosen.
    /\ want[t].eip # "thread_shutdown" /\ (eip = "thread_shutdown" => t # current_thread)
    /\ want' = [want EXCEPT ![current_thread] =
                   [eip |-> eip, esp |-> esp, flag |-> IF_flag]]
    /\ stack' = [stack EXCEPT ![current_thread][esp + 1] = t,
                              ![current_thread][esp + 2] = eip]
    /\ esp' = esp + 2
    /\ eip' = "push_eax"
    /\ UNCHANGED <<current_thread, saved_esp, eax, IF_flag>>

-----------------------------------------------------------------------------
(* threads_low_switch_to.                                                  *)

PushEax ==
    /\ Step("push_eax", "mov_eax_[esp+4]")
    /\ Put(esp + 1, eax) /\ esp' = esp + 1
    /\ UNCHANGED <<current_thread, saved_esp, eax, IF_flag, want>>

LoadReturnAddress ==
    /\ Step("mov_eax_[esp+4]", "mov_[esp-4]_eax")
    /\ eax' = Word(esp - 1)
    /\ UNCHANGED <<current_thread, saved_esp, stack, esp, IF_flag, want>>

\* Deviation: the return address is moved down by one word instead of two.
StoreReturnAddress_short ==
    /\ Step("mov_[esp-4]_eax", "add_esp_8")
    /\ Put(esp, eax)
    /\ UNCHANGED <<current_thread, saved_esp, esp, eax, IF_flag, want>>

\* Writes below the stack pointer.
StoreReturnAddress ==
    /\ Step("mov_[esp-4]_eax", "add_esp_8")
    /\ Put(esp + 1, eax)
    /\ UNCHANGED <<current_thread, saved_esp, esp, eax, IF_flag, want>>

AddEsp ==
    /\ Step("add_esp_8", "pushfd")
    /\ esp' = esp - 2
    /\ UNCHANGED <<current_thread, saved_esp, stack, eax, IF_flag, want>>

PushFlags ==
    /\ Step("pushfd", "mov_eax_[esp-4]")
    /\ Put(esp + 1, Eflags(IF_flag)) /\ esp' = esp + 1
    /\ UNCHANGED <<current_thread, saved_esp, eax, IF_flag, want>>

RestoreEax ==
    /\ Step("mov_eax_[esp-4]", "push_CS")
    /\ eax' = Word(esp + 1)
    /\ UNCHANGED <<current_thread, saved_esp, stack, esp, IF_flag, want>>

PushCS ==
    /\ Step("push_CS", "sub_esp_4")
    /\ Put(esp + 1, "CS") /\ esp' = esp + 1
    /\ UNCHANGED <<current_thread, saved_esp, eax, IF_flag, want>>

SubEsp ==
    /\ Step("sub_esp_4", "save")
    /\ esp' = esp + 1
    /\ UNCHANGED <<current_thread, saved_esp, stack, eax, IF_flag, want>>

\* The two filler words and save_registers: an interrupt between these pushes only
\* writes below what has been pushed, so they are one step.
Save ==
    /\ Step("save", "mov_[current]_esp")
    /\ stack' = [stack EXCEPT ![current_thread] =
                    [d \in 1..StackWords |->
                        IF d \in esp + 1..esp + FillerWords + RegisterWords
                        THEN "reg" ELSE @[d]]]
    /\ esp' = esp + FillerWords + RegisterWords
    /\ UNCHANGED <<current_thread, saved_esp, eax, IF_flag, want>>

SaveEsp ==
    /\ Step("mov_[current]_esp", "mov_eax_[esp+68]")
    /\ saved_esp' = [saved_esp EXCEPT ![current_thread] = esp]
    /\ eax' = current_thread
    /\ UNCHANGED <<current_thread, stack, esp, IF_flag, want>>

LoadArgument ==
    /\ Step("mov_eax_[esp+68]", "mov_current_eax")
    /\ eax' = Word(esp - InterruptStateWords)
    /\ UNCHANGED <<current_thread, saved_esp, stack, esp, IF_flag, want>>

\* current_thread and then esp: an interrupt between the two runs on the old stack,
\* whose saved words it does not reach.
SwitchStack ==
    /\ Step("mov_current_eax", "restore")
    /\ eax \in Thread
    /\ current_thread' = eax
    /\ esp' = saved_esp[eax]
    /\ UNCHANGED <<saved_esp, stack, eax, IF_flag, want>>

Restore ==
    /\ Step("restore", "iret")
    /\ esp' = esp - (FillerWords + RegisterWords)
    /\ UNCHANGED <<current_thread, saved_esp, stack, eax, IF_flag, want>>

\* Pops EIP, CS and EFLAGS; a caller also drops the argument it pushed.
Iret ==
    /\ eip = "iret"
    /\ Word(esp) \in {"thread_start", "tfunction", "thread_shutdown"}
    /\ Word(esp - 1) = "CS"
    /\ \E f \in BOOLEAN : Word(esp - 2) = Eflags(f) /\ IF_flag' = f
    /\ eip' = Word(esp)
    /\ esp' = IF Word(esp) = "thread_start" THEN esp - 3 ELSE esp - 4
    /\ UNCHANGED <<current_thread, saved_esp, stack, eax, want>>

Switch ==
    \/ PushEax \/ LoadReturnAddress \/ StoreReturnAddress \/ AddEsp \/ PushFlags
    \/ RestoreEax \/ PushCS \/ SubEsp \/ Save \/ SaveEsp \/ LoadArgument
    \/ SwitchStack \/ Restore \/ Iret

\* An interrupt before the next instruction: the CPU and the handler (irq_low.asm)
\* overwrite what lies below the stack pointer and put every register back.
Interrupt ==
    /\ IF_flag
    /\ stack' = [stack EXCEPT ![current_thread] =
                    [d \in 1..StackWords |-> IF d > esp THEN Junk ELSE @[d]]]
    /\ UNCHANGED <<current_thread, saved_esp, esp, eax, IF_flag, eip, want>>

Next ==
    \/ ThreadStart
    \/ FunctionReturns
    \/ \E t \in Thread : Call(t)
    \/ Switch
    \/ Interrupt

Spec == Init /\ [][Next]_vars

-----------------------------------------------------------------------------
(* Properties.                                                             *)

\* "the function returns after the calling thread has been switched back in"
\* (threads_low.H): the frame iret is about to pop takes the thread back to where it
\* called from, on the stack it had, with the interrupt flag it had.
SwitchReturns ==
    eip = "iret" =>
        LET w == want[current_thread] IN
        /\ Word(esp) = w.eip
        /\ Word(esp - 1) = "CS"
        /\ Word(esp - 2) = Eflags(w.flag)
        /\ w.esp = IF w.eip = "thread_start" THEN esp - 3 ELSE esp - 4

\* The argument found 68 bytes up is the thread dispatch_to was called with, and every
\* suspended thread's saved frame has that same size (setup_context and the switch agree).
FramesAgree ==
    /\ eip = "mov_current_eax" => eax \in Thread
    /\ \A t \in Thread : t # current_thread =>
          saved_esp[t] = want[t].esp + InterruptStateWords
                         + (IF want[t].eip = "thread_start" THEN 0 ELSE 1)

\* The words setup_context pushes lead from thread_start to the thread function to
\* thread_shutdown, and nowhere else (thread.C:103-127).
StartChain ==
    /\ eip \in {"thread_start", "tfunction", "thread_shutdown"} =>
          esp = CASE eip = "thread_start" -> 3 [] eip = "tfunction" -> 2 [] OTHER -> 1
    /\ eip # "arg_0"
=============================================================================
